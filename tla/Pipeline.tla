------------------------------ MODULE Pipeline ------------------------------
(***************************************************************************)
(* .github/workflows/ci-cd.yml: the runs of main, from the commit that     *)
(* starts one to the stack it deploys, the image it promotes and the       *)
(* release it cuts, for one of the containers.                             *)
(*                                                                         *)
(* GitHub's scheduler, the registry and the stack are external: they are   *)
(* modelled from how the workflow uses them. A concurrency group runs one  *)
(* member, keeps one waiting, and cancels the waiting one when another     *)
(* arrives.                                                                *)
(***************************************************************************)
EXTENDS Naturals

CONSTANTS
  MaxCommit,    \* bound: commits pushed to main
  MaxManual,    \* bound: manual runs
  MaxAttempt,   \* bound: attempts of one run
  MaxFaults,    \* bound: jobs that fail of themselves
  Baseless,     \* whether looking for the last run that passed may fail
  Rewriting,    \* whether main is ever force-pushed
  Reverting     \* whether a push may restore what an older commit held

Commit == 0..MaxCommit
Run == 0..(MaxCommit + MaxManual)
NoCommit == MaxCommit + 1

ASSUME PipelineAssumption ==
  /\ MaxCommit \in Nat
  /\ MaxManual \in Nat
  /\ MaxAttempt \in Nat \ {0}
  /\ MaxFaults \in Nat
  /\ Baseless \in BOOLEAN
  /\ Rewriting \in BOOLEAN
  /\ Reverting \in BOOLEAN

VARIABLES
  head,       \* the commit main is at; commits are numbered as pushed
  log,        \* what each commit holds
  created,    \* the latest run; runs are numbered as created
  run,        \* what each run was started for
  status,     \* how each run stands
  plan,       \* what the changes job of each run asked for
  job,        \* the state of each job of each run
  held,       \* the commit a promote job read on the main tag
  built,      \* commits whose image was pushed under sha-<commit>
  main,       \* the commit whose image carries the tags main and latest
  tagged,     \* the commit whose image carries each version's tag
  released,   \* the commit each version's release was cut at
  live,       \* the last run that changed the stack, and whether it finished
  faults

git == <<head, log>>
registry == <<built, main, tagged>>
vars == <<git, created, run, status, plan, job, held, registry, released, live,
          faults>>

(***************************************************************************)
(* Types. A commit holds a stack (what pulumi up applies), an image (what  *)
(* the container is built from), each named by the commit that introduced  *)
(* it, and the container's version.                                        *)
(***************************************************************************)
Entry == [parent : Commit, past : SUBSET Commit, stack : Commit,
          image : Commit, version : Commit]
Event == {"none", "push", "manual"}
Plan == [deploy : BOOLEAN, image : BOOLEAN, release : BOOLEAN]
Job == {"changes", "image", "checks", "deploy", "promote", "release"}
Over == {"success", "failure", "skipped", "cancelled"}
State == Over \cup {"waiting", "queued", "running", "acting"}

Active(s) == s \in {"running", "acting"}

\* Every variable has its type, and one run at a time deploys, or promotes.
TypeOK ==
  /\ head \in Commit
  /\ log \in [Commit -> Entry]
  /\ created \in Run
  /\ run \in [Run -> [event : Event, commit : Commit, attempt : 0..MaxAttempt]]
  /\ status \in [Run -> State]
  /\ plan \in [Run -> Plan]
  /\ job \in [Job -> [Run -> State]]
  /\ held \in [Run -> Commit]
  /\ built \in SUBSET Commit
  /\ main \in Commit
  /\ tagged \in [Commit -> Commit \cup {NoCommit}]
  /\ released \in [Commit -> Commit \cup {NoCommit}]
  /\ live \in [run : Run, whole : BOOLEAN]
  /\ faults \in 0..MaxFaults
  /\ \A j \in {"deploy", "promote"}, r, s \in Run :
       Active(job[j][r]) /\ Active(job[j][s]) => r = s

\* Everything that main held has been delivered.
Init ==
  /\ head = 0
  /\ log = [c \in Commit |->
       [parent |-> 0, past |-> {0}, stack |-> 0, image |-> 0, version |-> 0]]
  /\ created = 0
  /\ run = [r \in Run |-> [event |-> IF r = 0 THEN "push" ELSE "none",
                           commit |-> 0, attempt |-> IF r = 0 THEN 1 ELSE 0]]
  /\ status = [r \in Run |-> IF r = 0 THEN "success" ELSE "waiting"]
  /\ plan = [r \in Run |-> [deploy |-> FALSE, image |-> FALSE, release |-> FALSE]]
  /\ job = [j \in Job |-> [r \in Run |-> IF r = 0 THEN "success" ELSE "waiting"]]
  /\ held = [r \in Run |-> 0]
  /\ built = {0}
  /\ main = 0
  /\ tagged = [v \in Commit |-> IF v = 0 THEN 0 ELSE NoCommit]
  /\ released = tagged
  /\ live = [run |-> 0, whole |-> TRUE]
  /\ faults = 0

(***************************************************************************)
(* Concurrency groups                                                      *)
(***************************************************************************)
\* x joins the group: the waiting member is superseded, a running one is not.
Join(states, group, x) ==
  [y \in DOMAIN states |->
     IF y = x
     THEN IF \E z \in group \ {x} : Active(states[z]) THEN "queued" ELSE "running"
     ELSE IF y \in group /\ states[y] = "queued" THEN "cancelled" ELSE states[y]]

\* x leaves the group with a result, and the waiting member starts.
Leave(states, group, x, result) ==
  [y \in DOMAIN states |->
     IF y = x THEN result
     ELSE IF y \in group /\ states[y] = "queued" THEN "running" ELSE states[y]]

\* Pushes to main share a group, and a manual run has one of its own.
PushRuns == {r \in Run : run[r].event = "push"}
Group(r) == IF run[r].event = "push" THEN PushRuns ELSE {r}

\* deploy has one group for all runs, and so has promote.
Alone(r) == {r}
Others(r) == Run

Fail == faults < MaxFaults /\ faults' = faults + 1

(***************************************************************************)
(* What starts a run                                                       *)
(***************************************************************************)
\* The parts of a push: what its parent holds, something new, or something old.
Older(parent) == IF Reverting THEN log[parent].past ELSE {parent}
Stacks(parent) == {head + 1} \cup {log[c].stack : c \in Older(parent)}
Images(parent) == {head + 1} \cup {log[c].image : c \in Older(parent)}

Versions(parent, image) ==
  IF image = head + 1
  THEN {log[parent].version} \cup ({log[parent].version + 1} \cap Commit)
  ELSE {log[image].version}

Push ==
  LET new == head + 1
      r == created + 1
      started == [run EXCEPT ![r] = [event |-> "push", commit |-> new, attempt |-> 1]]
  IN /\ head < MaxCommit
     /\ \E parent \in IF Rewriting THEN log[head].past ELSE {head} :
        \E stack \in Stacks(parent), image \in Images(parent) :
        \E version \in Versions(parent, image) :
          log' = [log EXCEPT ![new] =
            [parent |-> parent, past |-> log[parent].past \cup {new},
             stack |-> stack, image |-> image, version |-> version]]
     /\ head' = new
     /\ created' = r
     /\ run' = started
     /\ status' = Join(status, PushRuns \cup {r}, r)
     /\ UNCHANGED <<plan, job, held, registry, released, live, faults>>

Dispatch ==
  LET r == created + 1
  IN /\ created - head < MaxManual
     /\ created' = r
     /\ run' = [run EXCEPT ![r] = [event |-> "manual", commit |-> head, attempt |-> 1]]
     /\ status' = [status EXCEPT ![r] = "running"]
     /\ UNCHANGED <<git, plan, job, held, registry, released, live, faults>>

\* The jobs whose results a job waits for, however indirectly.
Upstream ==
  [j \in Job |->
     CASE j = "changes" -> {}
       [] j = "image" -> {"changes"}
       [] j = "checks" -> {"changes", "image"}
       [] j \in {"deploy", "promote"} -> {"changes", "image", "checks"}
       [] j = "release" -> {"changes", "image", "checks", "promote"}]

\* A re-run of every job, or of those that did not pass and what follows them,
\* keeps the commit. Run 0 stands for all those before, so that one that passed
\* remains.
Again(r, j) ==
  \E k \in Upstream[j] \cup {j} : job[k][r] \in {"waiting", "failure", "cancelled"}
Rerun(r, every) ==
  /\ r # 0
  /\ status[r] \in Over
  /\ status[r] = "success" => every
  /\ run[r].attempt < MaxAttempt
  /\ run' = [run EXCEPT ![r].attempt = @ + 1]
  /\ job' = [j \in Job |->
       [job[j] EXCEPT ![r] = IF every \/ Again(r, j) THEN "waiting" ELSE @]]
  /\ status' = Join(status, Group(r), r)
  /\ UNCHANGED <<git, created, plan, held, registry, released, live, faults>>

(***************************************************************************)
(* CI                                                                      *)
(***************************************************************************)
\* What each job's "if" asks of the jobs before it.
PromoteOver(r) == TRUE
Promoted(r) == job["promote"][r] = "success"

Wanted(r, j) ==
  CASE j \in {"changes", "checks"} -> TRUE
    [] j = "image" -> job["changes"][r] = "success" /\ plan[r].image
    [] j = "deploy" -> job["checks"][r] = "success" /\ plan[r].deploy
    [] j = "promote" -> job["checks"][r] = "success" /\ job["image"][r] = "success"
    [] j = "release" -> Promoted(r) /\ plan[r].release

Due(r, j) ==
  /\ status[r] = "running"
  /\ job[j][r] = "waiting"
  /\ \A k \in Upstream[j] : job[k][r] \in Over

Ended(r, j, result) == job' = [job EXCEPT ![j][r] = result]

Skip(r, j) ==
  /\ Due(r, j)
  /\ ~Wanted(r, j)
  /\ Ended(r, j, "skipped")
  /\ UNCHANGED <<git, created, run, status, plan, held, registry, released, live,
                 faults>>

\* The newest push run that passed.
Passed ==
  LET passing == {r \in PushRuns : status[r] = "success"}
  IN {run[r].commit : r \in {p \in passing : \A q \in passing : q <= p}}

\* The commit a push is compared with, NoCommit when there is none to be had.
FromParent(c) == log[c].parent
Base(c) ==
  LET behind == Passed \cap log[c].past
  IN IF c \in behind THEN log[c].parent
     ELSE IF behind # {} THEN CHOOSE p \in behind : TRUE ELSE NoCommit

BumpedSinceParent(c, from) == log[log[c].parent].version # log[c].version
Bumped(c, from) == log[from].version # log[c].version

\* What the changes job of run r asks for, given the base it found.
Asked(r, base) ==
  LET c == run[r].commit
      all == run[r].event = "manual" \/ base = NoCommit
      from == IF base = NoCommit THEN log[c].parent ELSE base
      release == /\ run[r].event = "manual" \/ Bumped(c, from)
                 /\ released[log[c].version] = NoCommit
  IN [deploy |-> all \/ log[from].stack # log[c].stack,
      image |-> all \/ log[from].image # log[c].image \/ release,
      release |-> release]

\* Finding no base is not an error.
Changes(r) ==
  /\ Due(r, "changes")
  /\ \/ /\ \/ plan' = [plan EXCEPT ![r] = Asked(r, Base(run[r].commit))]
             /\ UNCHANGED faults
           \/ Baseless /\ plan' = [plan EXCEPT ![r] = Asked(r, NoCommit)] /\ Fail
        /\ Ended(r, "changes", "success")
     \/ Ended(r, "changes", "failure") /\ Fail /\ UNCHANGED plan
  /\ UNCHANGED <<git, created, run, status, held, registry, released, live>>

Image(r) ==
  /\ Due(r, "image")
  /\ Wanted(r, "image")
  /\ \/ /\ Ended(r, "image", "success")
        /\ built' = built \cup {run[r].commit}
        /\ UNCHANGED faults
     \/ Ended(r, "image", "failure") /\ Fail /\ UNCHANGED built
  /\ UNCHANGED <<git, created, run, status, plan, held, main, tagged, released, live>>

\* The job every other job of CI reports to, skipped ones included; those not
\* modelled fail with it.
Passable(r) == \A j \in {"changes", "image"} : job[j][r] \in {"success", "skipped"}
Checks(r) ==
  /\ Due(r, "checks")
  /\ \/ Passable(r) /\ Ended(r, "checks", "success") /\ UNCHANGED faults
     \/ ~Passable(r) /\ Ended(r, "checks", "failure") /\ UNCHANGED faults
     \/ Passable(r) /\ Ended(r, "checks", "failure") /\ Fail
  /\ UNCHANGED <<git, created, run, status, plan, held, registry, released, live>>

(***************************************************************************)
(* CD                                                                      *)
(***************************************************************************)
Enqueue(r, j) ==
  /\ Due(r, j)
  /\ Wanted(r, j)
  /\ job' = [job EXCEPT ![j] = Join(@, Others(r), r)]
  /\ UNCHANGED <<git, created, run, status, plan, held, registry, released, live,
                 faults>>

Done(r, j, result) == job' = [job EXCEPT ![j] = Leave(@, Others(r), r, result)]

\* A push's first attempt always deploys, anything else only main's head.
AlwaysCurrent(r) == TRUE
OnlyHead(r) == run[r].commit = head
Current(r) ==
  \/ run[r].event = "push" /\ run[r].attempt = 1
  \/ run[r].commit = head

DeployCheck(r) ==
  /\ job["deploy"][r] = "running"
  /\ IF Current(r) THEN Ended(r, "deploy", "acting") ELSE Done(r, "deploy", "success")
  /\ UNCHANGED <<git, created, run, status, plan, held, registry, released, live,
                 faults>>

\* pulumi up; one that fails may leave the stack part of the way.
DeployUp(r) ==
  /\ job["deploy"][r] = "acting"
  /\ \/ /\ Done(r, "deploy", "success")
        /\ live' = [run |-> r, whole |-> TRUE]
        /\ UNCHANGED faults
     \/ /\ Done(r, "deploy", "failure")
        /\ live' \in {live, [run |-> r, whole |-> FALSE]}
        /\ Fail
  /\ UNCHANGED <<git, created, run, status, plan, held, registry, released>>

PromoteRead(r) ==
  /\ job["promote"][r] = "running"
  /\ held' = [held EXCEPT ![r] = main]
  /\ Ended(r, "promote", "acting")
  /\ UNCHANGED <<git, created, run, status, plan, registry, released, live, faults>>

\* How GitHub compares the commit held with the one of the run, c: main moves
\* when c is ahead or they diverged, and when the commit held is gone, which
\* one that main still leads to never is.
MovesSwapped(c, h) == c \in log[h].past \/ h \notin log[c].past
Moves(c, h) == h \in log[c].past \/ c \notin log[h].past
Gone(h) == IF h \in log[head].past THEN {FALSE} ELSE BOOLEAN

PromoteTag(r) ==
  LET c == run[r].commit
  IN /\ job["promote"][r] = "acting"
     /\ \E gone \in Gone(held[r]) :
          main' = IF gone \/ Moves(c, held[r]) THEN c ELSE main
     /\ tagged' = IF plan[r].release THEN [tagged EXCEPT ![log[c].version] = c]
                  ELSE tagged
     /\ Done(r, "promote", "success")
     /\ UNCHANGED <<git, created, run, status, plan, held, built, released, live,
                    faults>>

PromoteFails(r) ==
  /\ Active(job["promote"][r])
  /\ Fail
  /\ Done(r, "promote", "failure")
  /\ UNCHANGED <<git, created, run, status, plan, held, registry, released, live>>

\* gh release view, then gh release create, which fails for a release that
\* exists by then.
ReleaseView(r) ==
  /\ Due(r, "release")
  /\ Wanted(r, "release")
  /\ Ended(r, "release",
       IF released[log[run[r].commit].version] = NoCommit THEN "acting" ELSE "success")
  /\ UNCHANGED <<git, created, run, status, plan, held, registry, released, live,
                 faults>>

ReleaseCreate(r) ==
  LET version == log[run[r].commit].version
  IN /\ job["release"][r] = "acting"
     /\ \/ /\ released[version] = NoCommit
           /\ released' = [released EXCEPT ![version] = run[r].commit]
           /\ Ended(r, "release", "success")
           /\ UNCHANGED faults
        \/ /\ released[version] # NoCommit
           /\ Ended(r, "release", "failure")
           /\ UNCHANGED <<released, faults>>
        \/ Fail /\ Ended(r, "release", "failure") /\ UNCHANGED released
     /\ UNCHANGED <<git, created, run, status, plan, held, registry, live>>

Finish(r) ==
  /\ status[r] = "running"
  /\ \A j \in Job : job[j][r] \in Over
  /\ status' = Leave(status, Group(r), r,
       IF \A j \in Job : job[j][r] \in {"success", "skipped"}
       THEN "success" ELSE "failure")
  /\ UNCHANGED <<git, created, run, plan, job, held, registry, released, live, faults>>

Proceed(r) ==
  \/ \E j \in Job : Skip(r, j)
  \/ Changes(r) \/ Image(r) \/ Checks(r)
  \/ \E j \in {"deploy", "promote"} : Enqueue(r, j)
  \/ DeployCheck(r) \/ DeployUp(r)
  \/ PromoteRead(r) \/ PromoteTag(r) \/ PromoteFails(r)
  \/ ReleaseView(r) \/ ReleaseCreate(r)
  \/ Finish(r)

Next ==
  \/ Push
  \/ Dispatch
  \/ \E r \in Run : Proceed(r) \/ \E every \in BOOLEAN : Rerun(r, every)

Spec == Init /\ [][Next]_vars

\* GitHub starts a job whose needs are met, and every job has a timeout.
FairSpec == Spec /\ \A r \in Run : WF_vars(Proceed(r))

(***************************************************************************)
(* Properties                                                              *)
(***************************************************************************)
\* A release never names an image that does not exist, or one of another
\* version, whichever runs promoted and released (the release job).
ReleaseNamesItsImage ==
  \A v \in Commit : released[v] # NoCommit =>
    /\ tagged[v] \in built
    /\ log[tagged[v]].version = v
    /\ log[released[v]].version = v

\* main and latest only move forward: off a commit that main still leads to,
\* they move only to one that descends from it (the promote job).
MainMovesForward ==
  [][main' # main => main \in log'[main'].past \/ main \notin log[head].past]_vars

\* An older tree never lands after a newer one (the workflow's concurrency).
DeploysMoveForward ==
  [][live' # live => run[live.run].commit <= run'[live'.run].commit]_vars

Quiet == \A r \in Run : status[r] \notin {"queued", "running"}
HeadPassed ==
  Quiet /\ \E r \in PushRuns : run[r].commit = head /\ status[r] = "success"
StackIsHeads == live.whole /\ log[run[live.run].commit].stack = log[head].stack
ImageIsHeads == log[main].image = log[head].image
VersionIsOut == released[log[head].version] # NoCommit

\* Superseding or failing a push loses nothing ("concurrency" and the changes
\* job): once the run of main's head has passed and nothing is running, the
\* stack is the one that commit holds, unless a manual deploy failed since. It
\* holds of pushes that restore nothing and runs that are not re-run.
StackDelivered ==
  HeadPassed =>
    \/ StackIsHeads
    \/ /\ ~live.whole
       /\ run[live.run].event = "manual"

\* So is the image under main and latest (the promote job).
ImageDelivered == HeadPassed => ImageIsHeads

\* And its version is released, although the run of the push that changed it
\* failed or was superseded (the changes job).
ReleaseDelivered == HeadPassed => VersionIsOut

\* When no job fails, everything main's head holds is delivered in the end, in
\* whatever order pushes and a manual run start, wait and supersede each other.
DeliveredInTheEnd == <>[](StackIsHeads /\ ImageIsHeads /\ VersionIsOut)
=============================================================================
