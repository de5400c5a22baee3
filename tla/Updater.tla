------------------------------ MODULE Updater ------------------------------
(***************************************************************************)
(* The version updater (scripts/update-apps/update-apps.ts), which three    *)
(* times a day reads the newest release of every tracked program, commits   *)
(* a bump per program that moved, and pushes to a main that people push to. *)
(*                                                                         *)
(* A tracked program is pinned on one line of a file several programs may   *)
(* share; one that is a dependency is pinned in a manifest and, on another  *)
(* line, in the lockfile. A commit is what it changes: the lines before and  *)
(* after. GitHub, the registries and git are external.                     *)
(***************************************************************************)
EXTENDS Versions

CONSTANTS
  App,          \* tracked programs
  Entries,      \* tracked-versions.yml: the programs in its order
  Repo,         \* the repository of each program
  Prefixed,     \* programs with a tagPrefix
  File,         \* the file each program's pin is in
  Dependency,   \* programs pinned by a manifest and the lockfile
  Checked,      \* programs with an image or a chart to confirm
  Asked,        \* those whose registry the updater has a client for
  Version,      \* versions ever released
  Missing,      \* no pin where one is looked for
  Lockfile,
  MaxEdits,     \* bound: pushes by people
  MaxFaults     \* bound: calls that fail

Line == ({"pin"} \X App) \cup ({"lock"} \X Dependency)
FileOf(line) == IF line[1] = "pin" THEN File[line[2]] ELSE Lockfile

ASSUME UpdaterAssumption ==
  /\ Prefixed \subseteq App
  /\ Dependency \subseteq App
  /\ Checked \subseteq App
  /\ Asked \subseteq Checked
  /\ IsFiniteSet(App)
  /\ Entries \in Seq(App) \ {<<>>}
  /\ \A i, j \in DOMAIN Entries : Entries[i] = Entries[j] => i = j
  /\ \A a \in App \ Prefixed, b \in App : Repo[a] = Repo[b] => a = b
  /\ Missing \notin Version
  /\ \A a \in App : File[a] # Lockfile
  /\ MaxEdits \in Nat
  /\ MaxFaults \in Nat

VARIABLES
  releases,   \* GitHub: the tags of each repository, in the order they were made
  published,  \* the registries: the versions of each program one can pull
  main,       \* origin's main: what each line holds, and how often it has moved
  author,     \* who wrote each line of main last
  job,        \* the run in progress
  edits,
  faults

vars == <<releases, published, main, author, job, edits, faults>>
upstream == <<releases, published>>
origin == <<main, author>>

Text == [Line -> Version \cup {Missing}]
Main == [lines: Text, moved: Nat]
Step == {"idle", "sync", "read", "check", "pull", "rebase", "push", "record"}

\* Between runs: no clone, so nothing of an earlier run is left.
NoText == [l \in Line |-> Missing]
Idle == [step |-> "idle", entry |-> 1, base |-> [lines |-> NoText, moved |-> 0], tree |-> NoText,
         sources |-> <<>>, commits |-> <<>>, todo |-> <<>>, titles |-> <<>>,
         tag |-> Missing, attempt |-> 1, rebasing |-> FALSE, failed |-> {}]

Init ==
  /\ \E v \in Version :
      /\ releases = [r \in {Repo[a] : a \in App} |->
                      SetToSeq({Tag(a, v) : a \in {a \in App : Repo[a] = r}})]
      /\ published = [a \in App |-> {v}]
      /\ main = [lines |-> [l \in Line |-> v], moved |-> 0]
  /\ author = [l \in Line |-> "nobody"]
  /\ job = Idle
  /\ edits = 0
  /\ faults = 0

-----------------------------------------------------------------------------
(* The world around a run. *)

\* A program is released once per version, which publishes nothing.
Release(a, v) ==
  /\ \A i \in DOMAIN releases[Repo[a]] : releases[Repo[a]][i] # Tag(a, v)
  /\ releases' = [releases EXCEPT ![Repo[a]] = Append(@, Tag(a, v))]
  /\ UNCHANGED <<published, origin, job, edits, faults>>

\* The image, the chart or the package follows its release.
Publish(a, v) ==
  /\ \E i \in DOMAIN releases[Repo[a]] : releases[Repo[a]][i] = Tag(a, v)
  /\ v \notin published[a]
  /\ published' = [published EXCEPT ![a] = @ \cup {v}]
  /\ UNCHANGED <<releases, origin, job, edits, faults>>

\* A merged pull request moves a pin, with a lockfile that installs, or moves it away.
Edit(a, v) ==
  /\ edits < MaxEdits
  /\ a \in Dependency => v \in published[a] \cup {Missing}
  /\ LET changed == {l \in Line : l[2] = a}
     IN  /\ \E l \in changed : main.lines[l] # v
         /\ main' = [lines |-> [l \in Line |-> IF l \in changed THEN v ELSE main.lines[l]],
                     moved |-> main.moved + 1]
         /\ author' = [l \in Line |-> IF l \in changed THEN "person" ELSE author[l]]
  /\ edits' = edits + 1
  /\ UNCHANGED <<upstream, job, faults>>

-----------------------------------------------------------------------------
(* A run. The workflow's concurrency group lets one run at a time. *)

Fault == faults < MaxFaults /\ faults' = faults + 1
NoFault == UNCHANGED faults

\* Whatever throws outside a try ends the process, and the clone with it.
Throws == Fault /\ job' = Idle

Entry == Entries[job.entry]

\* Mutant: a failed entry ends the loop.
NextEntryUnlessFailed(j) ==
  IF j.failed # {} THEN Idle
  ELSE IF j.entry < Len(Entries) THEN [j EXCEPT !.step = "read", !.entry = @ + 1]
  ELSE IF j.titles = <<>> THEN Idle
  ELSE [j EXCEPT !.step = "pull"]

\* The loop goes on with the next entry, and to the push if anything moved.
NextEntry(j) ==
  IF j.entry < Len(Entries) THEN [j EXCEPT !.step = "read", !.entry = @ + 1]
  ELSE IF j.titles = <<>> THEN Idle
  ELSE [j EXCEPT !.step = "pull"]

Start ==
  /\ job.step = "idle"
  /\ job' = [Idle EXCEPT !.step = "sync"]
  /\ UNCHANGED <<upstream, origin, edits, faults>>

\* The pull the run begins with; a checkout may be older than main.
Sync ==
  /\ job.step = "sync"
  /\ \/ /\ job' = [job EXCEPT !.step = "read", !.base = main, !.tree = main.lines]
        /\ NoFault
     \/ Throws
  /\ UNCHANGED <<upstream, origin, edits>>

\* headSha or latestTag: the newest of the component's tags where the entry has
\* a prefix, and otherwise the last thing the repository released.
Latest(a) ==
  LET tags == releases[Repo[a]]
  IN  IF a \in Prefixed THEN PickLatestTag(ToSet(tags), a) ELSE {Last(tags)}

\* Any failure to read a release is an answer without a tag: the entry has failed
\* and the run goes on.
ReadRelease ==
  /\ job.step = "read"
  /\ \/ /\ \E t \in Latest(Entry) :
             job' = [job EXCEPT !.step = "check", !.tag = t.version]
        /\ NoFault
     \/ /\ Fault
        /\ job' = NextEntry([job EXCEPT !.failed = @ \cup {Entry}])
  /\ UNCHANGED <<upstream, origin, edits>>

\* The text of the entry's file: read from the tree once, and then from memory.
Source(a) ==
  IF File[a] \in DOMAIN job.sources THEN job.sources[File[a]]
  ELSE [l \in {l \in Line : FileOf(l) = File[a]} |-> job.tree[l]]

\* writeConst or writeDependency; `sources` and the tree both get the result.
Rewritten(a) == [Source(a) EXCEPT ![<<"pin", a>>] = job.tag]

\* Mutant: a rewrite does not replace the text read before it.
RememberRead(a, text) ==
  [f \in DOMAIN job.sources \cup {File[a]} |-> IF f = File[a] THEN Source(a) ELSE job.sources[f]]

Remember(a, text) ==
  [f \in DOMAIN job.sources \cup {File[a]} |-> IF f = File[a] THEN text ELSE job.sources[f]]

\* Mutant: a bump of a manifest leaves the lockfile.
LockLeft(a, tree) == tree

\* aube install --fix-lockfile: the lockfile says what the manifests on disk say.
Locked(a, tree) ==
  IF a \notin Dependency THEN tree
  ELSE [l \in Line |-> IF l[1] = "lock" THEN tree[<<"pin", l[2]>>] ELSE tree[l]]

Written(a) ==
  LET text == Rewritten(a)
  IN  Locked(a, [l \in Line |-> IF FileOf(l) = File[a] THEN text[l] ELSE job.tree[l]])

\* What a commit changes, as git sees it.
Commit(before, after) ==
  LET changed == {l \in Line : before[l] # after[l]}
  IN  [from |-> [l \in changed |-> before[l]], to |-> [l \in changed |-> after[l]]]

Bump(a) ==
  [job EXCEPT !.sources = Remember(a, Rewritten(a)),
              !.tree = Written(a),
              !.commits = Append(@, Commit(job.tree, Written(a))),
              !.titles = Append(@, [app |-> a, from |-> Source(a)[<<"pin", a>>], to |-> job.tag])]

Current(a) == {Source(a)[<<"pin", a>>]} \ {Missing}

\* imageExists and chartListed. A registry that refuses is a no; one that there is
\* no client for is not asked, and the answer is yes. An error of the network,
\* which nothing catches, is Throws.
Exists(a) == a \notin Asked \/ job.tag \in published[a]

Decision(a, exists) == Decide(Current(a), job.tag, a \in Checked, exists)

Decided(a, exists) ==
  LET decision == Decision(a, exists)
      seen == [job EXCEPT !.sources = Remember(a, Source(a))]
  IN  CASE decision = "update"  -> Bump(a)
        [] decision = "problem" -> [seen EXCEPT !.failed = @ \cup {a}]
        [] OTHER                -> seen

\* A lockfile cannot be written for a package that is not there, and the install
\* that fails is not caught.
Installs(a) == a \in Dependency => job.tag \in published[a]

AfterEntry(a, exists) ==
  IF Decision(a, exists) = "update" /\ ~Installs(a) THEN Idle
  ELSE NextEntry(Decided(a, exists))

CheckAndWrite ==
  /\ job.step = "check"
  /\ \/ job' = AfterEntry(Entry, Exists(Entry)) /\ NoFault
     \/ Entry \in Asked /\ job' = AfterEntry(Entry, FALSE) /\ Fault
     \/ Throws
  /\ UNCHANGED <<upstream, origin, edits>>

\* Lines near one another make git stop as well: an edit of another line of a
\* file the commits change.
Beside ==
  \E l, k \in Line :
    /\ FileOf(l) = FileOf(k)
    /\ main.lines[k] # job.base.lines[k]
    /\ \E i \in DOMAIN job.commits : l \in DOMAIN job.commits[i].to

\* Mutant: the last attempt is not the last.
AttemptAgain(j) == [j EXCEPT !.step = "pull", !.attempt = @ + 1]

\* pushWithRebase: any failure of an attempt starts the next; after the third it throws.
AttemptFails(j) ==
  IF j.attempt = 3 THEN Idle ELSE [j EXCEPT !.step = "pull", !.attempt = @ + 1]

\* What is fetched is what the commits are put on, one by one. A rebase that stops
\* stays in progress, and the next pull refuses to start.
Pull ==
  /\ job.step = "pull"
  /\ \/ /\ ~job.rebasing
        /\ job' = [job EXCEPT !.step = "rebase", !.base = main, !.tree = main.lines,
                              !.todo = job.commits, !.commits = <<>>]
        /\ NoFault
     \/ /\ ~job.rebasing
        /\ Beside
        /\ job' = AttemptFails([job EXCEPT !.rebasing = TRUE])
        /\ NoFault
     \/ /\ job.rebasing
        /\ job' = AttemptFails(job)
        /\ NoFault
     \/ Fault /\ job' = AttemptFails(job)
  /\ UNCHANGED <<upstream, origin, edits>>

Applied(commit) ==
  [l \in Line |-> IF l \in DOMAIN commit.to THEN commit.to[l] ELSE job.tree[l]]

\* A line that is as the commit found it takes the commit's value, one that has it
\* already is left; a commit that changes nothing is dropped.
Fits(commit) ==
  \A l \in DOMAIN commit.to : job.tree[l] \in {commit.from[l], commit.to[l]}

Kept(commit) ==
  IF Applied(commit) = job.tree THEN job.commits
  ELSE Append(job.commits, Commit(job.tree, Applied(commit)))

Replay ==
  /\ job.step = "rebase"
  /\ \/ /\ job.todo = <<>>
        /\ job' = [job EXCEPT !.step = "push"]
     \/ /\ job.todo # <<>>
        /\ LET commit == Head(job.todo)
           IN  job' = IF Fits(commit)
                      THEN [job EXCEPT !.tree = Applied(commit), !.commits = Kept(commit),
                                       !.todo = Tail(@)]
                      ELSE AttemptFails([job EXCEPT !.rebasing = TRUE])
  /\ NoFault
  /\ UNCHANGED <<upstream, origin, edits>>

\* git push is refused when main has moved since the rebase.
Push ==
  /\ job.step = "push"
  /\ \/ /\ main.moved = job.base.moved
        /\ main' = IF job.commits = <<>> THEN main
                   ELSE [lines |-> job.tree, moved |-> main.moved + 1]
        /\ author' = [l \in Line |->
                       IF job.tree[l] # main.lines[l] THEN "updater" ELSE author[l]]
        /\ job' = [job EXCEPT !.step = "record"]
        /\ NoFault
     \/ /\ main.moved # job.base.moved
        /\ job' = AttemptFails(job)
        /\ UNCHANGED origin
        /\ NoFault
     \/ /\ Fault
        /\ job' = AttemptFails(job)
        /\ UNCHANGED origin
  /\ UNCHANGED <<upstream, edits>>

\* The issue is opened or the run fails; a failure to close it is swallowed.
Record ==
  /\ job.step = "record"
  /\ job' = Idle
  /\ NoFault \/ Fault
  /\ UNCHANGED <<upstream, origin, edits>>

Proceed == Sync \/ ReadRelease \/ CheckAndWrite \/ Pull \/ Replay \/ Push \/ Record

Next ==
  \/ \E a \in App, v \in Version : Release(a, v) \/ Publish(a, v)
  \/ \E a \in App, v \in Version \cup {Missing} : Edit(a, v)
  \/ Start
  \/ Proceed

Spec == Init /\ [][Next]_vars

\* A job has a time limit, the schedule comes round, and what was released is
\* published some time.
FairSpec ==
  /\ Spec
  /\ WF_vars(Start)
  /\ WF_vars(Proceed)
  /\ \A a \in App, v \in Version : WF_vars(Publish(a, v))
-----------------------------------------------------------------------------
(* Properties *)

Pin(a) == main.lines[<<"pin", a>>]

TypeOK ==
  /\ releases \in [{Repo[a] : a \in App} -> Seq([component: App, version: Version])]
  /\ published \in [App -> SUBSET Version]
  /\ main \in Main
  /\ author \in [Line -> {"nobody", "person", "updater"}]
  /\ job.step \in Step
  /\ job.entry \in DOMAIN Entries
  /\ job.base \in Main
  /\ job.tree \in Text
  /\ job.attempt \in 1..3
  /\ job.failed \subseteq App
  /\ edits \in 0..MaxEdits
  /\ faults \in 0..MaxFaults

\* What the updater pinned can be pulled or installed, though a release proves no
\* image (imageExists): the registry is asked, for this component's version and not
\* for that of whatever the repository released last (pickLatestTag), and a package
\* has to install. An image nobody can ask about is pinned on its release alone.
PinsResolve ==
  \A a \in Asked \cup Dependency :
    author[<<"pin", a>>] = "updater" => Pin(a) \in published[a]

\* A manifest and the lockfile agree on main after every commit, whatever was
\* merged while the run was under way (every install is --frozen-lockfile).
LockfileAgrees ==
  \A a \in Dependency : main.lines[<<"lock", a>>] = Pin(a)

\* A push does what the run reports: a pin it reports comes from where it says, or
\* was there already, and ends where it says, and no other pin moves. No bump
\* undoes the one before it in the same file. A person's own edit of a reported
\* pin is not overwritten: the run's commit was dropped as already there, and an
\* edit after that stands.
PushedAsReported ==
  [][(job.step = "push" /\ job'.step = "record") =>
       LET reported == {job.titles[i] : i \in DOMAIN job.titles}
       IN  /\ \A t \in reported :
                \/ Pin(t.app) \in {t.from, t.to} /\ Pin(t.app)' = t.to
                \/ author[<<"pin", t.app>>] = "person" /\ Pin(t.app)' = Pin(t.app)
           /\ \A a \in App : Pin(a)' # Pin(a) => \E t \in reported : t.app = a]_vars

\* A pin the updater wrote is moved by it only to a newer version, although the
\* tags come in any order and a registry lags (compareVersions, pickLatestTag).
\* Without a prefix this is up to what GitHub calls latest.
PinsMoveForward ==
  [][\A a \in Prefixed :
       (/\ Pin(a)' # Pin(a)
        /\ author[<<"pin", a>>] = "updater"
        /\ author'[<<"pin", a>>] = "updater") => Before(Pin(a), Pin(a)')]_vars

IsCurrent(a) == \E t \in Latest(a) : Pin(a) = t.version

\* Every program reaches its newest release once people and networks rest, though
\* runs lose races and leave rebases behind, entries fail beside it, and a run
\* that throws drops what it had committed. A pin that was moved away is reported
\* and followed no more.
CurrentInTheEnd == <>[](\A a \in App : Pin(a) = Missing \/ IsCurrent(a))
=============================================================================
