--------------------------- MODULE PipelineProofs ---------------------------
(***************************************************************************)
(* Theorems about Pipeline, for any number of commits, manual runs,        *)
(* attempts and failing jobs.                                              *)
(***************************************************************************)
EXTENDS Pipeline, TLAPS

USE DEF Commit, Run, NoCommit, git, registry

(***************************************************************************)
(* Types, and the groups of deploy and promote.  That one run at a time    *)
(* deploys rests on there never being two that wait.                       *)
(***************************************************************************)
Exclusive(states) ==
  /\ \A r, s \in Run : Active(states[r]) /\ Active(states[s]) => r = s
  /\ \A r, s \in Run : states[r] = "queued" /\ states[s] = "queued" => r = s

\* Every push adds a commit and a run, every manual run a run.
Counted == head <= created /\ created - head <= MaxManual

Typed ==
  /\ TypeOK
  /\ Counted
  /\ \A j \in {"deploy", "promote"} : Exclusive(job[j])

States == [Run -> State]

LEMMA JoinType ==
  ASSUME NEW f \in States, NEW group, NEW x \in Run
  PROVE  /\ Join(f, group, x) \in States
         /\ \A y \in Run : y # x =>
              \/ Join(f, group, x)[y] = f[y]
              \/ f[y] = "queued" /\ Join(f, group, x)[y] = "cancelled"
         /\ Join(f, group, x)[x] \in {"queued", "running"}
  BY DEF Join, States, State, Over

LEMMA LeaveType ==
  ASSUME NEW f \in States, NEW group, NEW x \in Run, NEW result \in Over
  PROVE  /\ Leave(f, group, x, result) \in States
         /\ \A y \in Run : y # x =>
              \/ Leave(f, group, x, result)[y] = f[y]
              \/ f[y] = "queued" /\ Leave(f, group, x, result)[y] = "running"
         /\ Leave(f, group, x, result)[x] = result
  BY DEF Leave, States, State, Over

LEMMA JoinExclusive ==
  ASSUME NEW f \in States, NEW x \in Run, Exclusive(f)
  PROVE  Exclusive(Join(f, Run, x))
  BY DEF Join, States, Exclusive, Active

LEMMA LeaveExclusive ==
  ASSUME NEW f \in States, NEW x \in Run, NEW result \in Over, Exclusive(f),
         Active(f[x])
  PROVE  Exclusive(Leave(f, Run, x, result))
  BY DEF Leave, States, Exclusive, Active, Over

\* What a step of one job changes.
LEMMA EndedType ==
  ASSUME job \in [Job -> States], NEW r \in Run, NEW j \in Job, NEW result \in State,
         Ended(r, j, result)
  PROVE  /\ job' \in [Job -> States]
         /\ job'[j][r] = result
         /\ \A k \in Job : k # j => job'[k] = job[k]
         /\ \A s \in Run : s # r => job'[j][s] = job[j][s]
  BY DEF Ended, States

LEMMA DoneType ==
  ASSUME job \in [Job -> States], NEW r \in Run, NEW j \in Job, NEW result \in Over,
         Done(r, j, result)
  PROVE  /\ job' \in [Job -> States]
         /\ job'[j][r] = result
         /\ job'[j] = Leave(job[j], Run, r, result)
         /\ \A k \in Job : k # j => job'[k] = job[k]
         /\ \A s \in Run : s # r =>
              \/ job'[j][s] = job[j][s]
              \/ job[j][s] = "queued" /\ job'[j][s] = "running"
<1>1. job[j] \in States
  OBVIOUS
<1>2. job' = [job EXCEPT ![j] = Leave(job[j], Run, r, result)]
  BY DEF Done, Others
<1>. QED
  BY <1>1, <1>2, LeaveType

\* The groups after a step of one job.
Jobs == job \in [Job -> States] /\ \A j \in {"deploy", "promote"} : Exclusive(job[j])

LEMMA TypedJobs == Typed => Jobs
  BY DEF Typed, Jobs, TypeOK, States

LEMMA EndedJobs ==
  ASSUME Jobs, NEW r \in Run, NEW j \in Job, NEW result \in State,
         Ended(r, j, result), result # "queued",
         j \in {"deploy", "promote"} /\ Active(result) => Active(job[j][r])
  PROVE  Jobs'
<1>1. /\ job' \in [Job -> States]
      /\ job'[j][r] = result
      /\ \A k \in Job : k # j => job'[k] = job[k]
      /\ \A s \in Run : s # r => job'[j][s] = job[j][s]
  BY EndedType DEF Jobs
<1>2. ASSUME NEW k \in {"deploy", "promote"}
      PROVE  Exclusive(job'[k])
  <2>0. k \in Job /\ Exclusive(job[k])
    BY DEF Jobs, Job
  <2>1. CASE k # j
    BY <1>1, <2>0, <2>1
  <2>2. CASE k = j
    <3>1. \A s \in Run : Active(job'[k][s]) => Active(job[k][s])
      BY <1>1, <2>0, <2>2
    <3>2. \A s \in Run : job'[k][s] = "queued" => job[k][s] = "queued"
      BY <1>1, <2>0, <2>2
    <3>. QED
      BY <2>0, <3>1, <3>2 DEF Exclusive
  <2>. QED
    BY <2>1, <2>2
<1>. QED
  BY <1>1, <1>2 DEF Jobs

LEMMA DoneJobs ==
  ASSUME Jobs, NEW r \in Run, NEW j \in {"deploy", "promote"}, NEW result \in Over,
         Active(job[j][r]), Done(r, j, result)
  PROVE  Jobs'
<1>0. j \in Job /\ job[j] \in States /\ Exclusive(job[j])
  BY DEF Job, Jobs
<1>1. /\ job' \in [Job -> States]
      /\ job'[j] = Leave(job[j], Run, r, result)
      /\ \A k \in Job : k # j => job'[k] = job[k]
  BY <1>0, DoneType DEF Jobs
<1>2. Exclusive(job'[j])
  BY <1>0, <1>1, LeaveExclusive
<1>. QED
  BY <1>1, <1>2 DEF Jobs, Job

LEMMA EnqueuedJobs ==
  ASSUME Jobs, NEW r \in Run, NEW j \in {"deploy", "promote"},
         job' = [job EXCEPT ![j] = Join(@, Others(r), r)]
  PROVE  Jobs'
<1>0. j \in Job /\ job[j] \in States /\ Exclusive(job[j])
  BY DEF Job, Jobs
<1>1. /\ job' \in [Job -> States]
      /\ job'[j] = Join(job[j], Run, r)
      /\ \A k \in Job : k # j => job'[k] = job[k]
  <2>1. job' = [job EXCEPT ![j] = Join(job[j], Run, r)]
    BY DEF Others
  <2>2. Join(job[j], Run, r) \in States
    BY <1>0, JoinType
  <2>. QED
    BY <1>0, <2>1, <2>2 DEF Jobs
<1>2. Exclusive(job'[j])
  BY <1>0, <1>1, JoinExclusive
<1>. QED
  BY <1>1, <1>2 DEF Jobs, Job

LEMMA FailType == faults \in 0..MaxFaults /\ Fail => faults' \in 0..MaxFaults
  BY PipelineAssumption DEF Fail

\* A step of a run's jobs, one that starts or ends none.
LEMMA StepType ==
  ASSUME Typed, Jobs', UNCHANGED <<git, created, run, status>>,
         plan' \in [Run -> Plan], held' \in [Run -> Commit],
         built' \in SUBSET Commit, main' \in Commit,
         tagged' \in [Commit -> Commit \cup {NoCommit}],
         released' \in [Commit -> Commit \cup {NoCommit}],
         live' \in [run : Run, whole : BOOLEAN], faults' \in 0..MaxFaults
  PROVE  Typed'
  BY DEF Typed, TypeOK, Jobs, Counted, States, Exclusive

LEMMA TypeInit == Init => Typed
<1>. SUFFICES ASSUME Init PROVE Typed
  OBVIOUS
<1>0. MaxCommit \in Nat /\ MaxManual \in Nat /\ MaxAttempt \in Nat \ {0} /\ MaxFaults \in Nat
  BY PipelineAssumption
<1>1. TypeOK
  BY <1>0 DEF Init, TypeOK, Entry, Event, Plan, Job, State, Over, Active
<1>2. Counted
  BY <1>0 DEF Init, Counted
<1>3. \A j \in {"deploy", "promote"} : Exclusive(job[j])
  BY DEF Init, Exclusive, Active, Job
<1>. QED
  BY <1>1, <1>2, <1>3 DEF Typed

LEMMA PushType == Typed /\ Push => Typed'
<1>. SUFFICES ASSUME Typed, Push PROVE Typed'
  OBVIOUS
<1>. DEFINE new == head + 1
            r == created + 1
<1>0. /\ MaxCommit \in Nat /\ MaxManual \in Nat /\ MaxAttempt \in Nat \ {0}
      /\ head \in Commit /\ log \in [Commit -> Entry] /\ created \in Run
  BY PipelineAssumption DEF Typed, TypeOK
<1>1. new \in Commit /\ r \in Run
  BY <1>0 DEF Typed, Counted, Push
<1>2. PICK parent \in Commit, stack \in Commit, image \in Commit, version \in Commit :
        log' = [log EXCEPT ![new] =
          [parent |-> parent, past |-> log[parent].past \cup {new},
           stack |-> stack, image |-> image, version |-> version]]
  <2>1. PICK parent \in IF Rewriting THEN log[head].past ELSE {head} :
          \E stack \in Stacks(parent), image \in Images(parent) :
          \E version \in Versions(parent, image) :
            log' = [log EXCEPT ![new] =
              [parent |-> parent, past |-> log[parent].past \cup {new},
               stack |-> stack, image |-> image, version |-> version]]
    BY DEF Push
  <2>2. parent \in Commit
    BY <1>0, <2>1 DEF Entry
  <2>3. Older(parent) \subseteq Commit
    BY <1>0, <2>2 DEF Older, Entry
  <2>4. Stacks(parent) \subseteq Commit /\ Images(parent) \subseteq Commit
    BY <1>0, <1>1, <2>3 DEF Stacks, Images, Entry
  <2>5. ASSUME NEW image \in Images(parent)
        PROVE  Versions(parent, image) \subseteq Commit
    BY <1>0, <1>1, <2>2, <2>4 DEF Versions, Entry
  <2>. QED
    BY <2>1, <2>2, <2>4, <2>5
<1>3. log' \in [Commit -> Entry]
  <2>1. log[parent].past \cup {new} \in SUBSET Commit
    BY <1>0, <1>1, <1>2 DEF Entry
  <2>. QED
    BY <1>0, <1>1, <1>2, <2>1 DEF Entry
<1>4. run' \in [Run -> [event : Event, commit : Commit, attempt : 0..MaxAttempt]]
  BY <1>0, <1>1 DEF Push, Typed, TypeOK, Event
<1>5. status' \in States
  <2>1. status \in States /\ status' = Join(status, PushRuns \cup {r}, r)
    BY DEF Push, Typed, TypeOK, States
  <2>. QED
    BY <1>1, <2>1, JoinType
<1>6. head' = new /\ created' = r /\ Counted'
  BY <1>0 DEF Push, Typed, Counted
<1>. QED
  BY <1>1, <1>3, <1>4, <1>5, <1>6 DEF Push, Typed, TypeOK, States, Exclusive

LEMMA DispatchType == Typed /\ Dispatch => Typed'
<1>. SUFFICES ASSUME Typed, Dispatch PROVE Typed'
  OBVIOUS
<1>0. /\ MaxCommit \in Nat /\ MaxManual \in Nat /\ MaxAttempt \in Nat \ {0}
      /\ head \in Commit /\ created \in Run
  BY PipelineAssumption DEF Typed, TypeOK
<1>1. created + 1 \in Run /\ Counted'
  BY <1>0 DEF Typed, Counted, Dispatch
<1>2. run' \in [Run -> [event : Event, commit : Commit, attempt : 0..MaxAttempt]]
  BY <1>0, <1>1 DEF Dispatch, Typed, TypeOK, Event
<1>3. status' \in [Run -> State]
  BY <1>1 DEF Dispatch, Typed, TypeOK, State
<1>. QED
  BY <1>1, <1>2, <1>3 DEF Dispatch, Typed, TypeOK, Exclusive

LEMMA RerunType ==
  ASSUME NEW r \in Run, NEW every \in BOOLEAN, Typed, Rerun(r, every)
  PROVE  Typed'
<1>0. MaxAttempt \in Nat
  BY PipelineAssumption
<1>1. run' \in [Run -> [event : Event, commit : Commit, attempt : 0..MaxAttempt]]
  <2>1. run[r] \in [event : Event, commit : Commit, attempt : 0..MaxAttempt]
    BY DEF Typed, TypeOK
  <2>2. run[r].attempt + 1 \in 0..MaxAttempt
    BY <1>0, <2>1 DEF Rerun
  <2>3. [run[r] EXCEPT !.attempt = @ + 1]
          \in [event : Event, commit : Commit, attempt : 0..MaxAttempt]
    BY <2>1, <2>2
  <2>. QED
    BY <2>3 DEF Rerun, Typed, TypeOK
<1>2. status' \in States
  BY JoinType DEF Rerun, Typed, TypeOK, States
<1>3. job' \in [Job -> States]
  <2>1. ASSUME NEW j \in Job
        PROVE  [job[j] EXCEPT ![r] = IF every \/ Again(r, j) THEN "waiting" ELSE @] \in States
    <3>1. job[j] \in States
      BY DEF Typed, TypeOK, States
    <3>2. (IF every \/ Again(r, j) THEN "waiting" ELSE job[j][r]) \in State
      BY <3>1 DEF States, State
    <3>. QED
      BY <3>1, <3>2 DEF States
  <2>. QED
    BY <2>1 DEF Rerun
<1>4. ASSUME NEW j \in {"deploy", "promote"}
      PROVE  Exclusive(job'[j])
  <2>0. j \in Job /\ job[j] \in States /\ Exclusive(job[j])
    BY DEF Job, Typed, TypeOK, States
  <2>1. \A s \in Run : job'[j][s] = job[j][s] \/ job'[j][s] = "waiting"
    BY <2>0 DEF Rerun, States
  <2>. QED
    BY <2>0, <2>1 DEF Exclusive, Active
<1>. QED
  BY <1>1, <1>2, <1>3, <1>4 DEF Rerun, Typed, TypeOK, States, Exclusive, Counted

LEMMA ProceedType ==
  ASSUME NEW r \in Run, Typed, Proceed(r)
  PROVE  Typed'
<1>0. /\ Jobs
      /\ plan \in [Run -> Plan] /\ held \in [Run -> Commit]
      /\ built \in SUBSET Commit /\ main \in Commit
      /\ tagged \in [Commit -> Commit \cup {NoCommit}]
      /\ released \in [Commit -> Commit \cup {NoCommit}]
      /\ live \in [run : Run, whole : BOOLEAN] /\ faults \in 0..MaxFaults
      /\ run[r].commit \in Commit
      /\ log[run[r].commit].version \in Commit
  BY TypedJobs DEF Typed, TypeOK, Entry
<1>1. ASSUME NEW j \in Job, Skip(r, j)
      PROVE  Typed'
  <2>1. Jobs'
    BY <1>0, <1>1, EndedJobs DEF Skip, Active, State, Over
  <2>. QED
    BY <1>0, <1>1, <2>1, StepType DEF Skip
<1>2. CASE Changes(r)
  <2>1. PICK result \in {"success", "failure"} : Ended(r, "changes", result)
    BY <1>2 DEF Changes
  <2>2. Jobs'
    BY <1>0, <2>1, EndedJobs DEF Job, State, Over
  <2>3. plan' \in [Run -> Plan]
    <3>1. \A base : Asked(r, base) \in Plan
      BY DEF Asked, Plan
    <3>. QED
      BY <1>0, <1>2, <3>1 DEF Changes
  <2>4. faults' \in 0..MaxFaults
    BY <1>0, <1>2, FailType DEF Changes
  <2>. QED
    BY <1>0, <1>2, <2>2, <2>3, <2>4, StepType DEF Changes
<1>3. CASE Image(r)
  <2>1. PICK result \in {"success", "failure"} : Ended(r, "image", result)
    BY <1>3 DEF Image
  <2>2. Jobs'
    BY <1>0, <2>1, EndedJobs DEF Job, State, Over
  <2>3. built' \in SUBSET Commit /\ faults' \in 0..MaxFaults
    BY <1>0, <1>3, FailType DEF Image
  <2>. QED
    BY <1>0, <1>3, <2>2, <2>3, StepType DEF Image
<1>4. CASE Checks(r)
  <2>1. PICK result \in {"success", "failure"} : Ended(r, "checks", result)
    BY <1>4 DEF Checks
  <2>2. Jobs'
    BY <1>0, <2>1, EndedJobs DEF Job, State, Over
  <2>3. faults' \in 0..MaxFaults
    BY <1>0, <1>4, FailType DEF Checks
  <2>. QED
    BY <1>0, <1>4, <2>2, <2>3, StepType DEF Checks
<1>5. ASSUME NEW j \in {"deploy", "promote"}, Enqueue(r, j)
      PROVE  Typed'
  <2>1. Jobs'
    BY <1>0, <1>5, EnqueuedJobs DEF Enqueue
  <2>. QED
    BY <1>0, <1>5, <2>1, StepType DEF Enqueue
<1>6. CASE DeployCheck(r)
  <2>1. CASE Current(r)
    BY <1>0, <1>6, <2>1, EndedJobs, StepType DEF DeployCheck, Job, State, Active
  <2>2. CASE ~Current(r)
    BY <1>0, <1>6, <2>2, DoneJobs, StepType DEF DeployCheck, Over, Active
  <2>. QED
    BY <2>1, <2>2
<1>7. CASE DeployUp(r)
  <2>1. PICK result \in {"success", "failure"} : Done(r, "deploy", result)
    BY <1>7 DEF DeployUp
  <2>2. Jobs'
    BY <1>0, <1>7, <2>1, DoneJobs DEF DeployUp, Over, Active
  <2>3. live' \in [run : Run, whole : BOOLEAN]
    <3>1. \/ live' = live
          \/ \E whole \in BOOLEAN : live' = [run |-> r, whole |-> whole]
      BY <1>7 DEF DeployUp
    <3>. QED
      BY <1>0, <3>1
  <2>4. faults' \in 0..MaxFaults
    BY <1>0, <1>7, FailType DEF DeployUp
  <2>. QED
    BY <1>0, <1>7, <2>2, <2>3, <2>4, StepType DEF DeployUp
<1>8. CASE PromoteRead(r)
  <2>1. Jobs'
    BY <1>0, <1>8, EndedJobs DEF PromoteRead, Job, State, Active
  <2>2. held' \in [Run -> Commit]
    BY <1>0, <1>8 DEF PromoteRead
  <2>. QED
    BY <1>0, <1>8, <2>1, <2>2, StepType DEF PromoteRead
<1>9. CASE PromoteTag(r)
  <2>1. Jobs'
    BY <1>0, <1>9, DoneJobs DEF PromoteTag, Over, Active
  <2>2. main' \in Commit /\ tagged' \in [Commit -> Commit \cup {NoCommit}]
    BY <1>0, <1>9 DEF PromoteTag
  <2>. QED
    BY <1>0, <1>9, <2>1, <2>2, StepType DEF PromoteTag
<1>10. CASE PromoteFails(r)
  <2>1. Jobs' /\ faults' \in 0..MaxFaults
    BY <1>0, <1>10, DoneJobs, FailType DEF PromoteFails, Over
  <2>. QED
    BY <1>0, <1>10, <2>1, StepType DEF PromoteFails
<1>11. CASE ReleaseView(r)
  <2>1. Jobs'
    BY <1>0, <1>11, EndedJobs DEF ReleaseView, Job, State, Over
  <2>. QED
    BY <1>0, <1>11, <2>1, StepType DEF ReleaseView
<1>12. CASE ReleaseCreate(r)
  <2>1. PICK result \in {"success", "failure"} : Ended(r, "release", result)
    BY <1>12 DEF ReleaseCreate
  <2>2. Jobs'
    BY <1>0, <2>1, EndedJobs DEF Job, State, Over
  <2>3. released' \in [Commit -> Commit \cup {NoCommit}] /\ faults' \in 0..MaxFaults
    BY <1>0, <1>12, FailType DEF ReleaseCreate
  <2>. QED
    BY <1>0, <1>12, <2>2, <2>3, StepType DEF ReleaseCreate
<1>13. CASE Finish(r)
  <2>1. PICK result \in {"success", "failure"} : status' = Leave(status, Group(r), r, result)
    BY <1>13 DEF Finish
  <2>2. status' \in States
    BY <2>1, LeaveType DEF Over, Typed, TypeOK, States
  <2>. QED
    BY <1>13, <2>2 DEF Finish, Typed, TypeOK, States, Exclusive, Counted
<1>. QED
  BY <1>1, <1>2, <1>3, <1>4, <1>5, <1>6, <1>7, <1>8, <1>9, <1>10, <1>11, <1>12,
     <1>13 DEF Proceed

LEMMA TypeStep == Typed /\ [Next]_vars => Typed'
<1>. SUFFICES ASSUME Typed, [Next]_vars PROVE Typed'
  OBVIOUS
<1>1. CASE Next
  BY <1>1, PushType, DispatchType, ProceedType, RerunType DEF Next
<1>2. CASE UNCHANGED vars
  BY <1>2 DEF vars, Typed, TypeOK, Exclusive, Counted
<1>. QED
  BY <1>1, <1>2

LEMMA TypedAlways == Spec => []Typed
  BY TypeInit, TypeStep, PTL DEF Spec

\* Every variable of the pipeline keeps its type, and one run at a time deploys,
\* or promotes, whatever pushes, manual runs and re-runs there are.
THEOREM TypeCorrect == Spec => []TypeOK
<1>1. Typed => TypeOK
  BY DEF Typed
<1>. QED
  BY <1>1, TypedAlways, PTL

(***************************************************************************)
(* Releases.  A release is cut only after its run has promoted, a run      *)
(* promotes only what it built, and both survive a re-run: the commit of a *)
(* run never changes, nor does what a commit holds.                        *)
(***************************************************************************)
Version(r) == log[run[r].commit].version

\* What job j of run r being in a state says of the rest.
Follows(r, j, state) ==
  /\ state # "waiting" => r <= created
  /\ j = "image" /\ state = "success" => run[r].commit \in built
  /\ j = "promote" /\ state \in {"queued", "running", "acting"} => run[r].commit \in built
  /\ j = "promote" /\ state = "success" /\ plan[r].release => tagged[Version(r)] # NoCommit
  /\ j = "release" /\ state = "acting" => tagged[Version(r)] # NoCommit

Followed ==
  /\ \A r \in Run : /\ run[r].commit <= head
                    /\ status[r] # "waiting" => r <= created
                    /\ job["promote"][r] # "waiting" => job["changes"][r] # "waiting"
  /\ \A j \in Job, r \in Run : Follows(r, j, job[j][r])

\* What a version's tag and its release name.
Tags ==
  \A v \in Commit :
    /\ tagged[v] # NoCommit =>
         tagged[v] \in built /\ tagged[v] <= head /\ log[tagged[v]].version = v
    /\ released[v] # NoCommit =>
         tagged[v] # NoCommit /\ released[v] <= head /\ log[released[v]].version = v

Traced == Typed /\ Followed /\ Tags

\* A step of one job of run r keeps what the others say.
LEMMA JobStep ==
  ASSUME Typed, Followed, NEW r \in Run, NEW j \in Job, job' \in [Job -> States],
         UNCHANGED <<git, created, run, status>>,
         built \subseteq built',
         \A v \in Commit : tagged[v] # NoCommit => tagged'[v] # NoCommit,
         \A s \in Run : plan'[s] = plan[s] \/ (s = r /\ job["changes"][s] = "waiting"),
         \A k \in Job : k # j => job'[k] = job[k],
         \A s \in Run : s # r =>
           \/ job'[j][s] = job[j][s]
           \/ job[j][s] = "queued" /\ job'[j][s] \in {"running", "cancelled"},
         job'[j][r] # "waiting",
         j = "promote" => job["changes"][r] # "waiting",
         Follows(r, j, job[j][r])'
  PROVE  Followed'
<1>0. /\ "promote" \in Job /\ "changes" \in Job
      /\ \A s \in Run : Version(s) \in Commit
  BY DEF Job, Version, Typed, TypeOK, Entry
<1>1. ASSUME NEW s \in Run
      PROVE  /\ (run[s].commit <= head)'
             /\ (status[s] # "waiting" => s <= created)'
             /\ (job["promote"][s] # "waiting" => job["changes"][s] # "waiting")'
  BY <1>0 DEF Followed
<1>2. ASSUME NEW k \in Job, NEW s \in Run
      PROVE  Follows(s, k, job[k][s])'
  <2>0. Follows(s, k, job[k][s]) /\ (k = "promote" => Follows(s, "promote", job["promote"][s]))
    BY <1>0 DEF Followed
  <2>1. CASE k = j /\ s = r
    BY <2>1
  <2>2. CASE k # j \/ s # r
    <3>1. \/ job'[k][s] = job[k][s]
          \/ job[k][s] = "queued" /\ job'[k][s] \in {"running", "cancelled"}
      BY <2>2
    <3>2. plan'[s] = plan[s] \/ job["promote"][s] = "waiting"
      BY DEF Followed
    <3>. QED
      BY <1>0, <2>0, <3>1, <3>2 DEF Follows, Version
  <2>. QED
    BY <2>1, <2>2
<1>. QED
  BY <1>1, <1>2 DEF Followed

\* Steps of a run's jobs, by how they end.
LEMMA EndedStep ==
  ASSUME Typed, Followed, NEW r \in Run, NEW j \in Job, NEW result \in State,
         Ended(r, j, result), result # "waiting",
         UNCHANGED <<git, created, run, status>>,
         built \subseteq built', tagged' = tagged,
         plan' = plan \/ (j = "changes" /\ job["changes"][r] = "waiting"
                          /\ \A s \in Run : s # r => plan'[s] = plan[s]),
         j = "promote" => job["changes"][r] # "waiting",
         Follows(r, j, result)'
  PROVE  Followed'
<1>1. /\ job' \in [Job -> States]
      /\ job'[j][r] = result
      /\ \A k \in Job : k # j => job'[k] = job[k]
      /\ \A s \in Run : s # r => job'[j][s] = job[j][s]
  BY EndedType DEF Typed, TypeOK, States
<1>2. Follows(r, j, job[j][r])'
  BY <1>1
<1>. QED
  BY <1>1, <1>2, JobStep

LEMMA DoneStep ==
  ASSUME Typed, Followed, NEW r \in Run, NEW j \in {"deploy", "promote"},
         NEW result \in Over, Done(r, j, result), Active(job[j][r]),
         UNCHANGED <<git, created, run, status, plan, built>>,
         \A v \in Commit : tagged[v] # NoCommit => tagged'[v] # NoCommit,
         j = "promote" /\ result = "success" /\ plan[r].release
           => tagged'[Version(r)] # NoCommit
  PROVE  Followed'
<1>0. j \in Job
  BY DEF Job
<1>1. /\ job' \in [Job -> States]
      /\ job'[j][r] = result
      /\ \A k \in Job : k # j => job'[k] = job[k]
      /\ \A s \in Run : s # r =>
           \/ job'[j][s] = job[j][s]
           \/ job[j][s] = "queued" /\ job'[j][s] = "running"
  BY <1>0, DoneType DEF Typed, TypeOK, States
<1>2. job[j][r] # "waiting" /\ result # "waiting" /\ result \notin {"queued", "running", "acting"}
  BY DEF Active, Over
<1>3. r <= created /\ (j = "promote" => job["changes"][r] # "waiting")
  BY <1>0, <1>2 DEF Followed, Follows
<1>4. Follows(r, j, job[j][r])'
  BY <1>0, <1>1, <1>2, <1>3 DEF Follows, Version
<1>. QED
  BY <1>0, <1>1, <1>2, <1>3, <1>4, JobStep

LEMMA DueFacts ==
  ASSUME Typed, Followed, NEW r \in Run, NEW j \in Job, Due(r, j)
  PROVE  /\ r <= created
         /\ j # "changes" => job["changes"][r] \in Over
         /\ job["changes"][r] = "waiting" => j = "changes"
<1>1. r <= created
  BY DEF Due, Followed
<1>2. j # "changes" => "changes" \in Upstream[j]
  BY DEF Upstream, Job
<1>. QED
  BY <1>1, <1>2 DEF Due, Over

LEMMA ProceedFollows ==
  ASSUME NEW r \in Run, Traced, Proceed(r)
  PROVE  Followed'
<1>0. Typed /\ Followed
  BY DEF Traced
<1>1. ASSUME NEW j \in Job, Skip(r, j)
      PROVE  Followed'
  <2>1. r <= created /\ (j = "promote" => job["changes"][r] # "waiting")
    BY <1>0, <1>1, DueFacts DEF Skip, Over
  <2>2. Follows(r, j, "skipped")'
    BY <1>1, <2>1 DEF Skip, Follows
  <2>. QED
    BY <1>0, <1>1, <2>1, <2>2, EndedStep DEF Skip, State, Over
<1>2. CASE Changes(r)
  <2>1. PICK result \in {"success", "failure"} : Ended(r, "changes", result)
    BY <1>2 DEF Changes
  <2>2. "changes" \in Job /\ r <= created
    BY <1>0, <1>2, DueFacts DEF Changes, Job
  <2>3. Follows(r, "changes", result)'
    BY <1>2, <2>2 DEF Changes, Follows
  <2>4. job["changes"][r] = "waiting" /\ \A s \in Run : s # r => plan'[s] = plan[s]
    BY <1>0, <1>2 DEF Changes, Due, Typed, TypeOK
  <2>. QED
    BY <1>0, <1>2, <2>1, <2>2, <2>3, <2>4, EndedStep DEF Changes, State, Over
<1>3. CASE Image(r)
  <2>1. PICK result \in {"success", "failure"} :
          Ended(r, "image", result) /\ (result = "success" => run[r].commit \in built')
    BY <1>3 DEF Image
  <2>2. "image" \in Job /\ r <= created
    BY <1>0, <1>3, DueFacts DEF Image, Job
  <2>3. Follows(r, "image", result)'
    BY <1>3, <2>1, <2>2 DEF Image, Follows
  <2>. QED
    BY <1>0, <1>3, <2>1, <2>2, <2>3, EndedStep DEF Image, State, Over
<1>4. CASE Checks(r)
  <2>1. PICK result \in {"success", "failure"} : Ended(r, "checks", result)
    BY <1>4 DEF Checks
  <2>2. "checks" \in Job /\ r <= created
    BY <1>0, <1>4, DueFacts DEF Checks, Job
  <2>3. Follows(r, "checks", result)'
    BY <1>4, <2>2 DEF Checks, Follows
  <2>. QED
    BY <1>0, <1>4, <2>1, <2>2, <2>3, EndedStep DEF Checks, State, Over
<1>5. ASSUME NEW j \in {"deploy", "promote"}, Enqueue(r, j)
      PROVE  Followed'
  <2>0. j \in Job /\ "image" \in Job /\ job[j] \in States /\ job \in [Job -> States]
    BY <1>0 DEF Job, Typed, TypeOK, States
  <2>1. r <= created /\ (j = "promote" => job["changes"][r] # "waiting")
    BY <1>0, <1>5, <2>0, DueFacts DEF Enqueue, Over
  <2>2. j = "promote" => run[r].commit \in built
    BY <1>0, <1>5, <2>0 DEF Enqueue, Wanted, Followed, Follows
  <2>3. job' = [job EXCEPT ![j] = Join(job[j], Run, r)]
    BY <1>5 DEF Enqueue, Others
  <2>4. /\ job' \in [Job -> States]
        /\ job'[j][r] \in {"queued", "running"}
        /\ \A k \in Job : k # j => job'[k] = job[k]
        /\ \A s \in Run : s # r =>
             \/ job'[j][s] = job[j][s]
             \/ job[j][s] = "queued" /\ job'[j][s] = "cancelled"
    BY <2>0, <2>3, JoinType
  <2>5. Follows(r, j, job[j][r])'
    BY <1>5, <2>1, <2>2, <2>4 DEF Enqueue, Follows
  <2>. QED
    BY <1>0, <1>5, <2>0, <2>1, <2>4, <2>5, JobStep DEF Enqueue
<1>6. CASE DeployCheck(r)
  <2>1. CASE Current(r)
    <3>1. "deploy" \in Job /\ r <= created
      BY <1>0, <1>6 DEF DeployCheck, Job, Followed, Follows
    <3>2. Follows(r, "deploy", "acting")'
      BY <1>6, <3>1 DEF DeployCheck, Follows
    <3>. QED
      BY <1>0, <1>6, <2>1, <3>1, <3>2, EndedStep DEF DeployCheck, State
  <2>2. CASE ~Current(r)
    BY <1>0, <1>6, <2>2, DoneStep DEF DeployCheck, Over, Active
  <2>. QED
    BY <2>1, <2>2
<1>7. CASE DeployUp(r)
  <2>1. PICK result \in {"success", "failure"} : Done(r, "deploy", result)
    BY <1>7 DEF DeployUp
  <2>. QED
    BY <1>0, <1>7, <2>1, DoneStep DEF DeployUp, Over, Active
<1>8. CASE PromoteRead(r)
  <2>1. /\ "promote" \in Job /\ r <= created /\ run[r].commit \in built
        /\ job["changes"][r] # "waiting"
    BY <1>0, <1>8 DEF PromoteRead, Job, Followed, Follows
  <2>2. Follows(r, "promote", "acting")'
    BY <1>8, <2>1 DEF PromoteRead, Follows
  <2>. QED
    BY <1>0, <1>8, <2>1, <2>2, EndedStep DEF PromoteRead, State
<1>9. CASE PromoteTag(r)
  <2>1. /\ run[r].commit \in Commit /\ Version(r) \in Commit
        /\ tagged \in [Commit -> Commit \cup {NoCommit}] /\ MaxCommit \in Nat
    BY <1>0, PipelineAssumption DEF Typed, TypeOK, Entry, Version
  <2>2. /\ \A v \in Commit : tagged[v] # NoCommit => tagged'[v] # NoCommit
        /\ plan[r].release => tagged'[Version(r)] # NoCommit
    BY <1>9, <2>1 DEF PromoteTag, Version
  <2>. QED
    BY <1>0, <1>9, <2>2, DoneStep DEF PromoteTag, Over, Active
<1>10. CASE PromoteFails(r)
  BY <1>0, <1>10, DoneStep DEF PromoteFails, Over
<1>11. CASE ReleaseView(r)
  <2>1. PICK result \in {"acting", "success"} : Ended(r, "release", result)
    BY <1>11 DEF ReleaseView
  <2>2. "release" \in Job /\ "promote" \in Job /\ r <= created
    BY <1>0, <1>11, DueFacts DEF ReleaseView, Job
  <2>3. tagged[Version(r)] # NoCommit
    BY <1>0, <1>11, <2>2 DEF ReleaseView, Wanted, Promoted, Followed, Follows
  <2>4. Follows(r, "release", result)'
    BY <1>11, <2>2, <2>3 DEF ReleaseView, Follows, Version
  <2>. QED
    BY <1>0, <1>11, <2>1, <2>2, <2>4, EndedStep DEF ReleaseView, State, Over
<1>12. CASE ReleaseCreate(r)
  <2>1. PICK result \in {"success", "failure"} : Ended(r, "release", result)
    BY <1>12 DEF ReleaseCreate
  <2>2. "release" \in Job /\ r <= created
    BY <1>0, <1>12 DEF ReleaseCreate, Job, Followed, Follows
  <2>3. Follows(r, "release", result)'
    BY <1>12, <2>2 DEF ReleaseCreate, Follows
  <2>. QED
    BY <1>0, <1>12, <2>1, <2>2, <2>3, EndedStep DEF ReleaseCreate, State, Over
<1>13. CASE Finish(r)
  <2>1. PICK result \in Over : status' = Leave(status, Group(r), r, result)
    BY <1>13 DEF Finish, Over
  <2>2. \A s \in Run : status'[s] # "waiting" => status[s] # "waiting"
    <3>1. status \in States /\ status[r] = "running"
      BY <1>0, <1>13 DEF Finish, Typed, TypeOK, States
    <3>2. \A s \in Run : s # r => status'[s] = status[s] \/ status[s] = "queued"
      BY <2>1, <3>1, LeaveType
    <3>. QED
      BY <3>1, <3>2
  <2>. QED
    BY <1>0, <1>13, <2>2 DEF Finish, Followed, Follows, Version
<1>. QED
  BY <1>1, <1>2, <1>3, <1>4, <1>5, <1>6, <1>7, <1>8, <1>9, <1>10, <1>11, <1>12,
     <1>13 DEF Proceed

LEMMA PushFollows == Traced /\ Push => Followed'
<1>. SUFFICES ASSUME Traced, Push PROVE Followed'
  OBVIOUS
<1>. DEFINE r == created + 1
<1>0. /\ MaxCommit \in Nat /\ MaxManual \in Nat
      /\ head \in Commit /\ created \in Run /\ log \in [Commit -> Entry]
      /\ status \in States /\ job \in [Job -> States]
      /\ run \in [Run -> [event : Event, commit : Commit, attempt : 0..MaxAttempt]]
  BY PipelineAssumption DEF Traced, Typed, TypeOK, States
<1>1. r \in Run /\ r > created /\ head + 1 \in Commit
  BY <1>0 DEF Traced, Typed, Counted, Push
<1>2. \A s \in Run : s # r => status'[s] = status[s] \/ status[s] = "queued"
  <2>1. status' = Join(status, PushRuns \cup {r}, r)
    BY DEF Push
  <2>. QED
    BY <1>0, <1>1, <2>1, JoinType
<1>3. /\ created' = r /\ head' = head + 1 /\ job' = job
      /\ run'[r].commit = head + 1 /\ \A s \in Run : s # r => run'[s] = run[s]
  BY <1>0, <1>1 DEF Push
<1>4. ASSUME NEW s \in Run
      PROVE  /\ run'[s].commit <= head'
             /\ status'[s] # "waiting" => s <= created'
             /\ job'["promote"][s] # "waiting" => job'["changes"][s] # "waiting"
  <2>0. /\ run[s].commit <= head /\ run[s].commit \in Commit
        /\ status[s] # "waiting" => s <= created
        /\ job["promote"][s] # "waiting" => job["changes"][s] # "waiting"
    BY <1>0 DEF Traced, Followed
  <2>1. run'[s].commit <= head'
    <3>1. CASE s = r
      BY <1>0, <1>3, <3>1
    <3>2. CASE s # r
      BY <1>0, <1>3, <2>0, <3>2
    <3>. QED
      BY <3>1, <3>2
  <2>2. status'[s] # "waiting" => s <= created'
    <3>1. CASE s = r
      BY <1>0, <1>3, <3>1
    <3>2. CASE s # r
      <4>1. status'[s] # "waiting" => s <= created
        BY <1>2, <2>0, <3>2
      <4>. QED
        BY <1>0, <1>3, <4>1
    <3>. QED
      BY <3>1, <3>2
  <2>3. job'["promote"][s] # "waiting" => job'["changes"][s] # "waiting"
    BY <1>3, <2>0
  <2>. QED
    BY <2>1, <2>2, <2>3
<1>5. ASSUME NEW j \in Job, NEW s \in Run
      PROVE  Follows(s, j, job[j][s])'
  <2>0. Follows(s, j, job[j][s])
    BY DEF Traced, Followed
  <2>1. CASE s = r
    <3>1. job[j][s] = "waiting"
      BY <1>0, <1>1, <2>0, <2>1 DEF Follows
    <3>. QED
      BY <1>3, <3>1 DEF Follows
  <2>2. CASE s # r
    <3>1. run'[s] = run[s] /\ log'[run[s].commit] = log[run[s].commit]
      <4>1. run[s].commit \in Commit /\ run[s].commit # head + 1
        BY <1>0, <2>2 DEF Traced, Followed
      <4>2. \A c \in Commit : c # head + 1 => log'[c] = log[c]
        BY <1>0 DEF Push
      <4>. QED
        BY <1>3, <2>2, <4>1, <4>2
    <3>2. UNCHANGED <<plan, built, tagged>>
      BY DEF Push
    <3>. QED
      BY <1>0, <1>1, <1>3, <2>0, <3>1, <3>2 DEF Follows, Version
  <2>. QED
    BY <2>1, <2>2
<1>. QED
  BY <1>4, <1>5 DEF Followed

LEMMA DispatchFollows == Traced /\ Dispatch => Followed'
<1>. SUFFICES ASSUME Traced, Dispatch PROVE Followed'
  OBVIOUS
<1>. DEFINE r == created + 1
<1>0. /\ MaxCommit \in Nat /\ MaxManual \in Nat
      /\ head \in Commit /\ created \in Run
      /\ status \in States /\ job \in [Job -> States]
      /\ run \in [Run -> [event : Event, commit : Commit, attempt : 0..MaxAttempt]]
  BY PipelineAssumption DEF Traced, Typed, TypeOK, States
<1>1. r \in Run /\ r > created
  BY <1>0 DEF Traced, Typed, Counted, Dispatch
<1>2. /\ created' = r /\ UNCHANGED <<git, plan, job, registry>>
      /\ run'[r].commit = head /\ \A s \in Run : s # r => run'[s] = run[s]
      /\ \A s \in Run : s # r => status'[s] = status[s]
  BY <1>0, <1>1 DEF Dispatch, States
<1>3. ASSUME NEW s \in Run
      PROVE  /\ run'[s].commit <= head'
             /\ status'[s] # "waiting" => s <= created'
             /\ job'["promote"][s] # "waiting" => job'["changes"][s] # "waiting"
  <2>0. /\ run[s].commit <= head
        /\ status[s] # "waiting" => s <= created
        /\ job["promote"][s] # "waiting" => job["changes"][s] # "waiting"
    BY DEF Traced, Followed
  <2>1. CASE s = r
    BY <1>0, <1>1, <1>2, <2>0, <2>1
  <2>2. CASE s # r
    BY <1>0, <1>1, <1>2, <2>0, <2>2
  <2>. QED
    BY <2>1, <2>2
<1>4. ASSUME NEW j \in Job, NEW s \in Run
      PROVE  Follows(s, j, job[j][s])'
  <2>0. Follows(s, j, job[j][s])
    BY DEF Traced, Followed
  <2>1. CASE s = r
    <3>1. job[j][s] = "waiting"
      BY <1>0, <1>1, <2>0, <2>1 DEF Follows
    <3>. QED
      BY <1>2, <3>1 DEF Follows
  <2>2. CASE s # r
    <3>1. run'[s] = run[s] /\ (s <= created => s <= created')
      BY <1>0, <1>2, <2>2
    <3>. QED
      BY <1>2, <2>0, <3>1 DEF Follows, Version
  <2>. QED
    BY <2>1, <2>2
<1>. QED
  BY <1>3, <1>4 DEF Followed

\* A re-run that looks at the changes again promotes again.
LEMMA RerunFollows ==
  ASSUME NEW r \in Run, NEW every \in BOOLEAN, Traced, Rerun(r, every)
  PROVE  Followed'
<1>0. /\ status \in States /\ job \in [Job -> States]
      /\ run \in [Run -> [event : Event, commit : Commit, attempt : 0..MaxAttempt]]
      /\ "promote" \in Job /\ "changes" \in Job
  BY DEF Traced, Typed, TypeOK, States, Job
<1>1. \A s \in Run : run'[s].commit = run[s].commit
  BY <1>0 DEF Rerun
<1>2. \A s \in Run : status'[s] # "waiting" => s <= created
  <2>1. status[r] # "waiting" /\ status' = Join(status, Group(r), r)
    BY DEF Rerun, Over
  <2>2. \A s \in Run : s # r => status'[s] = status[s] \/ status[s] = "queued"
    BY <1>0, <2>1, JoinType
  <2>. QED
    BY <2>1, <2>2 DEF Traced, Followed
<1>3. ASSUME NEW j \in Job
      PROVE  /\ \A s \in Run : s # r => job'[j][s] = job[j][s]
             /\ every \/ Again(r, j) => job'[j][r] = "waiting"
             /\ ~(every \/ Again(r, j)) => job'[j][r] = job[j][r]
  <2>1. job'[j] =
          [job[j] EXCEPT ![r] = IF every \/ Again(r, j) THEN "waiting" ELSE job[j][r]]
    BY DEF Rerun
  <2>2. job[j] \in States
    BY <1>0
  <2>. QED
    BY <2>1, <2>2 DEF States
<1>4. \A j \in Job, s \in Run : job'[j][s] = job[j][s] \/ job'[j][s] = "waiting"
  BY <1>3
<1>5. ASSUME NEW s \in Run
      PROVE  job'["promote"][s] # "waiting" => job'["changes"][s] # "waiting"
  <2>0. job["promote"][s] # "waiting" => job["changes"][s] # "waiting"
    BY DEF Traced, Followed
  <2>1. CASE s # r
    BY <1>0, <1>3, <2>0, <2>1
  <2>2. CASE s = r
    <3>1. "changes" \in Upstream["promote"] /\ Upstream["changes"] = {}
      BY DEF Upstream, Job
    <3>2. Again(r, "changes") => Again(r, "promote")
      BY <3>1 DEF Again
    <3>3. CASE every \/ Again(r, "promote")
      BY <1>0, <1>3, <2>2, <3>3
    <3>4. CASE ~(every \/ Again(r, "promote"))
      <4>1. /\ job'["promote"][r] = job["promote"][r]
            /\ job'["changes"][r] = job["changes"][r]
        BY <1>0, <1>3, <3>2, <3>4
      <4>. QED
        BY <2>0, <2>2, <4>1
    <3>. QED
      BY <3>3, <3>4
  <2>. QED
    BY <2>1, <2>2
<1>6. ASSUME NEW j \in Job, NEW s \in Run
      PROVE  Follows(s, j, job[j][s])'
  <2>1. Follows(s, j, job[j][s])
    BY DEF Traced, Followed
  <2>2. UNCHANGED <<created, git, plan, registry>>
    BY DEF Rerun
  <2>. QED
    BY <1>1, <1>4, <2>1, <2>2 DEF Follows, Version
<1>. QED
  BY <1>1, <1>2, <1>5, <1>6 DEF Followed, Rerun, Traced

\* What all but the actions named leave alone.
LEMMA Untouched ==
  ASSUME NEW r \in Run, Proceed(r)
  PROVE  /\ UNCHANGED <<git, created, run>>
         /\ built \subseteq built'
         /\ UNCHANGED tagged \/ PromoteTag(r)
         /\ UNCHANGED released \/ ReleaseCreate(r)
         /\ UNCHANGED main \/ PromoteTag(r)
         /\ UNCHANGED held \/ PromoteRead(r)
<1>1. ASSUME NEW j \in Job, Skip(r, j) \/ Enqueue(r, j)
      PROVE  UNCHANGED <<git, created, run, held, registry, released>>
  BY <1>1 DEF Skip, Enqueue
<1>2. CASE Changes(r) \/ Image(r) \/ Checks(r)
  BY <1>2 DEF Changes, Image, Checks
<1>3. CASE DeployCheck(r) \/ DeployUp(r) \/ PromoteRead(r)
  BY <1>3 DEF DeployCheck, DeployUp, PromoteRead
<1>4. CASE PromoteTag(r) \/ PromoteFails(r)
  BY <1>4 DEF PromoteTag, PromoteFails
<1>5. CASE ReleaseView(r) \/ ReleaseCreate(r) \/ Finish(r)
  BY <1>5 DEF ReleaseView, ReleaseCreate, Finish
<1>. QED
  BY <1>1, <1>2, <1>3, <1>4, <1>5 DEF Proceed, Job

LEMMA TagsStep == Traced /\ [Next]_vars => Tags'
<1>. SUFFICES ASSUME Traced, [Next]_vars PROVE Tags'
  OBVIOUS
<1>0. /\ MaxCommit \in Nat /\ head \in Commit /\ log \in [Commit -> Entry]
      /\ tagged \in [Commit -> Commit \cup {NoCommit}]
      /\ released \in [Commit -> Commit \cup {NoCommit}]
      /\ "promote" \in Job /\ "release" \in Job
      /\ \A r \in Run : run[r].commit \in Commit /\ Version(r) \in Commit
                        /\ run[r].commit <= head
  BY PipelineAssumption DEF Traced, Followed, Typed, TypeOK, Job, Entry, Version
<1>1. CASE UNCHANGED <<git, tagged, released>> /\ built \subseteq built'
  BY <1>0, <1>1 DEF Traced, Tags
<1>2. CASE Push
  <2>1. \A c \in Commit : c <= head => log'[c] = log[c]
    BY <1>0, <1>2 DEF Push
  <2>2. head' = head + 1 /\ UNCHANGED <<built, tagged, released>>
    BY <1>0, <1>2 DEF Push
  <2>3. ASSUME NEW v \in Commit, NEW c \in Commit \cup {NoCommit}, c # NoCommit,
               c <= head, log[c].version = v
        PROVE  c <= head' /\ log'[c].version = v
    BY <1>0, <2>1, <2>2, <2>3
  <2>. QED
    BY <1>0, <2>2, <2>3 DEF Traced, Tags
<1>3. ASSUME NEW r \in Run, PromoteTag(r)
      PROVE  Tags'
  <2>1. run[r].commit \in built
    BY <1>0, <1>3 DEF PromoteTag, Traced, Followed, Follows
  <2>2. \A v \in Commit :
          tagged'[v] = tagged[v] \/ (v = Version(r) /\ tagged'[v] = run[r].commit)
    BY <1>0, <1>3 DEF PromoteTag, Version
  <2>3. UNCHANGED <<git, built, released>>
    BY <1>3 DEF PromoteTag
  <2>4. log[run[r].commit].version = Version(r) /\ run[r].commit # NoCommit
    BY <1>0 DEF Version
  <2>5. ASSUME NEW v \in Commit
        PROVE  /\ tagged'[v] # NoCommit =>
                    tagged'[v] \in built /\ tagged'[v] <= head /\ log[tagged'[v]].version = v
               /\ tagged[v] # NoCommit => tagged'[v] # NoCommit
    BY <1>0, <2>1, <2>2, <2>4 DEF Traced, Tags
  <2>. QED
    BY <2>3, <2>5 DEF Traced, Tags
<1>4. ASSUME NEW r \in Run, ReleaseCreate(r)
      PROVE  Tags'
  <2>1. tagged[Version(r)] # NoCommit
    BY <1>0, <1>4 DEF ReleaseCreate, Traced, Followed, Follows
  <2>2. \A v \in Commit :
          released'[v] = released[v] \/ (v = Version(r) /\ released'[v] = run[r].commit)
    BY <1>0, <1>4 DEF ReleaseCreate, Version
  <2>3. UNCHANGED <<git, built, tagged>>
    BY <1>4 DEF ReleaseCreate
  <2>4. log[run[r].commit].version = Version(r)
    BY DEF Version
  <2>5. ASSUME NEW v \in Commit
        PROVE  released'[v] # NoCommit =>
                 tagged[v] # NoCommit /\ released'[v] <= head /\ log[released'[v]].version = v
    BY <1>0, <2>1, <2>2, <2>4 DEF Traced, Tags
  <2>. QED
    BY <2>3, <2>5 DEF Traced, Tags
<1>5. ASSUME NEW r \in Run, Proceed(r)
      PROVE  Tags'
  BY <1>1, <1>3, <1>4, <1>5, Untouched
<1>6. CASE Dispatch
  BY <1>1, <1>6 DEF Dispatch
<1>7. ASSUME NEW r \in Run, NEW every \in BOOLEAN, Rerun(r, every)
      PROVE  Tags'
  BY <1>1, <1>7 DEF Rerun
<1>8. CASE UNCHANGED vars
  BY <1>1, <1>8 DEF vars
<1>. QED
  BY <1>2, <1>5, <1>6, <1>7, <1>8 DEF Next

LEMMA TracedInit == Init => Traced
<1>. SUFFICES ASSUME Init PROVE Traced
  OBVIOUS
<1>0. MaxCommit \in Nat /\ MaxManual \in Nat
  BY PipelineAssumption
<1>1. Typed
  BY TypeInit
<1>2. Followed
  <2>1. \A j \in Job, r \in Run : job[j][r] = IF r = 0 THEN "success" ELSE "waiting"
    BY DEF Init
  <2>2. /\ created = 0 /\ head = 0 /\ built = {0}
        /\ \A r \in Run : run[r].commit = 0 /\ ~plan[r].release
        /\ \A r \in Run : status[r] = IF r = 0 THEN "success" ELSE "waiting"
    BY DEF Init
  <2>3. "promote" \in Job /\ "changes" \in Job
    BY DEF Job
  <2>. QED
    BY <1>0, <2>1, <2>2, <2>3 DEF Followed, Follows
<1>3. Tags
  BY <1>0 DEF Init, Tags
<1>. QED
  BY <1>1, <1>2, <1>3 DEF Traced

LEMMA TracedStep == Traced /\ [Next]_vars => Traced'
<1>. SUFFICES ASSUME Traced, [Next]_vars PROVE Traced'
  OBVIOUS
<1>1. Typed'
  BY TypeStep DEF Traced
<1>2. Followed'
  <2>1. CASE Next
    BY <2>1, PushFollows, DispatchFollows, ProceedFollows, RerunFollows DEF Next
  <2>2. CASE UNCHANGED vars
    BY <2>2 DEF vars, Traced, Followed, Follows, Version
  <2>. QED
    BY <2>1, <2>2
<1>. QED
  BY <1>1, <1>2, TagsStep DEF Traced

LEMMA TracedAlways == Spec => []Traced
  BY TracedInit, TracedStep, PTL DEF Spec

\* A release names an image that exists and was built from a commit of its
\* version, whatever is force-pushed, reverted, re-run, superseded or fails.
THEOREM Release == Spec => []ReleaseNamesItsImage
<1>1. Traced => ReleaseNamesItsImage
  BY DEF Traced, Tags, ReleaseNamesItsImage
<1>. QED
  BY <1>1, TracedAlways, PTL

(***************************************************************************)
(* The main tag.  A promote that is about to move it knows what it holds:  *)
(* no other promote has moved it since it looked.  Unless main is          *)
(* force-pushed, every commit leads to all the later ones.                 *)
(***************************************************************************)
Holding ==
  /\ main <= head
  /\ \A r \in Run : job["promote"][r] = "acting" => held[r] = main

Straight == \A c \in Commit : c <= head => log[c].past = 0..c

LEMMA HoldingInit == Init => Holding
<1>. SUFFICES ASSUME Init PROVE Holding
  OBVIOUS
<1>1. "promote" \in Job
  BY DEF Job
<1>2. \A r \in Run : job["promote"][r] # "acting"
  BY <1>1 DEF Init
<1>3. main = 0 /\ head = 0
  BY DEF Init
<1>. QED
  BY <1>2, <1>3 DEF Holding

LEMMA HoldingStep == Traced /\ Holding /\ [Next]_vars => Holding'
<1>. SUFFICES ASSUME Traced, Holding, [Next]_vars PROVE Holding'
  OBVIOUS
<1>0. /\ Typed /\ "promote" \in Job /\ job \in [Job -> States] /\ job["promote"] \in States
      /\ head \in Commit /\ main \in Commit /\ held \in [Run -> Commit] /\ MaxCommit \in Nat
      /\ \A r \in Run : run[r].commit <= head
  BY PipelineAssumption DEF Traced, Followed, Typed, TypeOK, Job, States
<1>1. CASE /\ main <= head /\ main' = main /\ held' = held /\ main' <= head'
           /\ \A s \in Run : job'["promote"][s] = "acting" => job["promote"][s] = "acting"
  BY <1>1 DEF Holding
<1>2. CASE Push
  BY <1>0, <1>1, <1>2 DEF Push, Holding
<1>3. CASE Dispatch
  BY <1>0, <1>1, <1>3 DEF Dispatch, Holding
<1>4. ASSUME NEW r \in Run, NEW every \in BOOLEAN, Rerun(r, every)
      PROVE  Holding'
  <2>1. job'["promote"] =
          [job["promote"] EXCEPT ![r] =
             IF every \/ Again(r, "promote") THEN "waiting" ELSE job["promote"][r]]
    BY <1>0, <1>4 DEF Rerun
  <2>2. \A s \in Run : job'["promote"][s] = "acting" => job["promote"][s] = "acting"
    BY <1>0, <2>1 DEF States
  <2>. QED
    BY <1>1, <1>4, <2>2 DEF Rerun, Holding
<1>5. ASSUME NEW r \in Run, Proceed(r)
      PROVE  Holding'
  <2>1. CASE PromoteRead(r)
    <3>1. /\ \A s \in Run : s # r => job'["promote"][s] = job["promote"][s] /\ held'[s] = held[s]
          /\ held'[r] = main /\ UNCHANGED <<main, head>>
      BY <1>0, <2>1, EndedType DEF PromoteRead, State
    <3>. QED
      BY <3>1 DEF Holding
  <2>2. CASE PromoteTag(r)
    <3>1. main' = main \/ main' = run[r].commit
      BY <2>2 DEF PromoteTag
    <3>2. job'["promote"] = Leave(job["promote"], Run, r, "success") /\ head' = head
      <4>1. Done(r, "promote", "success") /\ head' = head
        BY <2>2 DEF PromoteTag
      <4>. QED
        BY <1>0, <4>1, DoneType DEF Over
    <3>3. \A s \in Run : s # r => job["promote"][s] # "acting"
      BY <1>0, <2>2 DEF PromoteTag, Typed, Exclusive, Active
    <3>4. \A s \in Run : job'["promote"][s] # "acting"
      BY <1>0, <3>2, <3>3, LeaveType DEF Over
    <3>. QED
      BY <1>0, <3>1, <3>2, <3>4 DEF Holding
  <2>3. CASE ~PromoteRead(r) /\ ~PromoteTag(r)
    <3>1. UNCHANGED <<main, held, head>>
      BY <1>5, <2>3, Untouched
    <3>2. \A s \in Run : job'["promote"][s] = "acting" => job["promote"][s] = "acting"
      <4>1. CASE \E j \in Job, result \in {"success", "failure", "skipped", "acting"} :
                   Ended(r, j, result) /\ (result = "acting" => j # "promote")
        BY <1>0, <4>1, EndedType DEF State, Over
      <4>2. CASE \E j \in {"deploy", "promote"}, result \in {"success", "failure"} :
                   Done(r, j, result)
        <5>1. PICK j \in {"deploy", "promote"}, result \in {"success", "failure"} :
                Done(r, j, result)
          BY <4>2
        <5>2. /\ \A k \in Job : k # j => job'[k] = job[k]
              /\ job'[j][r] = result
              /\ \A s \in Run : s # r =>
                   \/ job'[j][s] = job[j][s]
                   \/ job[j][s] = "queued" /\ job'[j][s] = "running"
          BY <1>0, <5>1, DoneType DEF Over, Job
        <5>. QED
          BY <1>0, <5>2
      <4>3. CASE \E j \in {"deploy", "promote"} : Enqueue(r, j)
        <5>1. PICK j \in {"deploy", "promote"} : Enqueue(r, j)
          BY <4>3
        <5>2. j \in Job /\ job[j] \in States
          BY <1>0 DEF Job
        <5>3. job' = [job EXCEPT ![j] = Join(job[j], Run, r)]
          BY <5>1 DEF Enqueue, Others
        <5>. QED
          BY <1>0, <5>2, <5>3, JoinType
      <4>4. CASE Finish(r)
        BY <4>4 DEF Finish
      <4>5. \/ \E j \in Job, result \in {"success", "failure", "skipped", "acting"} :
                 Ended(r, j, result) /\ (result = "acting" => j # "promote")
            \/ \E j \in {"deploy", "promote"}, result \in {"success", "failure"} :
                 Done(r, j, result)
            \/ \E j \in {"deploy", "promote"} : Enqueue(r, j)
            \/ Finish(r)
        <5>1. ASSUME NEW j \in Job, Skip(r, j)
              PROVE  Ended(r, j, "skipped")
          BY <5>1 DEF Skip
        <5>2. Changes(r) => \E result \in {"success", "failure"} : Ended(r, "changes", result)
          BY DEF Changes
        <5>3. Image(r) => \E result \in {"success", "failure"} : Ended(r, "image", result)
          BY DEF Image
        <5>4. Checks(r) => \E result \in {"success", "failure"} : Ended(r, "checks", result)
          BY DEF Checks
        <5>5. DeployCheck(r) => Ended(r, "deploy", "acting") \/ Done(r, "deploy", "success")
          BY DEF DeployCheck
        <5>6. DeployUp(r) => Done(r, "deploy", "success") \/ Done(r, "deploy", "failure")
          BY DEF DeployUp
        <5>7. PromoteFails(r) => Done(r, "promote", "failure")
          BY DEF PromoteFails
        <5>8. ReleaseView(r) => Ended(r, "release", "acting") \/ Ended(r, "release", "success")
          BY DEF ReleaseView
        <5>9. ReleaseCreate(r) => \E result \in {"success", "failure"} : Ended(r, "release", result)
          BY DEF ReleaseCreate
        <5>. QED
          BY <1>5, <2>3, <5>1, <5>2, <5>3, <5>4, <5>5, <5>6, <5>7, <5>8, <5>9
             DEF Proceed, Job
      <4>. QED
        BY <4>1, <4>2, <4>3, <4>4, <4>5
    <3>. QED
      BY <1>1, <3>1, <3>2 DEF Holding
  <2>. QED
    BY <2>1, <2>2, <2>3
<1>6. CASE UNCHANGED vars
  BY <1>1, <1>6 DEF vars, Holding
<1>. QED
  BY <1>2, <1>3, <1>4, <1>5, <1>6 DEF Next

LEMMA StraightInit == Init => Straight
<1>. SUFFICES ASSUME Init PROVE Straight
  OBVIOUS
<1>1. MaxCommit \in Nat /\ head = 0 /\ \A c \in Commit : log[c].past = {0}
  BY PipelineAssumption DEF Init
<1>2. 0..0 = {0}
  OBVIOUS
<1>3. ASSUME NEW c \in Commit, c <= head
      PROVE  log[c].past = 0..c
  <2>1. c = 0
    BY <1>1, <1>3
  <2>. QED
    BY <1>1, <1>2, <2>1
<1>. QED
  BY <1>3 DEF Straight

LEMMA StraightStep == Rewriting = FALSE /\ Typed /\ Straight /\ [Next]_vars => Straight'
<1>. SUFFICES ASSUME Rewriting = FALSE, Typed, Straight, [Next]_vars
             PROVE  Straight'
  OBVIOUS
<1>0. MaxCommit \in Nat /\ head \in Commit /\ log \in [Commit -> Entry]
  BY PipelineAssumption DEF Typed, TypeOK
<1>1. CASE UNCHANGED git
  BY <1>1 DEF Straight
<1>2. CASE Push
  <2>1. head' = head + 1 /\ head + 1 \in Commit
    BY <1>0, <1>2 DEF Push
  <2>2. \A c \in Commit : c <= head => log'[c] = log[c]
    BY <1>0, <1>2 DEF Push
  <2>3. log'[head + 1].past = log[head].past \cup {head + 1}
    BY <1>0, <1>2, <2>1 DEF Push
  <2>4. log[head].past = 0..head
    BY <1>0 DEF Straight
  <2>5. (0..head) \cup {head + 1} = 0..(head + 1)
    BY <1>0
  <2>6. ASSUME NEW c \in Commit, c <= head'
        PROVE  log'[c].past = 0..c
    <3>1. CASE c = head + 1
      BY <2>3, <2>4, <2>5, <3>1
    <3>2. CASE c # head + 1
      <4>1. c <= head
        BY <1>0, <2>1, <2>6, <3>2
      <4>. QED
        BY <2>2, <4>1 DEF Straight
    <3>. QED
      BY <3>1, <3>2
  <2>. QED
    BY <2>6 DEF Straight
<1>3. CASE Dispatch
  BY <1>1, <1>3 DEF Dispatch
<1>4. ASSUME NEW r \in Run, NEW every \in BOOLEAN, Rerun(r, every)
      PROVE  Straight'
  BY <1>1, <1>4 DEF Rerun
<1>5. ASSUME NEW r \in Run, Proceed(r)
      PROVE  Straight'
  BY <1>1, <1>5, Untouched
<1>6. CASE UNCHANGED vars
  BY <1>1, <1>6 DEF vars
<1>. QED
  BY <1>2, <1>3, <1>4, <1>5, <1>6 DEF Next

LEMMA ForwardStep ==
  ASSUME Traced, Holding, Straight, [Next]_vars, main' # main
  PROVE  main \in log'[main'].past
<1>0. /\ MaxCommit \in Nat /\ head \in Commit /\ main \in Commit /\ main <= head
      /\ \A r \in Run : run[r].commit \in Commit /\ run[r].commit <= head
  BY PipelineAssumption DEF Traced, Followed, Typed, TypeOK, Holding
<1>1. PICK r \in Run : PromoteTag(r)
  <2>1. ASSUME NEW r \in Run, Proceed(r)
        PROVE  PromoteTag(r)
    BY <2>1, Untouched
  <2>2. ~Push /\ ~Dispatch /\ ~UNCHANGED vars
    BY DEF Push, Dispatch, vars
  <2>3. \A r \in Run, every \in BOOLEAN : ~Rerun(r, every)
    BY DEF Rerun
  <2>. QED
    BY <2>1, <2>2, <2>3 DEF Next
<1>2. held[r] = main /\ log' = log
  BY <1>1 DEF PromoteTag, Holding
<1>3. main \in log[head].past
  BY <1>0 DEF Straight
<1>4. main' = run[r].commit /\ Moves(run[r].commit, main)
  BY <1>1, <1>2, <1>3 DEF PromoteTag, Gone
<1>5. log[main].past = 0..main /\ log[run[r].commit].past = 0..run[r].commit
  BY <1>0 DEF Straight
<1>. QED
  BY <1>0, <1>2, <1>4, <1>5 DEF Moves

\* Unless main is force-pushed, its tag only moves to commits that descend from
\* the one it was on, however promotes of pushes, manual runs and re-runs come.
THEOREM Forward == Rewriting = FALSE => (Spec => MainMovesForward)
<1>. SUFFICES ASSUME Rewriting = FALSE PROVE Spec => MainMovesForward
  OBVIOUS
<1>. DEFINE Inv == Traced /\ Holding /\ Straight
<1>1. Init => Inv
  BY TracedInit, HoldingInit, StraightInit
<1>2. Inv /\ [Next]_vars => Inv'
  BY TracedStep, HoldingStep, StraightStep DEF Traced
<1>3. Inv /\ [Next]_vars =>
        [main' # main => main \in log'[main'].past \/ main \notin log[head].past]_vars
  BY ForwardStep
<1>. QED
  BY <1>1, <1>2, <1>3, PTL DEF Spec, MainMovesForward
=============================================================================
