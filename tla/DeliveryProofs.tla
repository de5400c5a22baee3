--------------------------- MODULE DeliveryProofs ---------------------------
(***************************************************************************)
(* Theorems about Pipeline: what the runs of main deploy and deliver, and  *)
(* in which order, for any number of commits and failing jobs.             *)
(***************************************************************************)
EXTENDS PipelineProofs, FiniteSetTheorems

USE DEF Commit, Run, NoCommit, git, registry

At(r) == run[r].commit

(***************************************************************************)
(* Steps of a run's jobs.  All but the last of them move one job of the    *)
(* run, one whose turn it is or which is under way, and at most let those  *)
(* that queue behind it start, or supersede them.                          *)
(***************************************************************************)
Moved(r, j) ==
  /\ UNCHANGED <<git, created, run, status>>
  /\ \A k \in Job : k # j => job'[k] = job[k]
  /\ \A s \in Run : s # r =>
       \/ job'[j][s] = job[j][s]
       \/ job[j][s] = "queued" /\ job'[j][s] \in {"running", "cancelled"}
  /\ Due(r, j) \/ job[j][r] \in {"running", "acting"}
  /\ job'[j][r] \notin {"waiting", "cancelled"}
  /\ job'[j][r] = "skipped" <=> Due(r, j) /\ ~Wanted(r, j)
  /\ \A s \in Run : plan'[s] = plan[s] \/ (s = r /\ j = "changes" /\ Changes(r))
  /\ live' = live \/ (j = "deploy" /\ DeployUp(r))

LEMMA MovedByEnded ==
  ASSUME Typed, NEW r \in Run, NEW j \in Job, NEW result \in State, Ended(r, j, result),
         UNCHANGED <<git, created, run, status, live>>,
         Due(r, j) \/ job[j][r] \in {"running", "acting"},
         result \notin {"waiting", "cancelled"},
         result = "skipped" <=> Due(r, j) /\ ~Wanted(r, j),
         \A s \in Run : plan'[s] = plan[s] \/ (s = r /\ j = "changes" /\ Changes(r))
  PROVE  Moved(r, j)
<1>1. /\ job'[j][r] = result
      /\ \A k \in Job : k # j => job'[k] = job[k]
      /\ \A s \in Run : s # r => job'[j][s] = job[j][s]
  BY EndedType DEF Typed, TypeOK, States
<1>. QED
  BY <1>1 DEF Moved

LEMMA MovedByDone ==
  ASSUME Typed, NEW r \in Run, NEW j \in {"deploy", "promote"},
         NEW result \in {"success", "failure"}, Done(r, j, result), Active(job[j][r]),
         UNCHANGED <<git, created, run, status, plan>>,
         live' = live \/ (j = "deploy" /\ DeployUp(r))
  PROVE  Moved(r, j)
<1>0. j \in Job /\ result \in Over
  BY DEF Job, Over
<1>1. /\ job'[j][r] = result
      /\ \A k \in Job : k # j => job'[k] = job[k]
      /\ \A s \in Run : s # r =>
           \/ job'[j][s] = job[j][s]
           \/ job[j][s] = "queued" /\ job'[j][s] = "running"
  BY <1>0, DoneType DEF Typed, TypeOK, States
<1>2. ~Due(r, j)
  BY DEF Due, Active
<1>. QED
  BY <1>1, <1>2 DEF Moved, Active

LEMMA ProceedMoves ==
  ASSUME NEW r \in Run, Typed, Proceed(r), ~Finish(r)
  PROVE  \E j \in Job : Moved(r, j)
<1>0. \A j \in {"changes", "image", "checks", "deploy", "promote", "release"} : j \in Job
  BY DEF Job
<1>1. ASSUME NEW j \in Job, Skip(r, j)
      PROVE  Moved(r, j)
  BY <1>1, MovedByEnded DEF Skip, State, Over
<1>2. CASE Changes(r)
  <2>1. PICK result \in {"success", "failure"} : Ended(r, "changes", result)
    BY <1>2 DEF Changes
  <2>2. Wanted(r, "changes")
    BY DEF Wanted
  <2>3. \A s \in Run : plan'[s] = plan[s] \/ s = r
    BY <1>2 DEF Changes, Typed, TypeOK
  <2>. QED
    BY <1>0, <1>2, <2>1, <2>2, <2>3, MovedByEnded DEF Changes, State, Over
<1>3. CASE Image(r)
  <2>1. PICK result \in {"success", "failure"} : Ended(r, "image", result)
    BY <1>3 DEF Image
  <2>. QED
    BY <1>0, <1>3, <2>1, MovedByEnded DEF Image, State, Over
<1>4. CASE Checks(r)
  <2>1. PICK result \in {"success", "failure"} : Ended(r, "checks", result)
    BY <1>4 DEF Checks
  <2>2. Wanted(r, "checks")
    BY DEF Wanted
  <2>. QED
    BY <1>0, <1>4, <2>1, <2>2, MovedByEnded DEF Checks, State, Over
<1>5. ASSUME NEW j \in {"deploy", "promote"}, Enqueue(r, j)
      PROVE  Moved(r, j)
  <2>0. j \in Job /\ job[j] \in States /\ job \in [Job -> States]
    BY <1>0 DEF Typed, TypeOK, States
  <2>1. job' = [job EXCEPT ![j] = Join(job[j], Run, r)]
    BY <1>5 DEF Enqueue, Others
  <2>2. /\ job'[j][r] \in {"queued", "running"}
        /\ \A k \in Job : k # j => job'[k] = job[k]
        /\ \A s \in Run : s # r =>
             \/ job'[j][s] = job[j][s]
             \/ job[j][s] = "queued" /\ job'[j][s] = "cancelled"
    BY <2>0, <2>1, JoinType
  <2>. QED
    BY <1>5, <2>2 DEF Enqueue, Moved
<1>6. CASE DeployCheck(r)
  <2>1. CASE Current(r)
    <3>1. ~Due(r, "deploy")
      BY <1>6 DEF DeployCheck, Due
    <3>. QED
      BY <1>0, <1>6, <2>1, <3>1, MovedByEnded DEF DeployCheck, State
  <2>2. CASE ~Current(r)
    BY <1>0, <1>6, <2>2, MovedByDone DEF DeployCheck, Active
  <2>. QED
    BY <1>0, <2>1, <2>2
<1>7. CASE DeployUp(r)
  <2>1. PICK result \in {"success", "failure"} : Done(r, "deploy", result)
    BY <1>7 DEF DeployUp
  <2>. QED
    BY <1>0, <1>7, <2>1, MovedByDone DEF DeployUp, Active
<1>8. CASE PromoteRead(r)
  <2>1. ~Due(r, "promote")
    BY <1>8 DEF PromoteRead, Due
  <2>. QED
    BY <1>0, <1>8, <2>1, MovedByEnded DEF PromoteRead, State
<1>9. CASE PromoteTag(r)
  BY <1>0, <1>9, MovedByDone DEF PromoteTag, Active
<1>10. CASE PromoteFails(r)
  BY <1>0, <1>10, MovedByDone DEF PromoteFails
<1>11. CASE ReleaseView(r)
  <2>1. PICK result \in {"acting", "success"} : Ended(r, "release", result)
    BY <1>11 DEF ReleaseView
  <2>. QED
    BY <1>0, <1>11, <2>1, MovedByEnded DEF ReleaseView, State, Over
<1>12. CASE ReleaseCreate(r)
  <2>1. PICK result \in {"success", "failure"} : Ended(r, "release", result)
    BY <1>12 DEF ReleaseCreate
  <2>2. ~Due(r, "release")
    BY <1>12 DEF ReleaseCreate, Due
  <2>. QED
    BY <1>0, <1>12, <2>1, <2>2, MovedByEnded DEF ReleaseCreate, State, Over
<1>. QED
  BY <1>0, <1>1, <1>2, <1>3, <1>4, <1>5, <1>6, <1>7, <1>8, <1>9, <1>10, <1>11, <1>12
     DEF Proceed

\* Which step brings a job of the run to a state that others look at.
LEMMA Brought ==
  ASSUME NEW r \in Run, Typed, Proceed(r), ~Finish(r)
  PROVE  /\ job'["changes"][r] = "success" => job["changes"][r] = "success" \/ Changes(r)
         /\ job'["checks"][r] = "success" => job["checks"][r] = "success" \/ Passable(r)
         /\ job'["deploy"][r] = "acting" =>
              job["deploy"][r] = "acting" \/ (DeployCheck(r) /\ Current(r))
         /\ job'["deploy"][r] = "success" =>
              \/ job["deploy"][r] = "success"
              \/ DeployUp(r) /\ live' = [run |-> r, whole |-> TRUE]
              \/ DeployCheck(r) /\ ~Current(r)
         /\ job'["promote"][r] = "success" => job["promote"][r] = "success" \/ PromoteTag(r)
         /\ job'["release"][r] = "success" =>
              job["release"][r] = "success" \/ ReleaseView(r) \/ ReleaseCreate(r)
<1>0. /\ job \in [Job -> States]
      /\ \A j \in {"changes", "image", "checks", "deploy", "promote", "release"} : j \in Job
  BY DEF Typed, TypeOK, States, Job
<1>1. CASE \E j \in Job : Skip(r, j)
  BY <1>0, <1>1, EndedType DEF Skip, State, Over
<1>2. CASE Changes(r) \/ Image(r) \/ Checks(r)
  <2>1. \E j \in {"changes", "image", "checks"}, result \in {"success", "failure"} :
          /\ Ended(r, j, result)
          /\ j = "changes" => Changes(r)
          /\ j = "checks" /\ result = "success" => Passable(r)
    BY <1>2 DEF Changes, Image, Checks
  <2>. QED
    BY <1>0, <2>1, EndedType DEF State, Over
<1>3. CASE \E j \in {"deploy", "promote"} : Enqueue(r, j)
  <2>1. PICK j \in {"deploy", "promote"} : Enqueue(r, j)
    BY <1>3
  <2>2. j \in Job /\ job[j] \in States /\ job' = [job EXCEPT ![j] = Join(job[j], Run, r)]
    BY <1>0, <2>1 DEF Enqueue, Others
  <2>3. job'[j][r] \in {"queued", "running"} /\ \A k \in Job : k # j => job'[k] = job[k]
    BY <1>0, <2>2, JoinType
  <2>. QED
    BY <1>0, <2>3
<1>4. CASE DeployCheck(r)
  <2>1. CASE Current(r)
    BY <1>0, <1>4, <2>1, EndedType DEF DeployCheck, State
  <2>2. CASE ~Current(r)
    <3>1. Done(r, "deploy", "success")
      BY <1>4, <2>2 DEF DeployCheck
    <3>. QED
      BY <1>0, <1>4, <2>2, <3>1, DoneType DEF Over
  <2>. QED
    BY <2>1, <2>2
<1>5. CASE DeployUp(r)
  <2>1. CASE Done(r, "deploy", "success") /\ live' = [run |-> r, whole |-> TRUE]
    BY <1>0, <1>5, <2>1, DoneType DEF Over
  <2>2. CASE Done(r, "deploy", "failure")
    BY <1>0, <1>5, <2>2, DoneType DEF Over
  <2>. QED
    BY <1>5, <2>1, <2>2 DEF DeployUp
<1>6. CASE PromoteRead(r)
  BY <1>0, <1>6, EndedType DEF PromoteRead, State
<1>7. CASE PromoteTag(r)
  BY <1>0, <1>7, DoneType DEF PromoteTag, Over
<1>8. CASE PromoteFails(r)
  BY <1>0, <1>8, DoneType DEF PromoteFails, Over
<1>9. CASE ReleaseView(r) \/ ReleaseCreate(r)
  <2>1. PICK result \in {"success", "failure", "acting"} : Ended(r, "release", result)
    BY <1>9 DEF ReleaseView, ReleaseCreate
  <2>. QED
    BY <1>0, <1>9, <2>1, EndedType DEF State, Over
<1>. QED
  BY <1>1, <1>2, <1>3, <1>4, <1>5, <1>6, <1>7, <1>8, <1>9 DEF Proceed

(***************************************************************************)
(* Groups of runs.  One that joins supersedes those that wait, and runs    *)
(* only if no other does; one that leaves lets those that wait start.      *)
(***************************************************************************)
LEMMA Joins ==
  ASSUME NEW f \in States, NEW group, NEW x \in Run, NEW g, g = Join(f, group, x)
  PROVE  /\ g[x] \in {"queued", "running"}
         /\ g[x] = "running" => \A z \in group \ {x} : f[z] # "running"
         /\ \A y \in Run : y # x /\ (y \notin group \/ f[y] # "queued") => g[y] = f[y]
         /\ \A y \in Run : y # x /\ y \in group /\ f[y] = "queued" => g[y] = "cancelled"
  BY DEF Join, States, State, Over, Active

LEMMA Finishes ==
  ASSUME Typed, NEW r \in Run, Finish(r)
  PROVE  /\ UNCHANGED <<git, created, run, plan, job, held, registry, released, live>>
         /\ status[r] = "running"
         /\ \A j \in Job : job[j][r] \in Over
         /\ status'[r] \in {"success", "failure"}
         /\ status'[r] = "success" => \A j \in Job : job[j][r] \in {"success", "skipped"}
         /\ \A s \in Run : s # r /\ (s \notin Group(r) \/ status[s] # "queued")
              => status'[s] = status[s]
         /\ \A s \in Run : s # r /\ s \in Group(r) /\ status[s] = "queued"
              => status'[s] = "running"
<1>1. PICK result \in {"success", "failure"} :
        /\ status' = Leave(status, Group(r), r, result)
        /\ result = "success" => \A j \in Job : job[j][r] \in {"success", "skipped"}
  BY DEF Finish
<1>2. status \in States
  BY DEF Typed, TypeOK, States
<1>3. /\ status'[r] = result
      /\ \A s \in Run : s # r /\ (s \notin Group(r) \/ status[s] # "queued")
           => status'[s] = status[s]
      /\ \A s \in Run : s # r /\ s \in Group(r) /\ status[s] = "queued"
           => status'[s] = "running"
  BY <1>1, <1>2 DEF Leave, States, State, Over
<1>. QED
  BY <1>1, <1>3 DEF Finish

LEMMA Pushes ==
  ASSUME Traced, Push, NEW r, r = created + 1
  PROVE  /\ r \in Run /\ r > created /\ created' = r /\ head' = head + 1
         /\ UNCHANGED <<plan, job, held, registry, released, live>>
         /\ run'[r] = [event |-> "push", commit |-> head + 1, attempt |-> 1]
         /\ \A s \in Run : s # r => run'[s] = run[s]
         /\ status'[r] \in {"queued", "running"}
         /\ status'[r] = "running" => \A s \in PushRuns \ {r} : status[s] # "running"
         /\ \A s \in Run : s # r /\ (s \notin PushRuns \/ status[s] # "queued")
              => status'[s] = status[s]
         /\ \A s \in Run : s # r /\ s \in PushRuns /\ status[s] = "queued"
              => status'[s] = "cancelled"
         /\ \A c \in Commit : c <= head => log'[c] = log[c]
<1>0. /\ MaxCommit \in Nat /\ MaxManual \in Nat /\ head \in Commit /\ created \in Run
      /\ status \in States /\ log \in [Commit -> Entry]
      /\ run \in [Run -> [event : Event, commit : Commit, attempt : 0..MaxAttempt]]
  BY PipelineAssumption DEF Traced, Typed, TypeOK, States
<1>1. r \in Run /\ r > created
  BY <1>0 DEF Traced, Typed, Counted, Push
<1>2. /\ created' = r /\ head' = head + 1
      /\ UNCHANGED <<plan, job, held, registry, released, live>>
      /\ run' = [run EXCEPT ![r] = [event |-> "push", commit |-> head + 1, attempt |-> 1]]
      /\ status' = Join(status, PushRuns \cup {r}, r)
  BY DEF Push
<1>3. /\ run'[r] = [event |-> "push", commit |-> head + 1, attempt |-> 1]
      /\ \A s \in Run : s # r => run'[s] = run[s]
  BY <1>0, <1>1, <1>2
<1>4. /\ status'[r] \in {"queued", "running"}
      /\ status'[r] = "running" => \A s \in PushRuns \ {r} : status[s] # "running"
      /\ \A s \in Run : s # r /\ (s \notin PushRuns \/ status[s] # "queued")
           => status'[s] = status[s]
      /\ \A s \in Run : s # r /\ s \in PushRuns /\ status[s] = "queued"
           => status'[s] = "cancelled"
  BY <1>0, <1>1, <1>2 DEF Join, States, State, Over, Active
<1>5. \A c \in Commit : c <= head => log'[c] = log[c]
  BY <1>0 DEF Push
<1>. QED
  BY <1>1, <1>2, <1>3, <1>4, <1>5

(***************************************************************************)
(* Order without manual runs.  The run of a push has the number of its     *)
(* commit, at most one runs and at most one waits, only the newest for its *)
(* first attempt, and the stack is never ahead of a first attempt that     *)
(* runs, nor of a deploy that is past the look at main: a re-run deploys   *)
(* main's head.                                                            *)
(***************************************************************************)
InLine ==
  /\ \A r \in Run : r <= created => status[r] # "waiting"
  /\ \A r \in Run : r <= created =>
       run[r].event = "push" /\ run[r].attempt # 0 /\ At(r) = r
  /\ \A r \in Run : status[r] # "acting"
  /\ \A r, s \in Run : status[r] = "running" /\ status[s] = "running" => r = s
  /\ \A r, s \in Run : status[r] = "queued" /\ status[s] = "queued" => r = s
  /\ \A r \in Run : status[r] = "queued" /\ run[r].attempt = 1 => r = created
  /\ \A r \in Run, j \in Job :
       job[j][r] \in {"queued", "running", "acting"} => status[r] = "running"
  /\ live.run <= created
  /\ \A r \in Run : status[r] = "running" /\ run[r].attempt = 1 => live.run <= r
  /\ \A r \in Run : job["deploy"][r] = "acting" => live.run <= r

LEMMA InLineInit == Init => InLine
<1>. SUFFICES ASSUME Init PROVE InLine
  OBVIOUS
<1>0. MaxCommit \in Nat /\ MaxManual \in Nat
  BY PipelineAssumption
<1>1. /\ created = 0 /\ live.run = 0 /\ "deploy" \in Job
      /\ \A r \in Run : r <= created => r = 0
      /\ \A r \in Run, j \in Job : job[j][r] = IF r = 0 THEN "success" ELSE "waiting"
      /\ \A r \in Run : status[r] = IF r = 0 THEN "success" ELSE "waiting"
      /\ run[0].event = "push" /\ run[0].attempt = 1 /\ run[0].commit = 0
  BY <1>0 DEF Init, Job
<1>. QED
  BY <1>1 DEF InLine, At

LEMMA InLineMoves ==
  ASSUME Traced, InLine, MaxManual = 0, NEW r \in Run, NEW j \in Job, Proceed(r),
         ~Finish(r), Moved(r, j)
  PROVE  /\ InLine'
         /\ live' # live => At(live.run) <= At(live.run)'
<1>0. /\ MaxCommit \in Nat /\ head \in Commit /\ created \in Run /\ "deploy" \in Job
      /\ live \in [run : Run, whole : BOOLEAN] /\ Typed
      /\ UNCHANGED <<git, created, run, status>>
  BY PipelineAssumption DEF Traced, Typed, TypeOK, Moved, Job
<1>u. head = created
  BY <1>0 DEF Typed, Counted
<1>1. status[r] = "running" /\ r <= created
  BY <1>0 DEF Moved, Due, InLine, Traced, Followed
<1>2. \A s \in Run, k \in Job :
        job'[k][s] \in {"queued", "running", "acting"} => status[s] = "running"
  BY <1>1 DEF Moved, InLine
<1>3. CASE live' = live
  <2>1. ASSUME NEW s \in Run, job'["deploy"][s] = "acting"
        PROVE  live.run <= s
    <3>1. CASE job["deploy"][s] = "acting"
      BY <3>1 DEF InLine
    <3>2. CASE job["deploy"][s] # "acting"
      <4>1. s = r /\ j = "deploy"
        BY <1>0, <2>1, <3>2 DEF Moved
      <4>2. Current(r)
        BY <1>0, <2>1, <3>2, <4>1, Brought
      <4>3. CASE run[r].attempt = 1
        BY <1>1, <4>1, <4>3 DEF InLine
      <4>4. CASE run[r].attempt # 1
        BY <1>0, <1>u, <1>1, <4>1, <4>2, <4>4 DEF Current, InLine, At
      <4>. QED
        BY <4>3, <4>4
    <3>. QED
      BY <3>1, <3>2
  <2>. QED
    BY <1>0, <1>2, <1>3, <2>1 DEF InLine, At
<1>4. CASE live' # live
  <2>1. DeployUp(r) /\ job["deploy"][r] = "acting" /\ live'.run = r
    <3>1. DeployUp(r)
      BY <1>4 DEF Moved
    <3>. QED
      BY <1>4, <3>1 DEF DeployUp
  <2>2. job'["deploy"][r] # "acting"
    BY <1>0, <2>1, DoneType DEF DeployUp, Typed, TypeOK, States, Over
  <2>3. \A s \in Run : job'["deploy"][s] # "acting"
    <3>1. \A s \in Run : job["deploy"][s] = "acting" => s = r
      BY <1>0, <2>1 DEF Typed, Exclusive, Active
    <3>2. \A s \in Run : s # r => job'["deploy"][s] # "acting"
      BY <1>0, <3>1 DEF Moved
    <3>. QED
      BY <2>2, <3>2
  <2>4. live.run <= r /\ live.run \in Run /\ live.run <= created
    BY <1>0, <2>1 DEF InLine
  <2>5. At(live.run) <= At(live.run)'
    BY <1>0, <1>1, <2>1, <2>4 DEF InLine, At
  <2>. QED
    BY <1>0, <1>1, <1>2, <2>1, <2>3, <2>5 DEF InLine, At
<1>. QED
  BY <1>3, <1>4

LEMMA InLinePush == Traced /\ InLine /\ MaxManual = 0 /\ Push => InLine'
<1>. SUFFICES ASSUME Traced, InLine, MaxManual = 0, Push PROVE InLine'
  OBVIOUS
<1>0. PICK r : r = created + 1
  OBVIOUS
<1>1. /\ r \in Run /\ r > created /\ created' = r /\ UNCHANGED <<job, live>>
      /\ run'[r] = [event |-> "push", commit |-> head + 1, attempt |-> 1]
      /\ \A s \in Run : s # r => run'[s] = run[s]
      /\ status'[r] \in {"queued", "running"}
      /\ status'[r] = "running" => \A s \in PushRuns \ {r} : status[s] # "running"
      /\ \A s \in Run : s # r /\ (s \notin PushRuns \/ status[s] # "queued")
           => status'[s] = status[s]
      /\ \A s \in Run : s # r /\ s \in PushRuns /\ status[s] = "queued"
           => status'[s] = "cancelled"
  BY <1>0, Pushes
<1>2. /\ head = created /\ created \in Nat /\ live.run \in Nat /\ "deploy" \in Job
      /\ \A s \in Run : status[s] # "waiting" => s <= created
      /\ \A s \in Run, k \in Job : job[k][s] # "waiting" => s <= created
  <2>1. head \in Nat /\ created \in Nat /\ live.run \in Nat /\ "deploy" \in Job
    BY PipelineAssumption DEF Traced, Typed, TypeOK, Job
  <2>2. head = created
    BY <2>1 DEF Traced, Typed, Counted
  <2>. QED
    BY <2>1, <2>2 DEF Traced, Followed, Follows
<1>3. \A s \in Run : s # r => (s <= r <=> s <= created)
  BY <1>0, <1>2
<1>4. \A s \in Run : s <= created => s # r /\ s \in PushRuns
  BY <1>0, <1>2 DEF InLine, PushRuns
<1>5. ASSUME NEW s \in Run, s <= created'
      PROVE  /\ run'[s].event = "push" /\ run'[s].attempt # 0 /\ At(s)' = s
             /\ status'[s] # "waiting"
  <2>1. CASE s = r
    BY <1>0, <1>1, <1>2, <2>1 DEF At
  <2>2. CASE s # r
    <3>1. s <= created
      BY <1>1, <1>3, <1>5, <2>2
    <3>2. status'[s] = status[s] \/ status'[s] = "cancelled"
      BY <1>1, <2>2
    <3>. QED
      BY <1>1, <2>2, <3>1, <3>2 DEF InLine, At
  <2>. QED
    BY <2>1, <2>2
<1>6. \A s \in Run : /\ status'[s] # "acting"
                     /\ s # r => status'[s] # "queued"
                     /\ s # r => (status'[s] = "running" <=> status[s] = "running")
  <2>1. \A s \in Run : s # r /\ status[s] = "queued" => status'[s] = "cancelled"
    BY <1>1, <1>2, <1>4
  <2>2. \A s \in Run : s # r /\ status[s] # "queued" => status'[s] = status[s]
    BY <1>1
  <2>. QED
    BY <1>1, <2>1, <2>2 DEF InLine
<1>7. ASSUME NEW s \in Run, NEW u \in Run, status'[s] = "running", status'[u] = "running"
      PROVE  s = u
  <2>1. ASSUME NEW v \in Run, v # r, status'[v] = "running"
        PROVE  status'[r] # "running" /\ status[v] = "running"
    BY <1>1, <1>2, <1>4, <1>6, <2>1
  <2>. QED
    BY <1>7, <2>1 DEF InLine
<1>8. \A s \in Run, j \in Job :
        job'[j][s] \in {"queued", "running", "acting"} => status'[s] = "running"
  <2>1. \A j \in Job : job[j][r] = "waiting"
    BY <1>0, <1>1, <1>2
  <2>. QED
    BY <1>1, <1>6, <2>1 DEF InLine
<1>9. live'.run <= created'
  BY <1>0, <1>1, <1>2 DEF InLine
<1>10. ASSUME NEW s \in Run, status'[s] = "running", run'[s].attempt = 1
       PROVE  live'.run <= s
  <2>1. CASE s = r
    BY <1>1, <1>9, <2>1
  <2>2. CASE s # r
    BY <1>1, <1>6, <1>10, <2>2 DEF InLine
  <2>. QED
    BY <2>1, <2>2
<1>11. \A s \in Run : status'[s] = "queued" => s = created'
  BY <1>1, <1>6
<1>12. \A s \in Run : job'["deploy"][s] = "acting" => live'.run <= s
  BY <1>1 DEF InLine
<1>. QED
  BY <1>5, <1>6, <1>7, <1>8, <1>9, <1>10, <1>11, <1>12 DEF InLine

LEMMA InLineFinish ==
  ASSUME Traced, InLine, NEW r \in Run, Finish(r)
  PROVE  InLine'
<1>1. /\ UNCHANGED <<created, run, job, live>>
      /\ status[r] = "running"
      /\ \A j \in Job : job[j][r] \in Over
      /\ status'[r] \in {"success", "failure"}
      /\ \A s \in Run : s # r /\ (s \notin Group(r) \/ status[s] # "queued")
           => status'[s] = status[s]
      /\ \A s \in Run : s # r /\ s \in Group(r) /\ status[s] = "queued"
           => status'[s] = "running"
  BY Finishes DEF Traced
<1>2. \A s \in Run : status[s] # "waiting" => s <= created
  BY DEF Traced, Followed
<1>3. Group(r) = PushRuns /\ \A s \in Run : s <= created => s \in PushRuns
  BY <1>1, <1>2 DEF InLine, Group, PushRuns
<1>4. \A s \in Run : /\ status'[s] \notin {"acting", "queued"}
                     /\ status'[s] = "waiting" => status[s] = "waiting"
                     /\ status'[s] = "running" => s # r /\ status[s] = "queued"
  <2>1. \A s \in Run : s # r /\ status[s] = "queued" => status'[s] = "running"
    BY <1>1, <1>2, <1>3
  <2>2. \A s \in Run : s # r /\ status[s] # "queued" => status'[s] = status[s]
    BY <1>1
  <2>3. \A s \in Run : status[s] = "running" => s = r
    BY <1>1 DEF InLine
  <2>. QED
    BY <1>1, <2>1, <2>2, <2>3 DEF InLine
<1>5. \A s \in Run, j \in Job :
        job[j][s] \in {"queued", "running", "acting"} => s = r
  BY <1>1 DEF InLine
<1>6. \A s \in Run, j \in Job : job[j][s] \notin {"queued", "running", "acting"}
  BY <1>1, <1>5 DEF Over
<1>7. "deploy" \in Job
  BY DEF Job
<1>. QED
  BY <1>1, <1>4, <1>6, <1>7 DEF InLine, At

LEMMA InLineRerun ==
  ASSUME Traced, InLine, NEW r \in Run, NEW every \in BOOLEAN, Rerun(r, every)
  PROVE  InLine' /\ live' = live
<1>0. /\ status \in States /\ job \in [Job -> States] /\ "deploy" \in Job
      /\ run \in [Run -> [event : Event, commit : Commit, attempt : 0..MaxAttempt]]
      /\ status[r] \in Over /\ UNCHANGED <<created, live>> /\ r # 0 /\ r <= created
      /\ \A s \in Run : status[s] # "waiting" => s <= created
  BY DEF Traced, Followed, Typed, TypeOK, States, Job, Rerun, Over
<1>1. Group(r) = PushRuns /\ \A s \in Run : s <= created => s \in PushRuns
  BY <1>0 DEF InLine, Group, PushRuns
<1>2. /\ status'[r] \in {"queued", "running"}
      /\ status'[r] = "running" => \A s \in Run : status[s] # "running"
      /\ \A s \in Run : s # r /\ status[s] # "queued" => status'[s] = status[s]
      /\ \A s \in Run : s # r /\ status[s] = "queued" => status'[s] = "cancelled"
  <2>1. status' = Join(status, PushRuns, r)
    BY <1>1 DEF Rerun
  <2>2. /\ status'[r] \in {"queued", "running"}
        /\ status'[r] = "running" => \A s \in PushRuns \ {r} : status[s] # "running"
        /\ \A s \in Run : s # r /\ (s \notin PushRuns \/ status[s] # "queued")
             => status'[s] = status[s]
        /\ \A s \in Run : s # r /\ s \in PushRuns /\ status[s] = "queued"
             => status'[s] = "cancelled"
    BY <1>0, <2>1, Joins
  <2>3. status[r] # "running"
    BY <1>0 DEF Over
  <2>. QED
    BY <1>0, <1>1, <2>2, <2>3
<1>3. /\ \A s \in Run : s # r => run'[s] = run[s]
      /\ run'[r].event = run[r].event /\ At(r)' = At(r)
      /\ run'[r].attempt = run[r].attempt + 1
  BY <1>0 DEF Rerun, At
<1>4. run'[r].attempt \notin {0, 1}
  <2>1. run[r].attempt \in Nat /\ run[r].attempt # 0
    BY <1>0 DEF InLine
  <2>. QED
    BY <1>3, <2>1
<1>5. \A j \in Job, s \in Run : job'[j][s] = job[j][s] \/ job'[j][s] = "waiting"
  <2>1. ASSUME NEW j \in Job
        PROVE  \A s \in Run : job'[j][s] = job[j][s] \/ job'[j][s] = "waiting"
    BY <1>0 DEF Rerun, States
  <2>. QED
    BY <2>1
<1>6. \A j \in Job : job'[j][r] \notin {"queued", "running", "acting"}
  BY <1>0, <1>5 DEF InLine, Over
<1>7. ASSUME NEW s \in Run
      PROVE  /\ status'[s] # "acting"
             /\ status'[s] = "queued" => s = r
             /\ status'[s] = "waiting" => status[s] = "waiting"
             /\ status'[s] = "running" /\ s # r => status[s] = "running"
             /\ status[s] = "running" => status'[s] = "running"
             /\ At(s)' = At(s) /\ run'[s].event = run[s].event
             /\ run'[s].attempt = 0 => run[s].attempt = 0
             /\ status'[s] # "waiting" => s <= created
  BY <1>0, <1>2, <1>3, <1>4 DEF InLine, At, Over
<1>8. ASSUME NEW s \in Run, NEW u \in Run, status'[s] = "running", status'[u] = "running"
      PROVE  s = u
  BY <1>2, <1>7, <1>8 DEF InLine
<1>9. \A s \in Run : status'[s] = "running" /\ run'[s].attempt = 1 => live.run <= s
  BY <1>3, <1>4, <1>7 DEF InLine
<1>10. \A s \in Run, j \in Job :
         job'[j][s] \in {"queued", "running", "acting"} => status'[s] = "running"
  BY <1>5, <1>7 DEF InLine
<1>11. \A s \in Run : job'["deploy"][s] = "acting" => live.run <= s
  BY <1>0, <1>5 DEF InLine
<1>12. \A s \in Run : status'[s] = "queued" => run'[s].attempt # 1
  BY <1>4, <1>7
<1>13. \A s \in Run : s <= created' =>
         /\ status'[s] # "waiting" /\ run'[s].event = "push"
         /\ run'[s].attempt # 0 /\ At(s)' = s
  BY <1>0, <1>7 DEF InLine
<1>. QED
  BY <1>0, <1>7, <1>8, <1>9, <1>10, <1>11, <1>12, <1>13 DEF InLine

LEMMA InLineStep ==
  ASSUME MaxManual = 0, Traced, InLine, [Next]_vars
  PROVE  /\ InLine'
         /\ live' # live => At(live.run) <= At(live.run)'
<1>1. ASSUME NEW r \in Run, Proceed(r), ~Finish(r)
      PROVE  InLine' /\ (live' # live => At(live.run) <= At(live.run)')
  <2>1. PICK j \in Job : Moved(r, j)
    BY <1>1, ProceedMoves DEF Traced
  <2>. QED
    BY <1>1, <2>1, InLineMoves
<1>2. ASSUME NEW r \in Run, Finish(r)
      PROVE  InLine' /\ live' = live
  BY <1>2, InLineFinish DEF Finish
<1>3. ASSUME Push
      PROVE  InLine' /\ live' = live
  BY <1>3, InLinePush DEF Push
<1>4. ~Dispatch
  <2>1. head \in Nat /\ created \in Nat /\ head <= created
    BY PipelineAssumption DEF Traced, Typed, TypeOK, Counted
  <2>. QED
    BY <2>1 DEF Dispatch
<1>5. CASE UNCHANGED vars
  BY <1>5 DEF vars, InLine, At
<1>. QED
  BY <1>1, <1>2, <1>3, <1>4, <1>5, InLineRerun DEF Next

\* However pushes supersede each other, fail and are re-run, and whatever is
\* force-pushed or reverted: as long as nobody starts a run by hand, an older
\* tree never lands after a newer one.
THEOREM DeployOrder == MaxManual = 0 => (Spec => DeploysMoveForward)
<1>. SUFFICES ASSUME MaxManual = 0 PROVE Spec => DeploysMoveForward
  OBVIOUS
<1>1. Init => Traced /\ InLine
  BY TracedInit, InLineInit
<1>2. Traced /\ InLine /\ [Next]_vars => (Traced /\ InLine)'
  BY TracedStep, InLineStep
<1>3. Traced /\ InLine /\ [Next]_vars =>
        [live' # live => run[live.run].commit <= run'[live'.run].commit]_vars
  BY InLineStep DEF At
<1>. QED
  BY <1>1, <1>2, <1>3, PTL DEF Spec, DeploysMoveForward

(***************************************************************************)
(* Runs and their jobs.  Jobs move only while their run does, each after   *)
(* those it waits for, and is skipped exactly when it is not wanted.  A    *)
(* re-run keeps this, since whatever follows a job it repeats is repeated. *)
(* Run 0 stands for all those before, and is not re-run.                   *)
(***************************************************************************)
Working ==
  /\ run[0].event = "push" /\ status[0] = "success"
  /\ \A r \in Run : status[r] \notin {"acting", "skipped"}
  /\ \A r \in Run : r <= created => run[r].event # "none" /\ status[r] # "waiting"
  /\ \A r \in Run, j \in Job :
       job[j][r] \in {"queued", "running", "acting"} => status[r] = "running"

Upheld ==
  \A r \in Run, j \in Job :
    /\ job[j][r] # "waiting" => \A k \in Upstream[j] : job[k][r] \in Over
    /\ job[j][r] = "skipped" => r = 0 \/ ~Wanted(r, j)
    /\ job[j][r] \notin {"waiting", "skipped"} => r = 0 \/ Wanted(r, j)

Worked == Traced /\ Working /\ Upheld

\* A run starts: one of a push supersedes the push that waits.
Started(r) ==
  /\ r = created + 1 /\ created' = r
  /\ UNCHANGED <<plan, job, held, registry, released, live>>
  /\ head' = IF run'[r].event = "push" THEN head + 1 ELSE head
  /\ At(r)' = head' /\ \A c \in Commit : c <= head => log'[c] = log[c]
  /\ run'[r].event \in {"push", "manual"} /\ run'[r].attempt = 1
  /\ \A s \in Run : s # r => run'[s] = run[s]
  /\ status'[r] \in {"queued", "running"}
  /\ \A s \in Run : s # r =>
       status'[s] = status[s] \/ (status[s] = "queued" /\ status'[s] = "cancelled")
  /\ run'[r].event = "push" =>
       /\ \A s \in PushRuns : s # r => status'[s] # "queued"
       /\ status'[r] = "running" => \A s \in PushRuns : s # r => status[s] # "running"

LEMMA Starting ==
  ASSUME Traced, Push \/ Dispatch
  PROVE  \E r \in Run : Started(r)
<1>0. PICK r : r = created + 1
  OBVIOUS
<1>1. CASE Push
  <2>1. /\ r \in Run /\ created' = r /\ head' = head + 1 /\ head \in Nat
        /\ UNCHANGED <<plan, job, held, registry, released, live>>
        /\ run'[r] = [event |-> "push", commit |-> head + 1, attempt |-> 1]
        /\ \A s \in Run : s # r => run'[s] = run[s]
        /\ status'[r] \in {"queued", "running"}
        /\ status'[r] = "running" => \A s \in PushRuns \ {r} : status[s] # "running"
        /\ \A c \in Commit : c <= head => log'[c] = log[c]
    <3>1. head \in Nat
      BY PipelineAssumption DEF Traced, Typed, TypeOK
    <3>. QED
      BY <1>0, <1>1, <3>1, Pushes
  <2>2. /\ \A s \in Run : s # r /\ (s \notin PushRuns \/ status[s] # "queued")
             => status'[s] = status[s]
        /\ \A s \in Run : s # r /\ s \in PushRuns /\ status[s] = "queued"
             => status'[s] = "cancelled"
    BY <1>0, <1>1, Pushes
  <2>3. \A s \in PushRuns : s \in Run
    BY DEF PushRuns
  <2>. QED
    BY <1>0, <2>1, <2>2, <2>3 DEF Started, At
<1>2. CASE Dispatch
  <2>1. /\ MaxCommit \in Nat /\ MaxManual \in Nat /\ head \in Commit /\ created \in Run
        /\ status \in States
        /\ run \in [Run -> [event : Event, commit : Commit, attempt : 0..MaxAttempt]]
    BY PipelineAssumption DEF Traced, Typed, TypeOK, States
  <2>2. r \in Run
    BY <1>0, <1>2, <2>1 DEF Traced, Typed, Counted, Dispatch
  <2>3. /\ run'[r] = [event |-> "manual", commit |-> head, attempt |-> 1]
        /\ \A s \in Run : s # r => run'[s] = run[s] /\ status'[s] = status[s]
        /\ status'[r] = "running"
    BY <1>0, <1>2, <2>1, <2>2 DEF Dispatch, States
  <2>. QED
    BY <1>0, <1>2, <2>2, <2>3 DEF Started, Dispatch, At
<1>. QED
  BY <1>1, <1>2

LEMMA WorkedTypes ==
  ASSUME Worked
  PROVE  /\ Typed /\ Traced
         /\ MaxCommit \in Nat /\ head \in Nat /\ created \in Nat /\ live.run \in Run
         /\ live.run \in Nat /\ main \in Nat /\ main \in Commit /\ 0 \in Run
         /\ \A r \in Run : /\ At(r) \in Commit /\ At(r) \in Nat /\ r \in Nat
                           /\ At(r) <= head /\ status[r] \in State
                           /\ run[r].event \in Event
                           /\ status[r] # "waiting" <=> r <= created
                           /\ r \in PushRuns <=> run[r].event = "push"
         /\ \A j \in Job, r \in Run : job[j][r] \in State
         /\ \A r \in Run, j \in Job : job[j][r] # "waiting" => r <= created
         /\ PushRuns \subseteq Run
         /\ \A j \in {"changes", "image", "checks", "deploy", "promote", "release"} : j \in Job
<1>1. Typed /\ Traced
  BY DEF Worked, Traced
<1>2. /\ MaxCommit \in Nat /\ MaxManual \in Nat /\ head \in Commit /\ created \in Run
      /\ live \in [run : Run, whole : BOOLEAN] /\ main \in Commit
      /\ status \in [Run -> State] /\ job \in [Job -> [Run -> State]]
      /\ run \in [Run -> [event : Event, commit : Commit, attempt : 0..MaxAttempt]]
  BY <1>1, PipelineAssumption DEF Typed, TypeOK
<1>3. 0 \in Run /\ \A c \in Commit : c \in Nat
  BY <1>2
<1>4. \A r \in Run : r \in Nat
  BY <1>2
<1>5. \A r \in Run : At(r) \in Commit /\ At(r) <= head /\ status[r] \in State
                     /\ run[r].event \in Event
                     /\ (status[r] # "waiting" <=> r <= created)
  BY <1>1, <1>2 DEF Worked, Traced, Working, Followed, At
<1>6. \A r \in Run, j \in Job : job[j][r] # "waiting" => r <= created
  BY <1>1 DEF Traced, Followed, Follows
<1>7. PushRuns \subseteq Run /\ \A r \in Run : r \in PushRuns <=> run[r].event = "push"
  BY DEF PushRuns
<1>. QED
  BY <1>1, <1>2, <1>3, <1>4, <1>5, <1>6, <1>7 DEF Job

\* What a job is wanted for is settled once those before it are over.
LEMMA UpstreamJobs ==
  /\ \A j \in Job : Upstream[j] \subseteq Job /\ j \notin Upstream[j]
  /\ \A j \in Job : "changes" \in Upstream[j] \/ j = "changes"
  /\ \A j \in Job : \A k \in Upstream[j] : Upstream[k] \subseteq Upstream[j]
<1>1. /\ Upstream["changes"] = {}
      /\ Upstream["image"] = {"changes"}
      /\ Upstream["checks"] = {"changes", "image"}
      /\ Upstream["deploy"] = {"changes", "image", "checks"}
      /\ Upstream["promote"] = {"changes", "image", "checks"}
      /\ Upstream["release"] = {"changes", "image", "checks", "promote"}
  BY DEF Upstream, Job
<1>. QED
  BY <1>1 DEF Job

LEMMA WantedStays ==
  ASSUME NEW s \in Run, NEW k \in Job,
         \A x \in Upstream[k] : job'[x][s] = job[x][s],
         k = "changes" \/ plan'[s] = plan[s]
  PROVE  Wanted(s, k)' <=> Wanted(s, k)
<1>1. CASE k = "changes" \/ k = "checks"
  BY <1>1 DEF Wanted
<1>2. CASE k = "image"
  <2>1. "changes" \in Upstream[k]
    BY <1>2 DEF Upstream, Job
  <2>. QED
    BY <1>2, <2>1 DEF Wanted
<1>3. CASE k = "deploy"
  <2>1. "checks" \in Upstream[k]
    BY <1>3 DEF Upstream, Job
  <2>. QED
    BY <1>3, <2>1 DEF Wanted
<1>4. CASE k = "promote"
  <2>1. "checks" \in Upstream[k] /\ "image" \in Upstream[k]
    BY <1>4 DEF Upstream, Job
  <2>. QED
    BY <1>4, <2>1 DEF Wanted
<1>5. CASE k = "release"
  <2>1. "promote" \in Upstream[k]
    BY <1>5 DEF Upstream, Job
  <2>. QED
    BY <1>5, <2>1 DEF Wanted, Promoted
<1>. QED
  BY <1>1, <1>2, <1>3, <1>4, <1>5 DEF Job

\* A re-run resets the jobs it repeats, with those that follow them.
LEMMA Reruns ==
  ASSUME Worked, NEW r \in Run, NEW every \in BOOLEAN, Rerun(r, every)
  PROVE  /\ UNCHANGED <<git, created, plan, held, registry, released, live>>
         /\ r # 0 /\ r <= created /\ status[r] \in Over /\ PushRuns' = PushRuns
         /\ \A s \in Run : At(s)' = At(s) /\ run'[s].event = run[s].event
         /\ status'[r] \in {"queued", "running"}
         /\ \A s \in Run : s # r =>
              status'[s] = status[s] \/ (status[s] = "queued" /\ status'[s] = "cancelled")
         /\ \A s \in Run, j \in Job : job'[j][s] # "waiting" =>
              /\ job'[j][s] = job[j][s]
              /\ \A k \in Upstream[j] : job'[k][s] = job[k][s]
<1>0. /\ status \in States /\ job \in [Job -> States]
      /\ run \in [Run -> [event : Event, commit : Commit, attempt : 0..MaxAttempt]]
      /\ status[r] # "waiting" => r <= created
  BY WorkedTypes DEF Typed, TypeOK, States
<1>1. /\ UNCHANGED <<git, created, plan, held, registry, released, live>>
      /\ r # 0 /\ status[r] \in Over
      /\ run' = [run EXCEPT ![r].attempt = @ + 1]
      /\ status' = Join(status, Group(r), r)
  BY DEF Rerun
<1>2. \A s \in Run : At(s)' = At(s) /\ run'[s].event = run[s].event
  BY <1>0, <1>1 DEF At
<1>3. /\ status'[r] \in {"queued", "running"}
      /\ \A s \in Run : s # r =>
           status'[s] = status[s] \/ (status[s] = "queued" /\ status'[s] = "cancelled")
  BY <1>0, <1>1, Joins
<1>4. ASSUME NEW s \in Run, NEW j \in Job, job'[j][s] # "waiting"
      PROVE  /\ job'[j][s] = job[j][s]
             /\ \A k \in Upstream[j] : job'[k][s] = job[k][s]
  <2>1. \A k \in Job :
          job'[k] = [job[k] EXCEPT ![r] = IF every \/ Again(r, k) THEN "waiting" ELSE @]
    BY DEF Rerun
  <2>2. \A k \in Upstream[j] : k \in Job /\ Upstream[k] \cup {k} \subseteq Upstream[j]
    BY UpstreamJobs
  <2>3. CASE s # r
    <3>1. \A k \in Job : job'[k][s] = job[k][s]
      BY <1>0, <2>1, <2>3 DEF States
    <3>. QED
      BY <2>2, <3>1
  <2>4. CASE s = r
    <3>1. ~(every \/ Again(r, j))
      BY <1>0, <1>4, <2>1, <2>4 DEF States
    <3>2. \A k \in Upstream[j] : ~Again(r, k)
      BY <2>2, <3>1 DEF Again
    <3>3. \A k \in Job : ~(every \/ Again(r, k)) => job'[k][r] = job[k][r]
      BY <1>0, <2>1 DEF States
    <3>. QED
      BY <2>2, <2>4, <3>1, <3>2, <3>3
  <2>. QED
    BY <2>3, <2>4
<1>. QED
  BY <1>0, <1>1, <1>2, <1>3, <1>4 DEF PushRuns, Over

\* The steps there are.
LEMMA Steps ==
  ASSUME Worked, Next
  PROVE  \/ \E r \in Run : Started(r)
         \/ \E r \in Run : Finish(r)
         \/ \E r \in Run, j \in Job : Proceed(r) /\ ~Finish(r) /\ Moved(r, j)
         \/ \E r \in Run, every \in BOOLEAN : Rerun(r, every)
<1>1. Typed /\ Traced
  BY DEF Worked, Traced
<1>. QED
  BY <1>1, Starting, ProceedMoves DEF Next

LEMMA Kept ==
  ASSUME Worked, NEW r \in Run, Started(r)
  PROVE  \A s \in Run : s # r => At(s)' = At(s) /\ log'[At(s)] = log[At(s)]
<1>1. \A s \in Run : At(s) \in Commit /\ At(s) <= head
  BY WorkedTypes
<1>. QED
  BY <1>1 DEF Started, At

LEMMA UpheldStays ==
  ASSUME Upheld, UNCHANGED <<job, plan>>
  PROVE  Upheld'
<1>1. \A r \in Run, j \in Job : Wanted(r, j)' <=> Wanted(r, j)
  BY WantedStays
<1>. QED
  BY <1>1 DEF Upheld

\* A job moves only while its run does.
LEMMA MovedRuns ==
  ASSUME Worked, NEW r \in Run, NEW j \in Job, Moved(r, j)
  PROVE  status[r] = "running" /\ job[j][r] \notin Over /\ r # 0
<1>1. CASE Due(r, j)
  BY <1>1 DEF Due, Over, Worked, Working
<1>2. CASE job[j][r] \in {"running", "acting"}
  BY <1>2 DEF Over, Worked, Working
<1>. QED
  BY <1>1, <1>2 DEF Moved

\* What is over stays so, and nothing is undone.
LEMMA MovedOver ==
  ASSUME Worked, NEW r \in Run, NEW j \in Job, Moved(r, j)
  PROVE  /\ \A s \in Run, k \in Job : job[k][s] \in Over => job'[k][s] = job[k][s]
         /\ \A s \in Run, k \in Job : job'[k][s] = "waiting" => job[k][s] = "waiting"
         /\ \A s \in Run, k \in Job : (s # r \/ k # j) =>
              \/ job'[k][s] = job[k][s]
              \/ job[k][s] = "queued" /\ job'[k][s] \in {"running", "cancelled"}
         /\ \A s \in Run : job["changes"][s] \in Over => plan'[s] = plan[s]
<1>1. \A s \in Run, k \in Job : (s # r \/ k # j) =>
        \/ job'[k][s] = job[k][s]
        \/ job[k][s] = "queued" /\ job'[k][s] \in {"running", "cancelled"}
  BY DEF Moved
<1>2. job[j][r] \notin Over /\ job'[j][r] # "waiting"
  BY MovedRuns DEF Moved
<1>3. Changes(r) => job["changes"][r] \notin Over
  BY DEF Changes, Due, Over
<1>. QED
  BY <1>1, <1>2, <1>3 DEF Moved, Over

LEMMA UpheldMoved ==
  ASSUME Worked, NEW r \in Run, NEW j \in Job, Moved(r, j)
  PROVE  Upheld'
<1>0. Upheld /\ "changes" \in Job
  BY WorkedTypes DEF Worked
<1>1. ASSUME NEW s \in Run, NEW k \in Job, \A x \in Upstream[k] : job[x][s] \in Over
      PROVE  /\ \A x \in Upstream[k] : job'[x][s] \in Over
             /\ Wanted(s, k)' <=> Wanted(s, k)
  <2>1. \A x \in Upstream[k] : job'[x][s] = job[x][s]
    BY <1>1, MovedOver, UpstreamJobs
  <2>2. k = "changes" \/ plan'[s] = plan[s]
    BY <1>1, MovedOver, UpstreamJobs
  <2>. QED
    BY <1>1, <2>1, <2>2, WantedStays
<1>2. ASSUME NEW s \in Run, NEW k \in Job, job'[k][s] # "waiting"
      PROVE  /\ \A x \in Upstream[k] : job'[x][s] \in Over
             /\ job'[k][s] = "skipped" => s = 0 \/ ~Wanted(s, k)'
             /\ job'[k][s] # "skipped" => s = 0 \/ Wanted(s, k)'
  <2>1. CASE s = r /\ k = j
    <3>1. \A x \in Upstream[k] : job[x][s] \in Over
      BY <1>0, <2>1 DEF Moved, Due, Upheld
    <3>2. Due(r, j) \/ (job[j][r] \in {"running", "acting"} /\ (r = 0 \/ Wanted(r, j)))
      BY <1>0 DEF Moved, Upheld
    <3>3. job'[j][r] = "skipped" <=> Due(r, j) /\ ~Wanted(r, j)
      BY DEF Moved
    <3>. QED
      BY <1>1, <2>1, <3>1, <3>2, <3>3
  <2>2. CASE s # r \/ k # j
    <3>1. /\ job[k][s] # "waiting"
          /\ job'[k][s] = "skipped" <=> job[k][s] = "skipped"
      BY <1>2, <2>2, MovedOver
    <3>2. \A x \in Upstream[k] : job[x][s] \in Over
      BY <1>0, <3>1 DEF Upheld
    <3>. QED
      BY <1>0, <1>1, <3>1, <3>2 DEF Upheld
  <2>. QED
    BY <2>1, <2>2
<1>. QED
  BY <1>2 DEF Upheld

LEMMA WorkedInit == Init => Worked
<1>. SUFFICES ASSUME Init PROVE Worked
  OBVIOUS
<1>0. MaxCommit \in Nat /\ MaxManual \in Nat
  BY PipelineAssumption
<1>1. Traced
  BY TracedInit
<1>2. /\ created = 0 /\ 0 \in Run
      /\ \A r \in Run : status[r] = IF r = 0 THEN "success" ELSE "waiting"
      /\ run[0].event = "push"
      /\ \A r \in Run : r <= created <=> r = 0
  BY <1>0 DEF Init
<1>3. \A j \in Job, r \in Run : job[j][r] = IF r = 0 THEN "success" ELSE "waiting"
  BY DEF Init
<1>4. Working
  BY <1>2, <1>3 DEF Working
<1>5. Upheld
  BY <1>3, UpstreamJobs DEF Upheld, Over
<1>. QED
  BY <1>1, <1>4, <1>5 DEF Worked

LEMMA WorkedStarted ==
  ASSUME Worked, NEW r \in Run, Started(r)
  PROVE  /\ Working' /\ Upheld'
         /\ \A j \in Job : job'[j][r] = "waiting"
<1>1. r # 0 /\ \A j \in Job : job[j][r] = "waiting"
  BY WorkedTypes DEF Started
<1>2. \A s \in Run : s # r /\ s <= created' => s <= created
  BY WorkedTypes DEF Started
<1>3. Working'
  <2>1. /\ \A s \in Run : s # r => run'[s] = run[s] /\
             (status'[s] = status[s] \/ (status[s] = "queued" /\ status'[s] = "cancelled"))
        /\ run'[r].event \in {"push", "manual"} /\ status'[r] \in {"queued", "running"}
        /\ UNCHANGED job /\ 0 \in Run
    BY WorkedTypes DEF Started
  <2>2. run'[0].event = "push" /\ status'[0] = "success"
    BY <1>1, <2>1 DEF Worked, Working
  <2>3. \A s \in Run : status'[s] \notin {"acting", "skipped"}
    BY <2>1 DEF Worked, Working
  <2>4. \A s \in Run : s <= created' => run'[s].event # "none" /\ status'[s] # "waiting"
    BY <1>2, <2>1 DEF Worked, Working
  <2>5. \A s \in Run, j \in Job :
          job'[j][s] \in {"queued", "running", "acting"} => status'[s] = "running"
    BY <1>1, <2>1 DEF Worked, Working
  <2>. QED
    BY <2>2, <2>3, <2>4, <2>5 DEF Working
<1>4. Upheld'
  BY UpheldStays DEF Started, Worked
<1>. QED
  BY <1>1, <1>3, <1>4 DEF Started

LEMMA WorkedFinish ==
  ASSUME Worked, NEW r \in Run, Finish(r)
  PROVE  Working' /\ Upheld'
<1>1. /\ UNCHANGED <<created, run, plan, job>>
      /\ status[r] = "running" /\ status'[r] \in {"success", "failure"}
      /\ \A j \in Job : job[j][r] \in Over
      /\ \A s \in Run : s # r =>
           status'[s] = status[s] \/ (status[s] = "queued" /\ status'[s] = "running")
  BY WorkedTypes, Finishes
<1>2. Working'
  <2>1. run'[0].event = "push" /\ status'[0] = "success"
    BY <1>1, WorkedTypes DEF Worked, Working
  <2>2. /\ \A s \in Run : status'[s] \notin {"acting", "skipped"}
        /\ \A s \in Run : s <= created' => run'[s].event # "none" /\ status'[s] # "waiting"
    BY <1>1 DEF Worked, Working
  <2>3. \A s \in Run, j \in Job :
          job'[j][s] \in {"queued", "running", "acting"} => status'[s] = "running"
    BY <1>1 DEF Worked, Working, Over
  <2>. QED
    BY <2>1, <2>2, <2>3 DEF Working
<1>3. Upheld'
  BY <1>1, UpheldStays DEF Worked
<1>. QED
  BY <1>2, <1>3

LEMMA WorkedMoved ==
  ASSUME Worked, NEW r \in Run, NEW j \in Job, Moved(r, j)
  PROVE  Working' /\ Upheld'
<1>1. UNCHANGED <<created, run, status>> /\ status[r] = "running"
  BY MovedRuns DEF Moved
<1>2. \A s \in Run, k \in Job :
        job'[k][s] \in {"queued", "running", "acting"} => status[s] = "running"
  BY <1>1, MovedOver DEF Worked, Working
<1>3. Working'
  BY <1>1, <1>2 DEF Worked, Working
<1>. QED
  BY <1>3, UpheldMoved

LEMMA WorkedRerun ==
  ASSUME Worked, NEW r \in Run, NEW every \in BOOLEAN, Rerun(r, every)
  PROVE  Working' /\ Upheld'
<1>1. /\ UNCHANGED <<created, plan>> /\ r # 0 /\ status[r] \in Over
      /\ \A s \in Run : run'[s].event = run[s].event
      /\ status'[r] \in {"queued", "running"}
      /\ \A s \in Run : s # r =>
           status'[s] = status[s] \/ (status[s] = "queued" /\ status'[s] = "cancelled")
      /\ \A s \in Run, j \in Job : job'[j][s] # "waiting" =>
           /\ job'[j][s] = job[j][s]
           /\ \A k \in Upstream[j] : job'[k][s] = job[k][s]
  BY Reruns
<1>2. Working'
  <2>1. \A s \in Run, j \in Job :
          job'[j][s] \in {"queued", "running", "acting"} => status'[s] = "running"
    BY <1>1 DEF Worked, Working, Over
  <2>. QED
    BY <1>1, <2>1, WorkedTypes DEF Worked, Working
<1>3. ASSUME NEW s \in Run, NEW j \in Job, job'[j][s] # "waiting"
      PROVE  /\ \A k \in Upstream[j] : job'[k][s] \in Over
             /\ job'[j][s] = "skipped" => s = 0 \/ ~Wanted(s, j)'
             /\ job'[j][s] # "skipped" => s = 0 \/ Wanted(s, j)'
  <2>1. Wanted(s, j)' <=> Wanted(s, j)
    BY <1>1, <1>3, WantedStays
  <2>. QED
    BY <1>1, <1>3, <2>1 DEF Worked, Upheld
<1>. QED
  BY <1>2, <1>3 DEF Upheld

LEMMA WorkedStep == Worked /\ [Next]_vars => Worked'
<1>. SUFFICES ASSUME Worked, [Next]_vars PROVE Worked'
  OBVIOUS
<1>1. Traced'
  BY TracedStep DEF Worked
<1>2. CASE UNCHANGED vars
  <2>1. UNCHANGED <<job, plan, status, run, created>>
    BY <1>2 DEF vars
  <2>. QED
    BY <1>1, <2>1, UpheldStays DEF Worked, Working
<1>. QED
  BY <1>1, <1>2, Steps, WorkedStarted, WorkedFinish, WorkedMoved, WorkedRerun DEF Worked

(***************************************************************************)
(* What a run that passed did, and what the changes job of a push compares *)
(* with: the newest push that passed, which is behind it unless main is    *)
(* force-pushed.                                                           *)
(***************************************************************************)
LEMMA Passing ==
  ASSUME Worked, NEW r \in Run, Finish(r), status'[r] = "success"
  PROVE  /\ job["changes"][r] = "success"
         /\ job["deploy"][r] = "success" \/ ~plan[r].deploy
         /\ job["promote"][r] = "success" \/ ~plan[r].image
         /\ job["release"][r] = "success" \/ job["promote"][r] # "success" \/ ~plan[r].release
<1>1. r # 0 /\ \A j \in Job : job[j][r] \in {"success", "skipped"}
  BY Finishes DEF Worked, Traced, Working
<1>2. /\ \A j \in {"changes", "image", "checks", "deploy", "promote", "release"} : j \in Job
      /\ \A j \in Job : job[j][r] = "success" \/ ~Wanted(r, j)
  BY <1>1, WorkedTypes DEF Worked, Upheld
<1>3. job["changes"][r] = "success" /\ job["checks"][r] = "success"
  BY <1>2 DEF Wanted
<1>4. job["deploy"][r] = "success" \/ ~plan[r].deploy
  BY <1>2, <1>3 DEF Wanted
<1>5. job["promote"][r] = "success" \/ ~plan[r].image
  BY <1>2, <1>3 DEF Wanted
<1>6. job["release"][r] = "success" \/ job["promote"][r] # "success" \/ ~plan[r].release
  BY <1>2 DEF Wanted, Promoted
<1>. QED
  BY <1>3, <1>4, <1>5, <1>6

LEMMA Compares ==
  ASSUME Worked, NEW r \in Run, Changes(r)
  PROVE  /\ status[r] = "running" /\ job["changes"][r] = "waiting"
         /\ \/ plan'[r] = Asked(r, Base(At(r)))
            \/ Baseless = TRUE /\ plan'[r] = Asked(r, NoCommit)
            \/ plan'[r] = plan[r] /\ job'["changes"][r] = "failure"
<1>1. plan \in [Run -> Plan] /\ job \in [Job -> States] /\ "changes" \in Job
  BY WorkedTypes DEF Typed, TypeOK, States
<1>2. CASE UNCHANGED plan /\ Ended(r, "changes", "failure")
  BY <1>1, <1>2, EndedType DEF State, Over, Changes, Due
<1>3. CASE ~(UNCHANGED plan /\ Ended(r, "changes", "failure"))
  BY <1>1, <1>3, PipelineAssumption DEF Changes, Due, At
<1>. QED
  BY <1>2, <1>3

(***************************************************************************)
(* What the changes job of a push compares with: the newest push that      *)
(* passed, unless that one has the push behind it.  There is one at all    *)
(* times, since run 0 passed.                                              *)
(***************************************************************************)
Newest(p) ==
  /\ p \in PushRuns /\ status[p] = "success"
  /\ \A q \in PushRuns : status[q] = "success" => q <= p

\* Any runs have a newest: the one with the fewest runs after it.
LEMMA Latest ==
  ASSUME NEW S \in SUBSET Run, S # {}
  PROVE  \E p \in S : \A q \in S : q <= p
<1>. DEFINE After(q) == {x \in Run : q < x}
            Afters == {After(q) : q \in S}
<1>0. MaxCommit + MaxManual \in Nat
  BY PipelineAssumption
<1>1. IsFiniteSet(Run)
  BY <1>0, FS_Interval
<1>2. Afters \subseteq FiniteSubsetsOf(Run)
  <2>1. \A T \in SUBSET Run : IsFiniteSet(T)
    BY <1>1, FS_Subset
  <2>2. \A q \in S : After(q) \in SUBSET Run
    OBVIOUS
  <2>. QED
    BY <2>1, <2>2 DEF FiniteSubsetsOf
<1>3. Afters # {}
  OBVIOUS
<1>4. PICK A \in Afters : \A B \in Afters : <<B, A>> \notin StrictSubsetOrdering(Run)
  <2>. HIDE DEF Afters
  <2>. QED
    BY <1>2, <1>3, FS_StrictSubsetOrderingWellFounded, WFMin
<1>5. PICK p \in S : A = After(p)
  OBVIOUS
<1>6. ASSUME NEW q \in S, ~(q <= p)
      PROVE  FALSE
  <2>1. p \in Nat /\ q \in Nat /\ p < q /\ q \in Run
    BY <1>0, <1>6
  <2>2. \A x \in Run : x \in Nat
    BY <1>0
  <2>3. After(q) \subseteq After(p)
    BY <2>1, <2>2
  <2>4. q \in After(p) /\ q \notin After(q)
    BY <2>1
  <2>5. <<After(q), After(p)>> \in StrictSubsetOrdering(Run)
    BY <2>3, <2>4 DEF StrictSubsetOrdering
  <2>. QED
    BY <1>4, <1>5, <2>5
<1>. QED
  BY <1>6

LEMMA SomeNewest ==
  ASSUME Worked
  PROVE  \E p \in Run : Newest(p)
<1>. DEFINE passing == {q \in PushRuns : status[q] = "success"}
<1>1. passing \in SUBSET Run /\ passing # {}
  BY WorkedTypes DEF Worked, Working
<1>2. PICK p \in passing : \A q \in passing : q <= p
  <2>. HIDE DEF passing
  <2>. QED
    BY <1>1, Latest
<1>. QED
  BY <1>1, <1>2 DEF Newest

LEMMA BaseIs ==
  ASSUME Worked, Straight, NEW r \in Run, NEW p \in Run, Newest(p)
  PROVE  \/ At(r) < At(p) /\ Base(At(r)) = NoCommit
         \/ At(p) = At(r)
         \/ At(p) < At(r) /\ Base(At(r)) = At(p)
<1>0. /\ At(r) \in Commit /\ At(p) \in Commit /\ At(r) <= head
      /\ At(p) \in Nat /\ At(r) \in Nat /\ PushRuns \subseteq Run
  BY WorkedTypes
<1>1. Passed = {At(p)}
  <2>. DEFINE passing == {q \in PushRuns : status[q] = "success"}
  <2>1. p \in passing /\ \A q \in passing : q <= p
    BY DEF Newest
  <2>2. ASSUME NEW q \in passing, \A x \in passing : x <= q
        PROVE  q = p
    <3>1. q <= p /\ p <= q /\ q \in Nat /\ p \in Nat
      BY <2>1, <2>2, WorkedTypes, <1>0
    <3>. QED
      BY <3>1
  <2>3. {q \in passing : \A x \in passing : x <= q} = {p}
    BY <2>1, <2>2
  <2>4. Passed = {At(q) : q \in {y \in passing : \A x \in passing : x <= y}}
    BY DEF Passed, At
  <2>. QED
    BY <2>3, <2>4
<1>2. log[At(r)].past = 0..At(r)
  BY <1>0 DEF Straight
<1>3. CASE At(r) < At(p)
  <2>1. Passed \cap log[At(r)].past = {}
    BY <1>0, <1>1, <1>2, <1>3
  <2>. QED
    BY <1>3, <2>1 DEF Base
<1>4. CASE At(p) < At(r)
  <2>1. Passed \cap log[At(r)].past = {At(p)} /\ At(r) # At(p)
    BY <1>0, <1>1, <1>2, <1>4
  <2>. QED
    BY <1>4, <2>1 DEF Base
<1>. QED
  BY <1>0, <1>3, <1>4

(***************************************************************************)
(* Images.  Unless main is force-pushed or a push restores what an older   *)
(* commit held, what commits hold only changes to something new, so that   *)
(* two commits that hold the same agree with all those between.            *)
(***************************************************************************)
Rising ==
  \A b \in Commit : b <= head =>
    /\ log[b].stack <= b /\ log[b].image <= b
    /\ log[log[b].image].version = log[b].version
    /\ \A a \in Commit : a <= b =>
         /\ log[a].stack <= log[b].stack
         /\ log[a].image <= log[b].image
         /\ log[a].version <= log[b].version

LEMMA Between ==
  ASSUME Typed, Rising, NEW a \in Commit, NEW b \in Commit, NEW c \in Commit,
         a <= b, b <= c, c <= head
  PROVE  /\ log[a].stack = log[c].stack => log[b].stack = log[c].stack
         /\ log[a].image = log[c].image => log[b].image = log[c].image
<1>0. /\ a \in Nat /\ b \in Nat /\ c \in Nat /\ head \in Nat
      /\ \A x \in Commit : log[x].stack \in Nat /\ log[x].image \in Nat
  <2>1. MaxCommit \in Nat /\ log \in [Commit -> Entry] /\ head \in Commit
    BY PipelineAssumption DEF Typed, TypeOK
  <2>2. \A x \in Commit : log[x].stack \in Commit /\ log[x].image \in Commit
    BY <2>1 DEF Entry
  <2>3. \A x \in Commit : x \in Nat
    BY <2>1
  <2>. QED
    BY <2>1, <2>2, <2>3
<1>1. b <= head
  BY <1>0
<1>. QED
  BY <1>0, <1>1 DEF Rising

LEMMA RisingInit == Init => Rising
<1>. SUFFICES ASSUME Init PROVE Rising
  OBVIOUS
<1>1. /\ MaxCommit \in Nat /\ head = 0
      /\ \A c \in Commit : log[c].stack = 0 /\ log[c].image = 0 /\ log[c].version = 0
  BY PipelineAssumption DEF Init
<1>. QED
  BY <1>1 DEF Rising

LEMMA RisingPush ==
  ASSUME Rewriting = FALSE, Reverting = FALSE, Typed, Rising, Push
  PROVE  Rising'
<1>0. /\ MaxCommit \in Nat /\ head \in Commit /\ head \in Nat /\ log \in [Commit -> Entry]
      /\ head' = head + 1 /\ head + 1 \in Commit
      /\ \A c \in Commit : c \in Nat
  BY PipelineAssumption DEF Typed, TypeOK, Push
<1>. DEFINE new == head + 1
<1>1. \A c \in Commit : c <= head => log'[c] = log[c]
  BY <1>0 DEF Push
<1>a. PICK stack \in Stacks(head), image \in Images(head) :
        \E version \in Versions(head, image) :
          log'[new].stack = stack /\ log'[new].image = image /\ log'[new].version = version
  BY <1>0 DEF Push
<1>2. PICK version \in Versions(head, image) :
        log'[new].stack = stack /\ log'[new].image = image /\ log'[new].version = version
  BY <1>a
<1>3. stack \in {new, log[head].stack} /\ image \in {new, log[head].image}
  <2>1. Older(head) = {head}
    BY DEF Older
  <2>2. Stacks(head) = {new, log[head].stack}
    BY <2>1 DEF Stacks
  <2>3. Images(head) = {new, log[head].image}
    BY <2>1 DEF Images
  <2>. QED
    BY <2>2, <2>3
<1>4. \A c \in Commit : /\ log[c].stack \in Commit /\ log[c].stack \in Nat
                        /\ log[c].image \in Commit /\ log[c].image \in Nat
                        /\ log[c].version \in Commit /\ log[c].version \in Nat
  BY <1>0 DEF Entry
<1>5. /\ log[head].stack <= head /\ log[head].image <= head
      /\ log[log[head].image].version = log[head].version
      /\ \A a \in Commit : a <= head =>
           /\ log[a].stack <= log[head].stack
           /\ log[a].image <= log[head].image
           /\ log[a].version <= log[head].version
  BY <1>0 DEF Rising
<1>6. version \in Nat /\ log[head].version <= version
  <2>1. CASE image = new
    <3>1. version = log[head].version \/ version = log[head].version + 1
      BY <1>2, <2>1 DEF Versions
    <3>. QED
      BY <1>0, <1>4, <3>1
  <2>2. CASE image # new
    <3>1. version = log[log[head].image].version
      BY <1>2, <1>3, <2>2 DEF Versions
    <3>. QED
      BY <1>0, <1>4, <1>5, <3>1
  <2>. QED
    BY <2>1, <2>2
<1>7. log'[log'[new].image].version = log'[new].version
  <2>1. CASE image = new
    BY <1>2, <2>1
  <2>2. CASE image # new
    <3>1. image = log[head].image /\ version = log[image].version
      BY <1>2, <1>3, <2>2 DEF Versions
    <3>2. log'[image] = log[image]
      BY <1>0, <1>1, <1>4, <1>5, <3>1
    <3>. QED
      BY <1>2, <3>1, <3>2
  <2>. QED
    BY <2>1, <2>2
<1>8. /\ stack \in Nat /\ stack <= new /\ log[head].stack <= stack
      /\ image \in Nat /\ image <= new /\ log[head].image <= image
  BY <1>0, <1>3, <1>4, <1>5
<1>9. ASSUME NEW a \in Commit, a <= new
      PROVE  /\ log'[a].stack <= log'[new].stack
             /\ log'[a].image <= log'[new].image
             /\ log'[a].version <= log'[new].version
  <2>1. CASE a = new
    BY <1>2, <1>6, <1>8, <2>1
  <2>2. CASE a # new
    <3>1. a <= head /\ log'[a] = log[a]
      BY <1>0, <1>1, <1>9, <2>2
    <3>. QED
      BY <1>0, <1>2, <1>4, <1>5, <1>6, <1>8, <3>1
  <2>. QED
    BY <2>1, <2>2
<1>10. ASSUME NEW b \in Commit, b <= new
       PROVE  /\ log'[b].stack <= b /\ log'[b].image <= b
              /\ log'[log'[b].image].version = log'[b].version
              /\ \A a \in Commit : a <= b =>
                   /\ log'[a].stack <= log'[b].stack
                   /\ log'[a].image <= log'[b].image
                   /\ log'[a].version <= log'[b].version
  <2>1. CASE b = new
    BY <1>2, <1>7, <1>8, <1>9, <2>1
  <2>2. CASE b # new
    <3>1. b <= head /\ \A a \in Commit : a <= b => a <= head
      BY <1>0, <1>10, <2>2
    <3>2. log[b].image <= b /\ log[b].image <= head
      BY <1>0, <1>4, <3>1 DEF Rising
    <3>. QED
      BY <1>1, <1>4, <3>1, <3>2 DEF Rising
  <2>. QED
    BY <2>1, <2>2
<1>. QED
  BY <1>0, <1>10 DEF Rising

LEMMA RisingStep ==
  ASSUME Rewriting = FALSE, Reverting = FALSE, Typed, Rising, [Next]_vars
  PROVE  Rising'
<1>1. CASE UNCHANGED git
  BY <1>1 DEF Rising
<1>2. CASE Dispatch
  BY <1>1, <1>2 DEF Dispatch
<1>3. ASSUME NEW r \in Run, NEW every \in BOOLEAN, Rerun(r, every)
      PROVE  Rising'
  BY <1>1, <1>3 DEF Rerun
<1>4. ASSUME NEW r \in Run, Proceed(r)
      PROVE  Rising'
  BY <1>1, <1>4, Untouched
<1>5. CASE UNCHANGED vars
  BY <1>1, <1>5 DEF vars
<1>. QED
  BY <1>2, <1>3, <1>4, <1>5, RisingPush DEF Next

(***************************************************************************)
(* The main tag is at or past every commit that was promoted, and carries  *)
(* the image of every push that passed unless it is past it; so it does    *)
(* for a run that looked for changes and asks for no image, since what it  *)
(* was compared with had passed.  A re-run that finds a newer push has     *)
(* passed has no base, and asks for everything.                            *)
(***************************************************************************)
Covered(c) == log[main].image = log[c].image \/ c < main

Shown ==
  /\ \A r \in Run : job["promote"][r] = "success" => At(r) <= main
  /\ \A r \in Run : job["changes"][r] = "success" => plan[r].image \/ Covered(At(r))
  /\ \A r \in PushRuns : status[r] = "success" => Covered(At(r))

LEMMA ShownInit == Init => Shown
<1>. SUFFICES ASSUME Init PROVE Shown
  OBVIOUS
<1>1. main = 0 /\ PushRuns \subseteq Run /\ \A r \in Run : At(r) = 0
  BY DEF Init, At, PushRuns
<1>. QED
  BY <1>1 DEF Shown, Covered

\* A commit stays covered as main moves on, and covers those after it that hold
\* its image.
LEMMA CoveredStays ==
  ASSUME Worked, Rising, NEW c \in Commit, c <= head, Covered(c),
         main' \in Commit, main <= main', main' <= head, log' = log
  PROVE  Covered(c)'
<1>0. c \in Nat /\ main \in Nat /\ main \in Commit /\ head \in Nat /\ main' \in Nat /\ Typed
  BY WorkedTypes
<1>1. CASE c < main'
  BY <1>1 DEF Covered
<1>2. CASE main' <= c
  <2>1. log[main].image = log[c].image /\ main <= c
    BY <1>0, <1>2 DEF Covered
  <2>. QED
    BY <1>0, <1>2, <2>1, Between DEF Covered
<1>. QED
  BY <1>0, <1>1, <1>2

LEMMA CoveredSame ==
  ASSUME Worked, Rising, Holding, NEW b \in Commit, NEW c \in Commit, b <= c, c <= head,
         log[b].image = log[c].image, Covered(b)
  PROVE  Covered(c)
<1>0. /\ b \in Nat /\ c \in Nat /\ main \in Nat /\ main \in Commit /\ head \in Nat /\ Typed
      /\ main <= head
  BY WorkedTypes DEF Holding
<1>1. CASE b < main /\ main <= c
  BY <1>0, <1>1, Between DEF Covered
<1>. QED
  BY <1>0, <1>1 DEF Covered

LEMMA ShownChanges ==
  ASSUME Worked, Holding, Straight, Rising, Shown, NEW r \in Run, Changes(r),
         job'["changes"][r] = "success", ~plan'[r].image
  PROVE  Covered(At(r))
<1>0. At(r) \in Commit /\ At(r) <= head /\ MaxCommit \in Nat
  BY WorkedTypes
<1>1. PICK p \in Run : Newest(p)
  BY SomeNewest
<1>2. Covered(At(p)) /\ At(p) \in Commit /\ At(p) \in Nat /\ At(r) \in Nat
  BY <1>1, WorkedTypes DEF Shown, Newest
<1>3. \/ plan'[r] = Asked(r, Base(At(r)))
      \/ plan'[r] = Asked(r, NoCommit)
  BY Compares
<1>4. Asked(r, NoCommit).image
  BY DEF Asked
<1>5. Base(At(r)) # NoCommit /\ log[Base(At(r))].image = log[At(r)].image
  <2>1. ~Asked(r, Base(At(r))).image
    BY <1>3, <1>4
  <2>. QED
    BY <2>1 DEF Asked, At
<1>6. CASE At(p) = At(r)
  BY <1>2, <1>6
<1>7. CASE At(p) < At(r) /\ Base(At(r)) = At(p)
  BY <1>0, <1>2, <1>5, <1>7, CoveredSame
<1>. QED
  BY <1>1, <1>5, <1>6, <1>7, BaseIs

LEMMA Promotes ==
  ASSUME Worked, Holding, Straight, NEW r \in Run, PromoteTag(r)
  PROVE  /\ main' = main \/ main' = At(r)
         /\ main <= main' /\ At(r) <= main'
<1>0. /\ main \in Commit /\ main \in Nat /\ head \in Nat /\ At(r) \in Commit /\ At(r) \in Nat
      /\ At(r) <= head /\ main <= head /\ MaxCommit \in Nat /\ head \in Commit
  BY WorkedTypes DEF Holding, Typed, TypeOK
<1>1. held[r] = main
  BY DEF PromoteTag, Holding
<1>2. log[head].past = 0..head /\ log[main].past = 0..main /\ log[At(r)].past = 0..At(r)
  BY <1>0 DEF Straight
<1>3. Gone(main) = {FALSE}
  BY <1>0, <1>2 DEF Gone
<1>4. main' = IF Moves(At(r), main) THEN At(r) ELSE main
  BY <1>1, <1>3 DEF PromoteTag, At
<1>5. Moves(At(r), main) <=> main <= At(r)
  BY <1>0, <1>2 DEF Moves
<1>. QED
  BY <1>0, <1>4, <1>5

LEMMA ShownMoved ==
  ASSUME Worked, Holding, Straight, Rising, Shown,
         NEW x \in Run, NEW j \in Job, Proceed(x), ~Finish(x), Moved(x, j)
  PROVE  Shown'
<1>0. /\ Typed /\ "promote" \in Job /\ "changes" \in Job
      /\ UNCHANGED <<git, run, status>> /\ PushRuns' = PushRuns /\ PushRuns \subseteq Run
      /\ \A s \in Run : /\ At(s)' = At(s)
                        /\ At(s) \in Commit /\ At(s) \in Nat /\ At(s) <= head
      /\ main \in Nat /\ main \in Commit /\ head \in Nat
  BY WorkedTypes DEF Moved, PushRuns, At
<1>1. main' = main \/ (PromoteTag(x) /\ main' = At(x))
  BY Untouched, Promotes
<1>2. main <= main' /\ main' \in Nat /\ main' <= head /\ main' \in Commit
  BY <1>0, <1>1, Promotes DEF Holding
<1>3. \A r \in Run : Covered(At(r)) => Covered(At(r))'
  BY <1>0, <1>2, CoveredStays
<1>4. ASSUME NEW r \in Run, job'["promote"][r] = "success"
      PROVE  At(r) <= main'
  <2>1. CASE job["promote"][r] = "success"
    BY <1>0, <1>2, <2>1 DEF Shown
  <2>2. CASE job["promote"][r] # "success"
    <3>1. r = x
      BY <1>0, <1>4, <2>2, MovedOver
    <3>. QED
      BY <1>0, <1>4, <2>2, <3>1, Brought, Promotes
  <2>. QED
    BY <2>1, <2>2
<1>5. ASSUME NEW r \in Run, job'["changes"][r] = "success"
      PROVE  plan'[r].image \/ Covered(At(r))'
  <2>1. CASE job["changes"][r] = "success"
    BY <1>0, <1>3, <2>1, MovedOver DEF Shown, Over
  <2>2. CASE job["changes"][r] # "success"
    <3>1. r = x
      BY <1>0, <1>5, <2>2, MovedOver
    <3>2. Changes(x)
      BY <1>0, <1>5, <2>2, <3>1, Brought
    <3>. QED
      BY <1>3, <1>5, <3>1, <3>2, ShownChanges
  <2>. QED
    BY <2>1, <2>2
<1>6. ASSUME NEW r \in PushRuns, status[r] = "success"
      PROVE  Covered(At(r))'
  BY <1>0, <1>3, <1>6 DEF Shown
<1>. QED
  BY <1>0, <1>4, <1>5, <1>6 DEF Shown

LEMMA ShownFinish ==
  ASSUME Worked, Shown, NEW x \in Run, Finish(x)
  PROVE  Shown'
<1>0. /\ UNCHANGED <<git, run, plan, job, main>> /\ PushRuns' = PushRuns
      /\ \A s \in Run : s # x /\ status'[s] = "success" => status[s] = "success"
      /\ \A s \in Run : /\ At(s)' = At(s) /\ (Covered(At(s))' <=> Covered(At(s)))
                        /\ At(s) \in Nat
      /\ main \in Nat /\ PushRuns \subseteq Run
  BY WorkedTypes, Finishes DEF At, PushRuns, Covered
<1>1. status'[x] = "success" => Covered(At(x))
  <2>1. SUFFICES ASSUME status'[x] = "success" PROVE Covered(At(x))
    OBVIOUS
  <2>2. job["changes"][x] = "success" /\ (job["promote"][x] = "success" \/ ~plan[x].image)
    BY <2>1, Passing
  <2>3. At(x) <= main => Covered(At(x))
    BY <1>0 DEF Covered
  <2>. QED
    BY <2>2, <2>3 DEF Shown
<1>. QED
  BY <1>0, <1>1 DEF Shown

LEMMA ShownRerun ==
  ASSUME Worked, Shown, NEW x \in Run, NEW every \in BOOLEAN, Rerun(x, every)
  PROVE  Shown'
<1>1. /\ UNCHANGED <<git, plan, main>> /\ PushRuns' = PushRuns /\ PushRuns \subseteq Run
      /\ \A s \in Run : /\ At(s)' = At(s)
                        /\ status'[s] = "success" => status[s] = "success"
      /\ \A s \in Run, j \in Job : job'[j][s] = "success" => job[j][s] = "success"
      /\ "promote" \in Job /\ "changes" \in Job
  BY Reruns, WorkedTypes
<1>2. \A s \in Run : Covered(At(s))' <=> Covered(At(s))
  BY <1>1 DEF Covered
<1>. QED
  BY <1>1, <1>2 DEF Shown

LEMMA ShownStarted ==
  ASSUME Worked, Holding, Shown, NEW x \in Run, Started(x)
  PROVE  Shown'
<1>1. /\ UNCHANGED <<plan, job, main>> /\ PushRuns' \subseteq Run
      /\ log'[main] = log[main]
      /\ \A s \in Run : s # x => /\ At(s)' = At(s) /\ log'[At(s)] = log[At(s)]
                                 /\ s \in PushRuns' <=> s \in PushRuns
      /\ \A s \in Run : status'[s] = "success" => s # x /\ status[s] = "success"
  BY Kept, WorkedTypes DEF Started, Holding, PushRuns
<1>2. job["promote"][x] # "success" /\ job["changes"][x] # "success"
  BY <1>1, WorkedStarted DEF Job
<1>3. \A s \in Run : s # x => (Covered(At(s))' <=> Covered(At(s)))
  BY <1>1 DEF Covered
<1>. QED
  BY <1>1, <1>2, <1>3 DEF Shown

LEMMA ShownStep ==
  ASSUME Worked, Holding, Straight, Rising, Shown, [Next]_vars
  PROVE  Shown'
<1>1. CASE UNCHANGED vars
  BY <1>1 DEF vars, Shown, Covered, PushRuns, At
<1>. QED
  BY <1>1, Steps, ShownStarted, ShownFinish, ShownMoved, ShownRerun

\* Unless main is force-pushed or a push restores what an older commit held:
\* once the run of main's head has passed, main and latest carry the image it
\* holds, however many runs before it failed or were superseded, whichever are
\* re-run, whether or not they found a base, and whatever is started by hand.
THEOREM ImagesReachHead ==
  Rewriting = FALSE /\ Reverting = FALSE => (Spec => []ImageDelivered)
<1>. SUFFICES ASSUME Rewriting = FALSE, Reverting = FALSE
              PROVE  Spec => []ImageDelivered
  OBVIOUS
<1>. DEFINE Inv == Worked /\ Holding /\ Straight /\ Rising /\ Shown
<1>1. Init => Inv
  BY WorkedInit, HoldingInit, StraightInit, RisingInit, ShownInit
<1>2. Inv /\ [Next]_vars => Inv'
  <2>1. Inv => Typed /\ Traced
    BY DEF Worked, Traced
  <2>. QED
    BY <2>1, WorkedStep, HoldingStep, StraightStep, RisingStep, ShownStep
<1>3. Inv => ImageDelivered
  <2>1. SUFFICES ASSUME Inv, HeadPassed PROVE ImageIsHeads
    BY DEF ImageDelivered
  <2>2. Covered(head)
    BY <2>1 DEF HeadPassed, Shown, At
  <2>3. main \in Nat /\ head \in Nat /\ main <= head
    BY <2>1, WorkedTypes DEF Holding
  <2>. QED
    BY <2>2, <2>3 DEF Covered, ImageIsHeads
<1>. QED
  BY <1>1, <1>2, <1>3, PTL DEF Spec

(***************************************************************************)
(* One attempt.  When nothing is re-run, the runs of pushes start in the   *)
(* order of their commits: one runs, the newest waits, and those that      *)
(* passed are older than the one that runs.                                *)
(***************************************************************************)
Ordered ==
  /\ \A r \in Run : r > created => run[r].event = "none"
  /\ \A r \in Run : r <= created => run[r].attempt = 1
  /\ \A r, s \in PushRuns : r < s => At(r) < At(s)
  /\ live.run <= created

Queued ==
  /\ \A r, s \in PushRuns : status[r] = "running" /\ status[s] = "running" => r = s
  /\ \A r, s \in PushRuns : status[r] = "queued" => s <= r
  /\ \A r, s \in PushRuns : status[r] = "running" /\ status[s] = "success" => s < r

Begun ==
  \A r \in Run, j \in Job :
    status[r] \in {"waiting", "queued", "cancelled"} => job[j][r] = "waiting"

Lined == Ordered /\ Queued /\ Begun

\* The newest run that passed stays until another passes, which is newer.
LEMMA NewestStarted ==
  ASSUME Worked, Lined, NEW r \in Run, Started(r), NEW p \in Run
  PROVE  /\ Newest(p)' <=> Newest(p)
         /\ Newest(p) => p # r /\ At(p)' = At(p)
<1>1. \A s \in Run : s # r => /\ s \in PushRuns' <=> s \in PushRuns
                              /\ status'[s] = "success" <=> status[s] = "success"
  BY DEF Started, PushRuns
<1>2. status'[r] # "success" /\ status[r] # "success"
  <2>1. r > created
    BY WorkedTypes DEF Started
  <2>2. status[r] = "waiting"
    BY <2>1, WorkedTypes
  <2>. QED
    BY <2>2 DEF Started
<1>3. PushRuns \subseteq Run /\ PushRuns' \subseteq Run
  BY DEF PushRuns
<1>. QED
  BY <1>1, <1>2, <1>3 DEF Newest, Started, At

LEMMA NewestFinish ==
  ASSUME Worked, Lined, NEW r \in Run, Finish(r), NEW p \in Run
  PROVE  IF r \in PushRuns /\ status'[r] = "success"
         THEN Newest(p)' <=> p = r
         ELSE Newest(p)' <=> Newest(p)
<1>0. Typed /\ Queued
  BY WorkedTypes DEF Lined
<1>1. /\ PushRuns' = PushRuns /\ PushRuns \subseteq Run
      /\ status[r] = "running"
      /\ \A s \in Run : s # r => (status'[s] = "success" <=> status[s] = "success")
  BY <1>0, Finishes DEF PushRuns
<1>2. CASE r \in PushRuns /\ status'[r] = "success"
  <2>1. \A s \in PushRuns : status'[s] = "success" => s <= r
    <3>1. \A s \in PushRuns : s # r /\ status'[s] = "success" => s < r
      BY <1>0, <1>1, <1>2 DEF Queued
    <3>. QED
      BY <3>1, WorkedTypes
  <2>2. \A s \in PushRuns : s <= r /\ r <= s => s = r
    BY WorkedTypes
  <2>. QED
    BY <1>1, <1>2, <2>1, <2>2 DEF Newest
<1>3. CASE ~(r \in PushRuns /\ status'[r] = "success")
  BY <1>1, <1>3 DEF Newest
<1>. QED
  BY <1>2, <1>3

LEMMA OrderedStarted ==
  ASSUME Worked, Lined, NEW r \in Run, Started(r)
  PROVE  Ordered' /\ Queued'
<1>1. /\ r = created + 1 /\ created' = r /\ live' = live
      /\ run'[r].event \in {"push", "manual"} /\ run'[r].attempt = 1
      /\ \A s \in Run : s # r => run'[s] = run[s] /\ At(s)' = At(s)
      /\ status'[r] \in {"queued", "running"}
      /\ \A s \in Run : s # r =>
           status'[s] = status[s] \/ (status[s] = "queued" /\ status'[s] = "cancelled")
      /\ run'[r].event = "push" =>
           /\ At(r)' = head + 1
           /\ \A s \in PushRuns : s # r => status'[s] # "queued"
           /\ status'[r] = "running" => \A s \in PushRuns : s # r => status[s] # "running"
  BY DEF Started, At
<1>2. /\ created \in Nat /\ head \in Nat /\ r > created /\ 0 \in Run /\ 0 # r
      /\ \A s \in Run : s \in Nat /\ (s # r => (s > created <=> s > r)
                                            /\ (s <= created <=> s <= r))
  BY <1>1, WorkedTypes
<1>3. /\ r \notin PushRuns /\ PushRuns \subseteq Run /\ PushRuns' \subseteq Run
      /\ \A s \in Run : s # r => (s \in PushRuns' <=> s \in PushRuns)
      /\ r \in PushRuns' <=> run'[r].event = "push"
  BY <1>1, <1>2 DEF PushRuns, Lined, Ordered
<1>4. \A s \in PushRuns : s < r /\ s # r
  BY <1>1, <1>2, <1>3 DEF Lined, Ordered, PushRuns
<1>5. ASSUME NEW s \in PushRuns', NEW u \in PushRuns', s < u
      PROVE  At(s)' < At(u)'
  <2>1. s \in Run /\ u \in Run /\ s # r
    BY <1>2, <1>3, <1>4, <1>5
  <2>2. At(s) \in Nat /\ At(s) <= head /\ s \in PushRuns
    BY <1>3, <2>1, WorkedTypes
  <2>3. CASE u = r
    <3>1. At(u)' = head + 1
      BY <1>1, <1>3, <2>3
    <3>2. At(s)' = At(s)
      BY <1>1, <2>1
    <3>. QED
      BY <1>2, <2>2, <3>1, <3>2
  <2>4. CASE u # r
    BY <1>1, <1>3, <1>5, <2>1, <2>4 DEF Lined, Ordered
  <2>. QED
    BY <2>3, <2>4
<1>6. Ordered'
  <2>1. \A s \in Run : s > created' => run'[s].event = "none"
    BY <1>1, <1>2 DEF Lined, Ordered
  <2>2. \A s \in Run : s <= created' => run'[s].attempt = 1
    BY <1>1, <1>2 DEF Lined, Ordered
  <2>3. live'.run <= created'
    BY <1>1, <1>2, WorkedTypes DEF Lined, Ordered
  <2>. QED
    BY <1>5, <2>1, <2>2, <2>3 DEF Ordered
<1>7. Queued'
  <2>1. \A s \in Run : s # r => /\ status'[s] = "running" <=> status[s] = "running"
                                /\ status'[s] = "queued" => status[s] = "queued"
                                /\ status'[s] = "success" => status[s] = "success"
    BY <1>1
  <2>2. ASSUME NEW s \in PushRuns', NEW u \in PushRuns',
               status'[s] = "running", status'[u] = "running"
        PROVE  s = u
    BY <1>1, <1>3, <2>1, <2>2 DEF Lined, Queued
  <2>3. ASSUME NEW s \in PushRuns', NEW u \in PushRuns', status'[s] = "queued"
        PROVE  u <= s
    BY <1>1, <1>2, <1>3, <1>4, <2>1, <2>3 DEF Lined, Queued
  <2>4. ASSUME NEW s \in PushRuns', NEW u \in PushRuns',
               status'[s] = "running", status'[u] = "success"
        PROVE  u < s
    BY <1>1, <1>2, <1>3, <1>4, <2>1, <2>4 DEF Lined, Queued
  <2>. QED
    BY <2>2, <2>3, <2>4 DEF Queued
<1>. QED
  BY <1>6, <1>7

LEMMA OrderedFinish ==
  ASSUME Worked, Lined, NEW r \in Run, Finish(r)
  PROVE  Ordered' /\ Queued'
<1>0. Typed /\ Ordered /\ Queued
  BY WorkedTypes DEF Lined
<1>1. /\ UNCHANGED <<created, run, live>> /\ status[r] = "running"
      /\ PushRuns' = PushRuns /\ PushRuns \subseteq Run
      /\ \A s \in Run : At(s)' = At(s)
      /\ status'[r] \in {"success", "failure"}
      /\ \A s \in Run : s # r /\ (s \notin Group(r) \/ status[s] # "queued")
           => status'[s] = status[s]
      /\ \A s \in Run : s # r /\ s \in Group(r) /\ status[s] = "queued"
           => status'[s] = "running"
  BY <1>0, Finishes DEF PushRuns, At
<1>2. \A s \in Run : s # r =>
        \/ status'[s] = status[s]
        \/ s \in PushRuns /\ r \in PushRuns /\ status[s] = "queued" /\ status'[s] = "running"
  BY <1>1 DEF Group, PushRuns
<1>3. \A s \in PushRuns : s # r /\ r \in PushRuns => status[s] # "running"
  BY <1>0, <1>1 DEF Queued
<1>4. Ordered'
  <2>1. \A s \in PushRuns, u \in PushRuns : s < u => At(s)' < At(u)'
    BY <1>0, <1>1 DEF Ordered, PushRuns
  <2>. QED
    BY <1>0, <1>1, <2>1 DEF Ordered
<1>5. ASSUME NEW s \in PushRuns, NEW u \in PushRuns,
             status'[s] = "running", status'[u] = "running"
      PROVE  s = u
  <2>1. s # r /\ u # r
    BY <1>1, <1>5
  <2>2. CASE r \in PushRuns
    <3>1. status[s] = "queued" /\ status[u] = "queued"
      BY <1>1, <1>2, <1>3, <1>5, <2>1, <2>2
    <3>2. s <= u /\ u <= s /\ s \in Nat /\ u \in Nat
      BY <1>0, <3>1, WorkedTypes DEF Queued
    <3>. QED
      BY <3>2
  <2>3. CASE r \notin PushRuns
    BY <1>0, <1>1, <1>2, <1>5, <2>1, <2>3 DEF Queued
  <2>. QED
    BY <2>2, <2>3
<1>6. ASSUME NEW s \in PushRuns, NEW u \in PushRuns, status'[s] = "queued"
      PROVE  u <= s
  BY <1>0, <1>1, <1>2, <1>6 DEF Queued
<1>7. ASSUME NEW s \in PushRuns, NEW u \in PushRuns,
             status'[s] = "running", status'[u] = "success"
      PROVE  u < s
  <2>1. s # r /\ u # s /\ s \in Nat /\ u \in Nat
    BY <1>1, <1>7, WorkedTypes
  <2>2. CASE status[s] = "queued"
    BY <1>0, <2>1, <2>2 DEF Queued
  <2>3. CASE status[s] # "queued"
    <3>1. status[s] = "running" /\ u # r
      BY <1>1, <1>2, <1>3, <1>7, <2>1, <2>3
    <3>2. status[u] = "success"
      BY <1>1, <1>2, <1>7, <3>1
    <3>. QED
      BY <1>0, <3>1, <3>2 DEF Queued
  <2>. QED
    BY <2>2, <2>3
<1>. QED
  BY <1>1, <1>4, <1>5, <1>6, <1>7 DEF Queued

LEMMA OrderedMoved ==
  ASSUME Worked, Lined, NEW r \in Run, NEW j \in Job, Proceed(r), Moved(r, j)
  PROVE  /\ Ordered' /\ Queued'
         /\ PushRuns' = PushRuns
         /\ \A s \in Run : At(s)' = At(s) /\ (Newest(s)' <=> Newest(s))
<1>1. /\ UNCHANGED <<git, created, run, status>> /\ PushRuns' = PushRuns
      /\ \A s \in Run : At(s)' = At(s) /\ (Newest(s)' <=> Newest(s))
  BY DEF Moved, PushRuns, Newest, At
<1>2. live' = live \/ live'.run = r
  <2>1. DeployUp(r) => live' = live \/ live'.run = r
    BY DEF DeployUp
  <2>. QED
    BY <2>1 DEF Moved
<1>3. r <= created
  BY MovedRuns, WorkedTypes
<1>4. Ordered'
  <2>1. live'.run <= created'
    BY <1>1, <1>2, <1>3 DEF Lined, Ordered
  <2>2. \A s \in PushRuns, u \in PushRuns : s < u => At(s)' < At(u)'
    BY <1>1 DEF Lined, Ordered, PushRuns
  <2>. QED
    BY <1>1, <2>1, <2>2 DEF Lined, Ordered
<1>5. Queued'
  BY <1>1 DEF Lined, Queued
<1>. QED
  BY <1>1, <1>4, <1>5

LEMMA BegunStarted ==
  ASSUME Worked, Lined, NEW r \in Run, Started(r)
  PROVE  Begun'
<1>1. \A j \in Job : job'[j][r] = "waiting"
  BY WorkedStarted
<1>. QED
  BY <1>1 DEF Started, Lined, Begun

LEMMA BegunFinish ==
  ASSUME Worked, Lined, NEW r \in Run, Finish(r)
  PROVE  Begun'
<1>1. /\ job' = job /\ status'[r] \in {"success", "failure"}
      /\ \A s \in Run : s # r => status'[s] \in {status[s], "running"}
  BY WorkedTypes, Finishes
<1>. QED
  BY <1>1 DEF Lined, Begun

LEMMA BegunMoved ==
  ASSUME Worked, Lined, NEW r \in Run, NEW j \in Job, Moved(r, j)
  PROVE  Begun'
<1>1. status' = status /\ status[r] = "running"
  BY MovedRuns DEF Moved
<1>2. ASSUME NEW s \in Run, NEW k \in Job, s # r
      PROVE  status[s] \in {"waiting", "queued", "cancelled"} => job'[k][s] = "waiting"
  BY <1>2, MovedOver DEF Lined, Begun
<1>. QED
  BY <1>1, <1>2 DEF Begun

LEMMA LinedInit == Init => Lined
<1>. SUFFICES ASSUME Init PROVE Lined
  OBVIOUS
<1>0. MaxCommit \in Nat /\ MaxManual \in Nat
  BY PipelineAssumption
<1>1. /\ created = 0 /\ live.run = 0
      /\ \A r \in Run : status[r] = IF r = 0 THEN "success" ELSE "waiting"
      /\ \A r \in Run : run[r].event = IF r = 0 THEN "push" ELSE "none"
      /\ run[0].attempt = 1
      /\ \A r \in Run : r > created <=> r # 0
      /\ \A r \in Run : r <= created <=> r = 0
  BY <1>0 DEF Init
<1>2. PushRuns = {0}
  BY <1>0, <1>1 DEF PushRuns
<1>3. Ordered /\ Queued
  BY <1>0, <1>1, <1>2 DEF Ordered, Queued
<1>4. \A j \in Job, r \in Run : job[j][r] = IF r = 0 THEN "success" ELSE "waiting"
  BY DEF Init
<1>5. Begun
  BY <1>1, <1>4 DEF Begun
<1>. QED
  BY <1>3, <1>5 DEF Lined

LEMMA OneAttempt ==
  ASSUME MaxAttempt = 1, Worked, Lined, NEW r \in Run, NEW every \in BOOLEAN
  PROVE  ~Rerun(r, every)
<1>1. SUFFICES ASSUME status[r] \in Over PROVE run[r].attempt = 1
  BY DEF Rerun
<1>2. r <= created
  BY <1>1, WorkedTypes DEF Over
<1>. QED
  BY <1>2 DEF Lined, Ordered

LEMMA LinedStep ==
  ASSUME MaxAttempt = 1, Worked, Lined, [Next]_vars
  PROVE  Lined'
<1>1. ASSUME NEW r \in Run, Started(r)
      PROVE  Lined'
  BY <1>1, OrderedStarted, BegunStarted DEF Lined
<1>2. ASSUME NEW r \in Run, Finish(r)
      PROVE  Lined'
  BY <1>2, OrderedFinish, BegunFinish DEF Lined
<1>3. ASSUME NEW r \in Run, NEW j \in Job, Proceed(r), Moved(r, j)
      PROVE  Lined'
  BY <1>3, OrderedMoved, BegunMoved DEF Lined
<1>4. CASE UNCHANGED vars
  BY <1>4 DEF vars, Lined, Ordered, Queued, Begun, PushRuns, At
<1>. QED
  BY <1>1, <1>2, <1>3, <1>4, Steps, OneAttempt

\* The one push that runs follows the newest that passed.
LEMMA Behind ==
  ASSUME Worked, Lined, NEW r \in PushRuns, status[r] = "running", NEW p \in Run, Newest(p)
  PROVE  At(p) < At(r)
  BY DEF Lined, Queued, Ordered, Newest

\* A run of main's head that passed is the newest push that did.
LEMMA HeadIsNewest ==
  ASSUME Worked, Lined, HeadPassed
  PROVE  \E p \in Run : Newest(p) /\ At(p) = head
<1>1. PICK r \in PushRuns : At(r) = head /\ status[r] = "success"
  BY DEF HeadPassed, At
<1>2. PICK p \in PushRuns : Newest(p)
  BY SomeNewest DEF Newest
<1>3. r \in Run /\ p \in Run /\ r <= p
  BY <1>1, <1>2 DEF Newest, PushRuns
<1>4. At(p) <= head /\ At(r) \in Nat /\ At(p) \in Nat /\ r \in Nat /\ p \in Nat
  BY <1>3, WorkedTypes
<1>5. r < p => At(r) < At(p)
  BY <1>1, <1>2 DEF Lined, Ordered
<1>. QED
  BY <1>1, <1>2, <1>3, <1>4, <1>5

(***************************************************************************)
(* Releases.  A run that looked for changes either asks for a release or   *)
(* its version is out; so the version of a push that passed is, and what a *)
(* later one is compared with.  A re-run may find that a newer push passed *)
(* and have no base, and then is compared with its parent, which tells     *)
(* nothing: what is out may be the version of that newer push.  As long as *)
(* versions never go back this is as good, since no later push will want   *)
(* the older one.                                                          *)
(***************************************************************************)
Out(v) ==
  \/ released[v] # NoCommit
  \/ Reverting = FALSE /\ \E w \in Commit : v < w /\ released[w] # NoCommit

Versioned ==
  /\ \A r \in Run : plan[r].release => plan[r].image
  /\ \A r \in Run : job["changes"][r] = "success" => plan[r].release \/ Out(Version(r))
  /\ \A r \in Run : job["release"][r] = "success" => Out(Version(r))
  /\ \A r \in PushRuns : status[r] = "success" => Out(Version(r))

LEMMA VersionedInit == Init => Versioned
<1>. SUFFICES ASSUME Init PROVE Versioned
  OBVIOUS
<1>0. MaxCommit \in Nat /\ MaxManual \in Nat
  BY PipelineAssumption
<1>1. /\ \A r \in Run : run[r].commit = 0 /\ ~plan[r].release
      /\ 0 \in Commit /\ log[0].version = 0 /\ released[0] = 0
  BY <1>0 DEF Init
<1>2. \A r \in Run : Out(Version(r))
  BY <1>0, <1>1 DEF Version, Out
<1>. QED
  BY <1>1, <1>2 DEF Versioned, PushRuns

\* What the base tells of a run that asks for no release.
LEMMA VersionedChanges ==
  ASSUME Baseless = FALSE, Worked, Straight, Versioned,
         (MaxAttempt = 1 /\ Lined) \/ (Reverting = FALSE /\ Rising),
         NEW r \in Run, Changes(r), job'["changes"][r] = "success", ~plan'[r].release
  PROVE  Out(Version(r))
<1>0. /\ MaxCommit \in Nat /\ head \in Nat
      /\ \A s \in Run : /\ At(s) \in Commit /\ At(s) \in Nat /\ At(s) <= head
                        /\ Version(s) \in Commit /\ Version(s) \in Nat
      /\ \A v \in Commit : v \in Nat
  <2>1. MaxCommit \in Nat /\ log \in [Commit -> Entry] /\ \A s \in Run : At(s) \in Commit
    BY WorkedTypes DEF Typed, TypeOK
  <2>2. \A v \in Commit : v \in Nat
    BY <2>1
  <2>3. \A s \in Run : Version(s) \in Commit
    BY <2>1 DEF Version, At, Entry
  <2>. QED
    BY <2>1, <2>2, <2>3, WorkedTypes
<1>1. plan'[r] = Asked(r, Base(At(r))) /\ status[r] = "running"
  BY Compares
<1>2. CASE run[r].event = "manual"
  BY <1>1, <1>2 DEF Asked, Version, Out
<1>3. CASE run[r].event = "push"
  <2>1. PICK p \in Run : Newest(p)
    BY SomeNewest
  <2>2. Out(Version(p)) /\ At(p) # NoCommit
    BY <1>0, <2>1 DEF Versioned, Newest
  <2>3. CASE At(r) < At(p)
    <3>1. Reverting = FALSE /\ Rising
      <4>1. r \in PushRuns
        BY <1>3 DEF PushRuns
      <4>2. ~Lined
        BY <1>0, <1>1, <2>1, <2>3, <4>1, Behind
      <4>. QED
        BY <4>2
    <3>2. Version(r) <= Version(p)
      BY <1>0, <2>3, <3>1 DEF Rising, Version, At
    <3>. QED
      BY <1>0, <2>2, <3>1, <3>2 DEF Out
  <2>4. CASE At(p) = At(r)
    BY <2>2, <2>4 DEF Version, At
  <2>5. CASE At(p) < At(r) /\ Base(At(r)) = At(p)
    <3>1. plan'[r].release <=> Version(p) # Version(r) /\ released[Version(r)] = NoCommit
      BY <1>1, <1>3, <2>2, <2>5 DEF Asked, Bumped, Version, At
    <3>. QED
      BY <2>2, <3>1 DEF Out
  <2>. QED
    BY <2>1, <2>3, <2>4, <2>5, BaseIs
<1>4. run[r].event \in {"manual", "push"}
  BY <1>1, WorkedTypes DEF Worked, Working, Event
<1>. QED
  BY <1>2, <1>3, <1>4

LEMMA VersionedMoved ==
  ASSUME Baseless = FALSE, Worked, Straight, Versioned,
         (MaxAttempt = 1 /\ Lined) \/ (Reverting = FALSE /\ Rising),
         NEW r \in Run, NEW j \in Job, Proceed(r), ~Finish(r), Moved(r, j)
  PROVE  Versioned'
<1>0. /\ Typed /\ log \in [Commit -> Entry] /\ MaxCommit \in Nat
      /\ released \in [Commit -> Commit \cup {NoCommit}]
      /\ plan \in [Run -> Plan]
      /\ "changes" \in Job /\ "release" \in Job
      /\ UNCHANGED <<git, run, status>> /\ PushRuns' = PushRuns /\ PushRuns \subseteq Run
      /\ \A s \in Run : Version(s)' = Version(s) /\ Version(s) \in Commit
                        /\ At(s) \in Commit
  BY WorkedTypes DEF Typed, TypeOK, Entry, Moved, PushRuns, Version, At
<1>1. \A v \in Commit : released[v] # NoCommit => released'[v] # NoCommit
  <2>1. CASE ReleaseCreate(r)
    BY <1>0, <2>1 DEF ReleaseCreate, At
  <2>2. CASE UNCHANGED released
    BY <2>2
  <2>. QED
    BY <2>1, <2>2, Untouched
<1>2. \A s \in Run : Out(Version(s)) => Out(Version(s))'
  BY <1>0, <1>1 DEF Out
<1>3. \A s \in Run : plan'[s].release => plan'[s].image
  <2>1. \A base : Asked(r, base).release => Asked(r, base).image
    BY DEF Asked
  <2>2. Changes(r) => plan'[r] = plan[r] \/ \E base : plan'[r] = Asked(r, base)
    BY Compares
  <2>. QED
    BY <2>1, <2>2 DEF Versioned, Moved
<1>4. ASSUME NEW s \in Run, job'["changes"][s] = "success"
      PROVE  plan'[s].release \/ Out(Version(s))'
  <2>1. CASE job["changes"][s] = "success"
    <3>1. plan'[s] = plan[s]
      BY <1>0, <2>1, MovedOver DEF Over
    <3>. QED
      BY <1>2, <2>1, <3>1 DEF Versioned
  <2>2. CASE job["changes"][s] # "success"
    <3>1. s = r
      BY <1>0, <1>4, <2>2, MovedOver
    <3>2. Changes(r)
      BY <1>0, <1>4, <2>2, <3>1, Brought
    <3>. QED
      BY <1>2, <1>4, <3>1, <3>2, VersionedChanges
  <2>. QED
    BY <2>1, <2>2
<1>5. ASSUME NEW s \in Run, job'["release"][s] = "success"
      PROVE  Out(Version(s))'
  <2>1. CASE job["release"][s] = "success"
    BY <1>2, <2>1 DEF Versioned
  <2>2. CASE job["release"][s] # "success"
    <3>1. s = r
      BY <1>0, <1>5, <2>2, MovedOver
    <3>2. ReleaseView(r) \/ ReleaseCreate(r)
      BY <1>0, <1>5, <2>2, <3>1, Brought
    <3>3. CASE released[Version(r)] # NoCommit
      BY <1>0, <1>1, <3>1, <3>3 DEF Out
    <3>4. CASE released[Version(r)] = NoCommit
      <4>1. ~ReleaseView(r)
        BY <1>0, <1>5, <3>1, <3>4, EndedType
           DEF ReleaseView, Version, Typed, TypeOK, States, State
      <4>2. ReleaseCreate(r) /\ ~Ended(r, "release", "failure")
        BY <1>0, <1>5, <3>1, <3>2, <4>1, EndedType DEF Typed, TypeOK, States, State, Over
      <4>3. released'[Version(r)] # NoCommit
        BY <1>0, <4>2 DEF ReleaseCreate, Version, At
      <4>. QED
        BY <1>0, <3>1, <4>3 DEF Out
    <3>. QED
      BY <3>3, <3>4
  <2>. QED
    BY <2>1, <2>2
<1>6. \A s \in PushRuns : status[s] = "success" => Out(Version(s))'
  BY <1>0, <1>2 DEF Versioned
<1>. QED
  BY <1>0, <1>3, <1>4, <1>5, <1>6 DEF Versioned

LEMMA VersionedStep ==
  ASSUME Baseless = FALSE, Worked, Straight, Versioned,
         (MaxAttempt = 1 /\ Lined) \/ (Reverting = FALSE /\ Rising), [Next]_vars
  PROVE  Versioned'
<1>0. "changes" \in Job /\ "release" \in Job /\ PushRuns \subseteq Run
  BY DEF Job, PushRuns
<1>1. ASSUME NEW r \in Run, Started(r)
      PROVE  Versioned'
  <2>1. /\ UNCHANGED <<plan, job, released>>
        /\ \A s \in Run : s # r => Version(s)' = Version(s)
        /\ \A s \in Run : status'[s] = "success" => s # r /\ status[s] = "success"
        /\ \A s \in Run : s # r => (s \in PushRuns' <=> s \in PushRuns)
        /\ PushRuns' \subseteq Run
    BY <1>1, Kept DEF Started, PushRuns, Version, At
  <2>2. \A k \in Job : job[k][r] = "waiting"
    BY <1>1, <2>1, WorkedStarted
  <2>3. \A s \in Run : s # r => (Out(Version(s))' <=> Out(Version(s)))
    BY <2>1 DEF Out
  <2>. QED
    BY <1>0, <2>1, <2>2, <2>3 DEF Versioned
<1>2. ASSUME NEW r \in Run, Finish(r)
      PROVE  Versioned'
  <2>1. /\ UNCHANGED <<git, run, plan, job, released>> /\ PushRuns' = PushRuns
        /\ \A s \in Run : s # r /\ status'[s] = "success" => status[s] = "success"
    BY <1>2, WorkedTypes, Finishes DEF PushRuns
  <2>2. status'[r] = "success" => Out(Version(r))
    BY <1>2, Passing DEF Versioned
  <2>3. \A s \in Run : Out(Version(s))' <=> Out(Version(s))
    BY <2>1 DEF Version, Out
  <2>. QED
    BY <1>0, <2>1, <2>2, <2>3 DEF Versioned
<1>3. ASSUME NEW r \in Run, NEW every \in BOOLEAN, Rerun(r, every)
      PROVE  Versioned'
  <2>1. /\ UNCHANGED <<git, plan, released>> /\ PushRuns' = PushRuns
        /\ \A s \in Run : At(s)' = At(s) /\ (status'[s] = "success" => status[s] = "success")
        /\ \A s \in Run, k \in Job : job'[k][s] = "success" => job[k][s] = "success"
    BY <1>3, Reruns
  <2>2. \A s \in Run : Out(Version(s))' <=> Out(Version(s))
    BY <2>1 DEF Version, At, Out
  <2>. QED
    BY <1>0, <2>1, <2>2 DEF Versioned
<1>4. CASE UNCHANGED vars
  BY <1>4 DEF vars, Versioned, Version, Out, PushRuns
<1>. QED
  BY <1>1, <1>2, <1>3, <1>4, VersionedMoved, Steps

\* Unless main is force-pushed or the base is not to be had, and as long as runs
\* are not re-run or pushes do not restore what an older commit held: once the
\* run of main's head has passed its version is out, however many runs of pushes
\* before it failed or were superseded, and whatever else runs.
THEOREM ReleasesReachHead ==
  Baseless = FALSE /\ Rewriting = FALSE /\ (MaxAttempt = 1 \/ Reverting = FALSE)
    => (Spec => []ReleaseDelivered)
<1>. SUFFICES ASSUME Baseless = FALSE, Rewriting = FALSE, MaxAttempt = 1 \/ Reverting = FALSE
              PROVE  Spec => []ReleaseDelivered
  OBVIOUS
<1>. DEFINE Inv == /\ Worked /\ Straight /\ Versioned
                   /\ MaxAttempt = 1 => Lined
                   /\ Reverting = FALSE => Rising
<1>1. Init => Inv
  BY WorkedInit, LinedInit, StraightInit, RisingInit, VersionedInit
<1>2. Inv /\ [Next]_vars => Inv'
  <2>1. Inv => Typed /\ Traced
    BY DEF Worked, Traced
  <2>. QED
    BY <2>1, WorkedStep, LinedStep, StraightStep, RisingStep, VersionedStep
<1>3. Inv => ReleaseDelivered
  <2>1. SUFFICES ASSUME Inv, HeadPassed PROVE VersionIsOut
    BY DEF ReleaseDelivered
  <2>2. Out(log[head].version)
    BY <2>1 DEF HeadPassed, Versioned, Version
  <2>3. ASSUME Reverting = FALSE, NEW w \in Commit, log[head].version < w,
               released[w] # NoCommit
        PROVE  FALSE
    <3>1. /\ MaxCommit \in Nat /\ head \in Commit /\ log \in [Commit -> Entry]
          /\ released \in [Commit -> Commit \cup {NoCommit}]
      BY <2>1, WorkedTypes DEF Typed, TypeOK
    <3>2. released[w] \in Commit /\ released[w] <= head /\ log[released[w]].version = w
      BY <2>1, <2>3, <3>1 DEF Worked, Traced, Tags
    <3>3. w <= log[head].version
      BY <2>1, <2>3, <3>1, <3>2 DEF Rising
    <3>4. w \in Nat /\ log[head].version \in Nat
      <4>1. log[head].version \in Commit
        BY <3>1 DEF Entry
      <4>. QED
        BY <3>1, <4>1
    <3>. QED
      BY <2>3, <3>3, <3>4
  <2>. QED
    BY <2>2, <2>3 DEF Out, VersionIsOut
<1>. QED
  BY <1>1, <1>2, <1>3, PTL DEF Spec

(***************************************************************************)
(* Stacks.  A push that runs asks for a deploy exactly when the stack      *)
(* changed since the newest push that passed.                              *)
(***************************************************************************)
Compared ==
  /\ \A r \in Run : job["checks"][r] = "success" => job["changes"][r] = "success"
  /\ \A p \in Run, r \in PushRuns :
       Newest(p) /\ status[r] = "running" /\ job["changes"][r] = "success" =>
         (plan[r].deploy <=> log[At(p)].stack # log[At(r)].stack)

LEMMA ComparedInit == Init => Compared
<1>. SUFFICES ASSUME Init PROVE Compared
  OBVIOUS
<1>1. \A r \in Run : status[r] # "running"
  BY DEF Init
<1>2. job["checks"] = job["changes"]
  BY DEF Init, Job
<1>. QED
  BY <1>1, <1>2 DEF Compared, PushRuns

LEMMA ComparedMoved ==
  ASSUME Baseless = FALSE, Worked, Lined, Straight, Compared,
         NEW x \in Run, NEW j \in Job, Proceed(x), ~Finish(x), Moved(x, j)
  PROVE  Compared'
<1>0. /\ Typed /\ "changes" \in Job /\ "checks" \in Job
      /\ UNCHANGED <<git, run, status>> /\ PushRuns' = PushRuns /\ PushRuns \subseteq Run
      /\ \A s \in Run : At(s)' = At(s) /\ (Newest(s)' <=> Newest(s))
  BY WorkedTypes, OrderedMoved DEF Moved
<1>1. \A s \in Run : job["changes"][s] = "success" =>
                       job'["changes"][s] = "success" /\ plan'[s] = plan[s]
  BY <1>0, MovedOver DEF Over
<1>2. ASSUME NEW s \in Run, job'["checks"][s] = "success"
      PROVE  job'["changes"][s] = "success"
  <2>1. CASE job["checks"][s] = "success"
    BY <1>1, <2>1 DEF Compared
  <2>2. CASE job["checks"][s] # "success"
    <3>1. s = x
      BY <1>0, <1>2, <2>2, MovedOver
    <3>2. job["changes"][x] \in {"success", "skipped"}
      BY <1>0, <1>2, <2>2, <3>1, Brought DEF Passable
    <3>3. job["changes"][x] # "skipped"
      BY <1>0, MovedRuns DEF Worked, Upheld, Wanted
    <3>. QED
      BY <1>1, <3>1, <3>2, <3>3
  <2>. QED
    BY <2>1, <2>2
<1>3. ASSUME NEW p \in Run, NEW r \in PushRuns,
             Newest(p), status[r] = "running", job'["changes"][r] = "success"
      PROVE  plan'[r].deploy <=> log[At(p)].stack # log[At(r)].stack
  <2>0. r \in Run
    BY <1>0
  <2>1. CASE job["changes"][r] = "success"
    BY <1>1, <1>3, <2>0, <2>1 DEF Compared
  <2>2. CASE job["changes"][r] # "success"
    <3>1. r = x
      BY <1>0, <1>3, <2>0, <2>2, MovedOver
    <3>2. Changes(r)
      BY <1>0, <1>3, <2>2, <3>1, Brought
    <3>3. Base(At(r)) = At(p) /\ At(p) # NoCommit /\ run[r].event = "push"
      <4>1. At(p) \in Commit /\ MaxCommit \in Nat /\ At(p) \in Nat /\ At(r) \in Nat
        BY <2>0, WorkedTypes
      <4>2. At(p) < At(r)
        BY <1>3, Behind
      <4>3. Base(At(r)) = At(p)
        BY <1>3, <2>0, <4>1, <4>2, BaseIs
      <4>4. run[r].event = "push"
        BY DEF PushRuns
      <4>. QED
        BY <4>1, <4>3, <4>4
    <3>4. plan'[r] = Asked(r, At(p))
      BY <1>3, <2>0, <3>2, <3>3, Compares
    <3>5. Asked(r, At(p)).deploy <=> log[At(p)].stack # log[At(r)].stack
      BY <3>3 DEF Asked, At
    <3>. QED
      BY <3>4, <3>5
  <2>. QED
    BY <2>1, <2>2
<1>4. ASSUME NEW p \in Run, NEW r \in PushRuns,
             Newest(p)', status'[r] = "running", job'["changes"][r] = "success"
      PROVE  plan'[r].deploy <=> log'[At(p)'].stack # log'[At(r)'].stack
  <2>1. /\ Newest(p) /\ status[r] = "running"
        /\ log'[At(p)'] = log[At(p)] /\ log'[At(r)'] = log[At(r)]
    BY <1>0, <1>4
  <2>2. plan'[r].deploy <=> log[At(p)].stack # log[At(r)].stack
    BY <1>3, <1>4, <2>1
  <2>. QED
    BY <2>1, <2>2
<1>. QED
  BY <1>0, <1>2, <1>4 DEF Compared

LEMMA ComparedStep ==
  ASSUME Baseless = FALSE, MaxAttempt = 1, Worked, Lined, Straight, Compared, [Next]_vars
  PROVE  Compared'
<1>0. "changes" \in Job /\ "checks" \in Job
  BY DEF Job
<1>1. ASSUME NEW x \in Run, Started(x)
      PROVE  Compared'
  <2>1. /\ UNCHANGED <<plan, job>> /\ PushRuns' \subseteq Run
        /\ \A s \in Run : s # x => At(s)' = At(s) /\ log'[At(s)] = log[At(s)]
        /\ \A s \in Run : s # x =>
             (s \in PushRuns' <=> s \in PushRuns)
             /\ (status'[s] = "running" => status[s] = "running")
    BY <1>1, Kept DEF Started, PushRuns
  <2>2. \A s \in Run : Newest(s)' => Newest(s) /\ s # x
    BY <1>1, NewestStarted
  <2>3. job'["changes"][x] # "success" /\ job["checks"][x] # "success"
    BY <1>0, <1>1, <2>1, WorkedStarted
  <2>. QED
    BY <2>1, <2>2, <2>3 DEF Compared
<1>2. ASSUME NEW x \in Run, Finish(x)
      PROVE  Compared'
  <2>1. /\ UNCHANGED <<git, run, plan, job>> /\ PushRuns' = PushRuns /\ PushRuns \subseteq Run
        /\ \A s \in Run : At(s)' = At(s)
        /\ status[x] = "running" /\ status'[x] # "running"
        /\ \A s \in Run : s # x /\ status'[s] = "running" => status[s] \in {"running", "queued"}
    BY <1>2, Finishes DEF PushRuns, At, Worked, Traced
  <2>2. ASSUME NEW r \in PushRuns, status'[r] = "running", job["changes"][r] = "success"
        PROVE  status[r] = "running" /\ x \notin PushRuns
    <3>1. r # x /\ r \in Run
      BY <2>1, <2>2
    <3>2. status[r] = "running"
      BY <1>0, <2>1, <2>2, <3>1 DEF Lined, Begun
    <3>. QED
      BY <2>1, <3>1, <3>2 DEF Lined, Queued
  <2>3. x \notin PushRuns => \A p \in Run : Newest(p)' <=> Newest(p)
    BY <1>2, NewestFinish
  <2>. QED
    BY <2>1, <2>2, <2>3 DEF Compared
<1>3. CASE UNCHANGED vars
  BY <1>3 DEF vars, Compared, Newest, PushRuns, At
<1>. QED
  BY <1>1, <1>2, <1>3, ComparedMoved, Steps, OneAttempt

(***************************************************************************)
(* The stack is the one the newest push that passed holds, or is past it,  *)
(* or a manual run broke it.  A manual deploy on its way is not behind     *)
(* that push, nor is one behind the push that runs once that has deployed. *)
(***************************************************************************)
Broken == ~live.whole /\ run[live.run].event = "manual"

Holds(c) ==
  \/ live.whole /\ log[At(live.run)].stack = log[c].stack
  \/ c < At(live.run) /\ log[At(live.run)].stack # log[c].stack
  \/ Broken

Reached(c) == live.whole /\ c <= At(live.run)

Carried ==
  /\ \A p \in Run : Newest(p) => Holds(At(p))
  /\ \A p, m \in Run : Newest(p) /\ job["deploy"][m] = "acting" /\ m \notin PushRuns =>
       At(p) <= At(m) \/ log[At(m)].stack = log[At(p)].stack
  /\ \A r \in PushRuns : status[r] = "running" /\ job["deploy"][r] = "success" =>
       /\ Reached(At(r)) \/ Broken
       /\ \A m \in Run : job["deploy"][m] = "acting" => At(r) <= At(m)

LEMMA CarriedInit == Init => Carried
<1>. SUFFICES ASSUME Init PROVE Carried
  OBVIOUS
<1>1. /\ live.whole = TRUE /\ live.run = 0 /\ 0 \in Run
      /\ \A r \in Run : At(r) = 0 /\ status[r] # "running"
      /\ \A r \in Run : job["deploy"][r] # "acting"
  BY PipelineAssumption DEF Init, At, Job
<1>. QED
  BY <1>1 DEF Carried, Holds, PushRuns

LEMMA CarriedStarted ==
  ASSUME Worked, Lined, Carried, NEW x \in Run, Started(x)
  PROVE  Carried'
<1>0. /\ UNCHANGED <<job, live>> /\ PushRuns' \subseteq Run
      /\ \A s \in Run : s # x =>
           /\ At(s)' = At(s) /\ log'[At(s)] = log[At(s)] /\ run'[s] = run[s]
           /\ s \in PushRuns' <=> s \in PushRuns
           /\ status'[s] = "running" => status[s] = "running"
  BY Kept DEF Started, PushRuns
<1>1. \A s \in Run : Newest(s)' => Newest(s) /\ s # x
  BY NewestStarted
<1>2. live.run \in Run /\ live.run # x
  BY WorkedTypes DEF Started, Lined, Ordered
<1>3. job["deploy"][x] \notin {"acting", "success"}
  BY <1>0, WorkedStarted DEF Job
<1>4. ASSUME NEW p \in Run, p # x
      PROVE  /\ Holds(At(p)) => Holds(At(p))'
             /\ Reached(At(p)) \/ Broken => (Reached(At(p)) \/ Broken)'
  BY <1>0, <1>2, <1>4 DEF Holds, Reached, Broken
<1>5. \A p \in Run : Newest(p)' => Holds(At(p))'
  BY <1>1, <1>4 DEF Carried
<1>6. ASSUME NEW p \in Run, NEW m \in Run,
             Newest(p)', job'["deploy"][m] = "acting", m \notin PushRuns'
      PROVE  At(p)' <= At(m)' \/ log'[At(m)'].stack = log'[At(p)'].stack
  BY <1>0, <1>1, <1>3, <1>6 DEF Carried
<1>7. ASSUME NEW r \in PushRuns', status'[r] = "running", job'["deploy"][r] = "success"
      PROVE  /\ (Reached(At(r)) \/ Broken)'
             /\ \A m \in Run : job'["deploy"][m] = "acting" => At(r)' <= At(m)'
  <2>1. r \in Run /\ r # x /\ r \in PushRuns /\ status[r] = "running"
    BY <1>0, <1>3, <1>7
  <2>2. /\ Reached(At(r)) \/ Broken
        /\ \A m \in Run : job["deploy"][m] = "acting" => At(r) <= At(m)
    BY <1>0, <1>7, <2>1 DEF Carried
  <2>3. (Reached(At(r)) \/ Broken)'
    BY <1>4, <2>1, <2>2
  <2>4. \A m \in Run : job'["deploy"][m] = "acting" => At(r)' <= At(m)'
    BY <1>0, <1>3, <2>1, <2>2
  <2>. QED
    BY <2>3, <2>4
<1>. QED
  BY <1>5, <1>6, <1>7 DEF Carried

\* A deploy that ends: pulumi up put the stack at the run's commit, or failed.
LEMMA CarriedUp ==
  ASSUME Baseless = FALSE, Worked, Lined, Compared, Carried,
         NEW x \in Run, NEW j \in Job, Proceed(x), ~Finish(x), Moved(x, j), DeployUp(x)
  PROVE  Carried'
<1>0. /\ Typed /\ "deploy" \in Job /\ job["deploy"][x] = "acting" /\ status[x] = "running"
      /\ UNCHANGED <<git, run, status>> /\ PushRuns' = PushRuns /\ PushRuns \subseteq Run
      /\ \A s \in Run : /\ At(s)' = At(s) /\ (Newest(s)' <=> Newest(s))
                        /\ At(s) \in Nat
  BY WorkedTypes, OrderedMoved, MovedRuns DEF Moved, DeployUp
<1>1. \A m \in Run : job'["deploy"][m] # "acting"
  <2>1. job'["deploy"][x] # "acting"
    BY <1>0, DoneType DEF DeployUp, Typed, TypeOK, States, Over
  <2>2. \A m \in Run : m # x => job["deploy"][m] # "acting"
    BY <1>0 DEF Typed, Exclusive, Active
  <2>. QED
    BY <1>0, <2>1, <2>2, MovedOver
<1>2. \/ live' = live
      \/ live' = [run |-> x, whole |-> TRUE]
      \/ live' = [run |-> x, whole |-> FALSE]
  BY DEF DeployUp
<1>3. CASE x \in PushRuns
  <2>1. ASSUME NEW p \in Run, Newest(p)
        PROVE  At(p) < At(x) /\ log[At(p)].stack # log[At(x)].stack
    <3>1. Wanted(x, "deploy") /\ x # 0
      BY <1>0 DEF Worked, Working, Upheld
    <3>2. plan[x].deploy /\ job["changes"][x] = "success"
      BY <3>1 DEF Wanted, Compared
    <3>. QED
      BY <1>0, <1>3, <2>1, <3>2, Behind DEF Compared
  <2>2. ASSUME NEW p \in Run, Newest(p)
        PROVE  Holds(At(p))'
    <3>1. Holds(At(p))
      BY <2>2 DEF Carried
    <3>2. CASE live' = live
      BY <1>0, <3>1, <3>2, WorkedTypes DEF Holds, Broken
    <3>3. CASE live'.run = x
      BY <1>0, <2>1, <2>2, <3>3 DEF Holds
    <3>. QED
      BY <1>2, <3>2, <3>3
  <2>3. ASSUME NEW r \in PushRuns, status[r] = "running", job'["deploy"][r] = "success"
        PROVE  Reached(At(r))'
    <3>1. r = x
      BY <1>0, <1>3, <2>3 DEF Lined, Queued
    <3>2. live' = [run |-> x, whole |-> TRUE]
      <4>1. ~DeployCheck(x)
        BY <1>0 DEF DeployCheck
      <4>. QED
        BY <1>0, <2>3, <3>1, <4>1, Brought
    <3>. QED
      BY <1>0, <3>1, <3>2 DEF Reached
  <2>. QED
    BY <1>0, <1>1, <2>2, <2>3 DEF Carried
<1>4. CASE x \notin PushRuns
  <2>0. run[x].event = "manual" /\ live.run \in Run
    BY <1>0, <1>4, WorkedTypes DEF Worked, Working, Event
  <2>1. ASSUME NEW p \in Run, Newest(p)
        PROVE  Holds(At(p))'
    <3>1. Holds(At(p)) /\ (At(p) <= At(x) \/ log[At(x)].stack = log[At(p)].stack)
      BY <1>0, <1>4, <2>1 DEF Carried
    <3>2. CASE live' = live
      BY <1>0, <3>1, <3>2, <2>0 DEF Holds, Broken
    <3>3. CASE live' = [run |-> x, whole |-> TRUE]
      BY <1>0, <2>1, <3>1, <3>3 DEF Holds
    <3>4. CASE live' = [run |-> x, whole |-> FALSE]
      BY <1>0, <2>0, <3>4 DEF Holds, Broken
    <3>. QED
      BY <1>2, <3>2, <3>3, <3>4
  <2>2. ASSUME NEW r \in PushRuns, status[r] = "running", job'["deploy"][r] = "success"
        PROVE  (Reached(At(r)) \/ Broken)'
    <3>1. r \in Run /\ r # x /\ job["deploy"][r] = "success"
      BY <1>0, <1>4, <2>2, MovedOver
    <3>2. (Reached(At(r)) \/ Broken) /\ At(r) <= At(x)
      BY <1>0, <2>2, <3>1 DEF Carried
    <3>3. CASE live' = live
      BY <1>0, <2>0, <3>2, <3>3 DEF Reached, Broken
    <3>4. CASE live' = [run |-> x, whole |-> TRUE]
      BY <1>0, <3>1, <3>2, <3>4 DEF Reached
    <3>5. CASE live' = [run |-> x, whole |-> FALSE]
      BY <1>0, <2>0, <3>5 DEF Broken
    <3>. QED
      BY <1>2, <3>3, <3>4, <3>5
  <2>. QED
    BY <1>0, <1>1, <2>1, <2>2 DEF Carried
<1>. QED
  BY <1>3, <1>4

LEMMA CarriedMoved ==
  ASSUME Baseless = FALSE, Worked, Lined, Compared, Carried,
         NEW x \in Run, NEW j \in Job, Proceed(x), ~Finish(x), Moved(x, j)
  PROVE  Carried'
<1>1. CASE DeployUp(x)
  BY <1>1, CarriedUp
<1>2. CASE ~DeployUp(x)
  <2>0. /\ Typed /\ "deploy" \in Job /\ status[x] = "running"
        /\ UNCHANGED <<git, run, status, live>>
        /\ PushRuns' = PushRuns /\ PushRuns \subseteq Run
        /\ \A s \in Run : /\ At(s)' = At(s) /\ (Newest(s)' <=> Newest(s))
                          /\ At(s) \in Nat /\ At(s) <= head
        /\ live.run \in Run /\ head \in Nat
    BY <1>2, WorkedTypes, OrderedMoved, MovedRuns DEF Moved
  <2>1. ASSUME NEW m \in Run, job'["deploy"][m] = "acting"
        PROVE  \/ job["deploy"][m] = "acting"
               \/ m = x /\ Current(x) /\ job["deploy"][x] # "success"
    BY <2>0, <2>1, MovedOver, Brought DEF DeployCheck
  <2>2. Current(x) /\ x \notin PushRuns => At(x) = head
    BY DEF Current, PushRuns, At
  <2>3. ASSUME NEW r \in PushRuns, status[r] = "running", job'["deploy"][r] = "success"
        PROVE  job["deploy"][r] = "success"
    <3>1. CASE r # x
      BY <2>0, <2>3, <3>1, MovedOver
    <3>2. CASE r = x
      <4>1. Current(r)
        <5>1. run[r].event = "push" /\ r \in Run
          BY DEF PushRuns
        <5>2. run[r].attempt = 1
          BY <2>3, <5>1, WorkedTypes DEF Lined, Ordered
        <5>. QED
          BY <5>1, <5>2 DEF Current
      <4>. QED
        BY <1>2, <2>0, <2>3, <3>2, <4>1, Brought
    <3>. QED
      BY <3>1, <3>2
  <2>4. \A p \in Run : Holds(At(p))' <=> Holds(At(p))
    BY <2>0 DEF Holds, Broken
  <2>5. ASSUME NEW p \in Run, NEW m \in Run,
               Newest(p), job'["deploy"][m] = "acting", m \notin PushRuns
        PROVE  At(p) <= At(m) \/ log[At(m)].stack = log[At(p)].stack
    BY <2>0, <2>1, <2>2, <2>5 DEF Carried
  <2>6. ASSUME NEW r \in PushRuns, status[r] = "running", job'["deploy"][r] = "success"
        PROVE  /\ Reached(At(r)) \/ Broken
               /\ \A m \in Run : job'["deploy"][m] = "acting" => At(r) <= At(m)
    <3>1. /\ Reached(At(r)) \/ Broken
          /\ \A m \in Run : job["deploy"][m] = "acting" => At(r) <= At(m)
          /\ job["deploy"][r] = "success" /\ r \in Run
      BY <2>0, <2>3, <2>6 DEF Carried
    <3>2. ASSUME NEW m \in Run, job'["deploy"][m] = "acting"
          PROVE  At(r) <= At(m)
      <4>1. CASE job["deploy"][m] = "acting"
        BY <3>1, <4>1
      <4>2. CASE m = x /\ Current(x) /\ job["deploy"][x] # "success"
        <5>1. x \notin PushRuns
          BY <2>0, <2>6, <3>1, <4>2 DEF Lined, Queued
        <5>. QED
          BY <2>0, <2>2, <3>1, <4>2, <5>1
      <4>. QED
        BY <2>1, <3>2, <4>1, <4>2
    <3>. QED
      BY <3>1, <3>2
  <2>7. \A r \in Run : (Reached(At(r)) \/ Broken)' <=> Reached(At(r)) \/ Broken
    BY <2>0 DEF Reached, Broken
  <2>8. \A p, m \in Run :
          Newest(p)' /\ job'["deploy"][m] = "acting" /\ m \notin PushRuns' =>
            At(p)' <= At(m)' \/ log'[At(m)'].stack = log'[At(p)'].stack
    BY <2>0, <2>5
  <2>9. \A r \in PushRuns' : status'[r] = "running" /\ job'["deploy"][r] = "success" =>
          /\ (Reached(At(r)) \/ Broken)'
          /\ \A m \in Run : job'["deploy"][m] = "acting" => At(r)' <= At(m)'
    BY <2>0, <2>6, <2>7
  <2>10. \A p \in Run : Newest(p)' => Holds(At(p))'
    BY <2>0, <2>4 DEF Carried
  <2>. QED
    BY <2>8, <2>9, <2>10 DEF Carried
<1>. QED
  BY <1>1, <1>2

LEMMA CarriedFinish ==
  ASSUME Baseless = FALSE, Worked, Lined, Rising, Compared, Carried, NEW x \in Run, Finish(x)
  PROVE  Carried'
<1>0. /\ UNCHANGED <<git, run, job, live>> /\ status[x] = "running" /\ status'[x] # "running"
      /\ \A s \in Run : s # x /\ status'[s] = "running" => status[s] \in {"running", "queued"}
      /\ PushRuns' = PushRuns /\ PushRuns \subseteq Run
      /\ \A s \in Run : /\ At(s)' = At(s)
                        /\ At(s) \in Commit /\ At(s) \in Nat /\ At(s) <= head
      /\ live.run \in Run /\ head \in Nat /\ Typed /\ "deploy" \in Job
  BY WorkedTypes, Finishes DEF At, PushRuns
<1>1. \A r \in Run : /\ Holds(At(r))' <=> Holds(At(r))
                     /\ (Reached(At(r)) \/ Broken)' <=> Reached(At(r)) \/ Broken
  BY <1>0 DEF Holds, Reached, Broken
<1>2. ASSUME NEW r \in PushRuns, status'[r] = "running", job["deploy"][r] = "success"
      PROVE  /\ Reached(At(r)) \/ Broken
             /\ \A m \in Run : job["deploy"][m] = "acting" => At(r) <= At(m)
  <2>1. r \in Run /\ r # x
    BY <1>0, <1>2
  <2>2. status[r] = "running"
    BY <1>0, <1>2, <2>1 DEF Lined, Begun
  <2>. QED
    BY <1>2, <2>2 DEF Carried
<1>3. ASSUME NEW p \in Run, Newest(p)'
      PROVE  /\ Holds(At(p))
             /\ \A m \in Run : job["deploy"][m] = "acting" /\ m \notin PushRuns =>
                  At(p) <= At(m) \/ log[At(m)].stack = log[At(p)].stack
  <2>1. CASE x \in PushRuns /\ status'[x] = "success"
    <3>1. PICK q \in Run : Newest(q)
      BY SomeNewest
    <3>2. p = x /\ At(q) < At(x)
      BY <1>0, <1>3, <2>1, <3>1, NewestFinish, Behind
    <3>3. /\ job["deploy"][x] = "success" \/ ~plan[x].deploy
          /\ plan[x].deploy <=> log[At(q)].stack # log[At(x)].stack
      BY <1>0, <2>1, <3>1, Passing DEF Compared
    <3>4. CASE job["deploy"][x] = "success"
      <4>1. /\ Reached(At(x)) \/ Broken
            /\ \A m \in Run : job["deploy"][m] = "acting" => At(x) <= At(m)
        BY <1>0, <2>1, <3>4 DEF Carried
      <4>2. Holds(At(x))
        <5>1. CASE Reached(At(x))
          <6>1. At(x) # At(live.run) => At(x) < At(live.run)
            BY <1>0, <5>1 DEF Reached
          <6>. QED
            BY <5>1, <6>1 DEF Reached, Holds
        <5>2. CASE Broken
          BY <5>2 DEF Holds
        <5>. QED
          BY <4>1, <5>1, <5>2
      <4>. QED
        BY <3>2, <4>1, <4>2
    <3>5. CASE log[At(q)].stack = log[At(x)].stack
      <4>1. ASSUME NEW c \in Commit, At(q) <= c, c <= At(x)
            PROVE  log[c].stack = log[At(x)].stack
        BY <1>0, <3>5, <4>1, Between
      <4>2. Holds(At(x))
        <5>1. CASE Broken
          BY <5>1 DEF Holds
        <5>2. CASE live.whole /\ log[At(live.run)].stack = log[At(q)].stack
          BY <3>5, <5>2 DEF Holds
        <5>3. CASE At(q) < At(live.run) /\ log[At(live.run)].stack # log[At(q)].stack
          <6>1. ~(At(live.run) <= At(x))
            BY <1>0, <3>5, <4>1, <5>3
          <6>. QED
            BY <1>0, <3>5, <5>3, <6>1 DEF Holds
        <5>. QED
          BY <3>1, <5>1, <5>2, <5>3 DEF Carried, Holds
      <4>3. ASSUME NEW m \in Run, job["deploy"][m] = "acting", m \notin PushRuns
            PROVE  At(x) <= At(m) \/ log[At(m)].stack = log[At(x)].stack
        <5>1. At(q) <= At(m) \/ log[At(m)].stack = log[At(q)].stack
          BY <3>1, <4>3 DEF Carried
        <5>2. At(m) <= At(x) \/ At(x) <= At(m)
          BY <1>0
        <5>. QED
          BY <1>0, <3>5, <4>1, <5>1, <5>2
      <4>. QED
        BY <3>2, <4>2, <4>3
    <3>. QED
      BY <3>3, <3>4, <3>5
  <2>2. CASE ~(x \in PushRuns /\ status'[x] = "success")
    BY <1>3, <2>2, NewestFinish DEF Carried
  <2>. QED
    BY <2>1, <2>2
<1>4. \A p \in Run : Newest(p)' => Holds(At(p))'
  BY <1>1, <1>3
<1>5. \A p, m \in Run :
        Newest(p)' /\ job'["deploy"][m] = "acting" /\ m \notin PushRuns' =>
          At(p)' <= At(m)' \/ log'[At(m)'].stack = log'[At(p)'].stack
  BY <1>0, <1>3
<1>6. \A r \in PushRuns' : status'[r] = "running" /\ job'["deploy"][r] = "success" =>
        /\ (Reached(At(r)) \/ Broken)'
        /\ \A m \in Run : job'["deploy"][m] = "acting" => At(r)' <= At(m)'
  BY <1>0, <1>1, <1>2
<1>. QED
  BY <1>4, <1>5, <1>6 DEF Carried

LEMMA CarriedStep ==
  ASSUME MaxAttempt = 1, Baseless = FALSE, Worked, Lined, Rising, Compared, Carried, [Next]_vars
  PROVE  Carried'
<1>1. CASE UNCHANGED vars
  BY <1>1 DEF vars, Carried, Holds, Reached, Broken, Newest, PushRuns, At
<1>. QED
  BY <1>1, CarriedStarted, CarriedFinish, CarriedMoved, Steps, OneAttempt

\* Unless main is force-pushed, a push restores what an older commit held, a run
\* is re-run or the base is not to be had: once the run of main's head has
\* passed and nothing is running, the stack is the one it holds or a manual
\* deploy failed since, however many runs of pushes before it failed, part of
\* the way too, or were superseded, and whatever runs are started by hand.
THEOREM StacksReachHead ==
  MaxAttempt = 1 /\ Baseless = FALSE /\ Rewriting = FALSE /\ Reverting = FALSE
    => (Spec => []StackDelivered)
<1>. SUFFICES ASSUME MaxAttempt = 1, Baseless = FALSE, Rewriting = FALSE, Reverting = FALSE
              PROVE  Spec => []StackDelivered
  OBVIOUS
<1>. DEFINE Inv == Worked /\ Lined /\ Straight /\ Rising /\ Compared /\ Carried
<1>1. Init => Inv
  BY WorkedInit, LinedInit, StraightInit, RisingInit, ComparedInit, CarriedInit
<1>2. Inv /\ [Next]_vars => Inv'
  <2>1. Inv => Typed
    BY DEF Worked, Traced
  <2>. QED
    BY <2>1, WorkedStep, LinedStep, StraightStep, RisingStep, ComparedStep, CarriedStep
<1>3. Inv => StackDelivered
  <2>1. SUFFICES ASSUME Inv, HeadPassed PROVE StackIsHeads \/ Broken
    BY DEF StackDelivered, Broken
  <2>2. PICK p \in Run : Newest(p) /\ At(p) = head
    BY <2>1, HeadIsNewest
  <2>3. ~(head < At(live.run))
    BY <2>1, WorkedTypes
  <2>4. Holds(head)
    BY <2>1, <2>2 DEF Carried
  <2>. QED
    BY <2>3, <2>4 DEF Holds, StackIsHeads, At
<1>. QED
  BY <1>1, <1>2, <1>3, PTL DEF Spec

=============================================================================
