--------------------------- MODULE UpdaterProofs ---------------------------
(***************************************************************************)
(* Theorems about Updater, for any programs, repositories and files its     *)
(* assumption allows, and any number of releases, edits and faults.         *)
(***************************************************************************)
EXTENDS Updater, FiniteSetTheorems, TLAPS

Value == Version \cup {Missing}
Resolved == Asked \cup Dependency
Partial(X, Y) == UNION {[S -> Y] : S \in SUBSET X}
Change == Partial(Line, Value)
Patch == [from: Change, to: Change]
Title == [app: App, from: Value, to: Value]
Released == [component: App, version: Version]

Job == [step: Step, entry: DOMAIN Entries, base: Main, tree: Text,
        sources: Partial({File[a] : a \in App}, Change), commits: Seq(Patch),
        todo: Seq(Patch), titles: Seq(Title), tag: Value, attempt: 1..3,
        rebasing: BOOLEAN, failed: SUBSET App]

Typed ==
  /\ releases \in [{Repo[a] : a \in App} -> Seq(Released) \ {<<>>}]
  /\ published \in [App -> SUBSET Version]
  /\ main \in Main
  /\ author \in [Line -> {"nobody", "person", "updater"}]
  /\ job \in Job
  /\ edits \in 0..MaxEdits
  /\ faults \in 0..MaxFaults

-----------------------------------------------------------------------------
(* Sequences and partial functions. *)

LEMMA PartialFacts ==
  ASSUME NEW X, NEW Y, NEW f
  PROVE  f \in Partial(X, Y) <=> /\ f = [x \in DOMAIN f |-> f[x]]
                                 /\ DOMAIN f \subseteq X
                                 /\ \A x \in DOMAIN f : f[x] \in Y
<1>1. ASSUME f \in Partial(X, Y)
      PROVE  /\ f = [x \in DOMAIN f |-> f[x]]
             /\ DOMAIN f \subseteq X
             /\ \A x \in DOMAIN f : f[x] \in Y
  <2>1. PICK S \in SUBSET X : f \in [S -> Y]
    BY <1>1 DEF Partial
  <2>. QED
    BY <2>1
<1>2. ASSUME /\ f = [x \in DOMAIN f |-> f[x]]
             /\ DOMAIN f \subseteq X
             /\ \A x \in DOMAIN f : f[x] \in Y
      PROVE  f \in Partial(X, Y)
  <2>1. f \in [DOMAIN f -> Y]
    BY <1>2
  <2>. QED
    BY <1>2, <2>1 DEF Partial
<1>. QED
  BY <1>1, <1>2

LEMMA Appended ==
  ASSUME NEW T, NEW s \in Seq(T), NEW e \in T
  PROVE  LET t == Append(s, e)
         IN  /\ t \in Seq(T)
             /\ t # <<>>
             /\ DOMAIN t = DOMAIN s \cup {Len(s) + 1}
             /\ \A i \in DOMAIN s : t[i] = s[i] /\ i # Len(s) + 1
             /\ t[Len(s) + 1] = e
  OBVIOUS

LEMMA Parted ==
  ASSUME NEW T, NEW s \in Seq(T), s # <<>>
  PROVE  /\ Head(s) \in T
         /\ 1 \in DOMAIN s
         /\ Head(s) = s[1]
         /\ Tail(s) \in Seq(T)
         /\ \A i \in DOMAIN Tail(s) : i + 1 \in DOMAIN s /\ Tail(s)[i] = s[i + 1]
         /\ \A i \in DOMAIN s : i # 1 => i - 1 \in DOMAIN Tail(s) /\ Tail(s)[i - 1] = s[i]
  OBVIOUS

LEMMA Sequenced ==
  ASSUME NEW S, IsFiniteSet(S), S # {}
  PROVE  SetToSeq(S) \in Seq(S) /\ SetToSeq(S) # <<>>
<1>1. Cardinality(S) \in Nat /\ ExistsBijection(1..Cardinality(S), S)
  BY FS_CardinalityType
<1>2. \E f \in [1..Cardinality(S) -> S] : IsInjective(f)
  BY <1>1 DEF ExistsBijection, Bijection, Injection, Surjection, IsInjective
<1>3. SetToSeq(S) \in [1..Cardinality(S) -> S]
  BY <1>2 DEF SetToSeq
<1>4. Cardinality(S) # 0
  BY FS_EmptySet
<1>5. Len(SetToSeq(S)) = Cardinality(S) /\ SetToSeq(S) \in Seq(S)
  BY <1>1, <1>3
<1>. QED
  BY <1>4, <1>5

-----------------------------------------------------------------------------
(* The types, and what a run has in memory: the files as they are in the tree. *)

Lines(f) == {l \in Line : FileOf(l) = f}

Sourced ==
  job.step \in {"read", "check"} =>
    \A f \in DOMAIN job.sources : job.sources[f] = [l \in Lines(f) |-> job.tree[l]]

\* A run begins with nothing of an earlier one.
Clean == job.step = "sync" => job = [Idle EXCEPT !.step = "sync"]

LEMMA LineFacts ==
  /\ \A a \in App : <<"pin", a>> \in Line
  /\ \A d \in Dependency : <<"lock", d>> \in Line
  /\ \A l \in Line : l = <<l[1], l[2]>> /\ l[2] \in App
  /\ \A l \in Line : l[1] = "pin" \/ (l[1] = "lock" /\ l[2] \in Dependency)
  /\ \A a \in App : FileOf(<<"pin", a>>) = File[a]
  /\ \A d \in Dependency : FileOf(<<"lock", d>>) = Lockfile
  BY UpdaterAssumption DEF Line, FileOf

LEMMA IdleTyped == Idle \in Job
<1>1. 1 \in DOMAIN Entries
  BY UpdaterAssumption
<1>2. <<>> \in Partial({File[a] : a \in App}, Change)
  <2>1. <<>> \in [{} -> Change]
    OBVIOUS
  <2>. QED
    BY <2>1 DEF Partial
<1>3. NoText \in Text
  BY DEF NoText, Text
<1>. QED
  BY <1>1, <1>2, <1>3 DEF Idle, Job, Step, Main, Value

LEMMA TypedInit == Init => Typed
<1> SUFFICES ASSUME Init
             PROVE  Typed
  OBVIOUS
<1>1. PICK v \in Version :
         /\ releases = [r \in {Repo[a] : a \in App} |->
                         SetToSeq({Tag(a, v) : a \in {a \in App : Repo[a] = r}})]
         /\ published = [a \in App |-> {v}]
         /\ main = [lines |-> [l \in Line |-> v], moved |-> 0]
  BY DEF Init
<1>2. ASSUME NEW r \in {Repo[a] : a \in App}
      PROVE  SetToSeq({Tag(a, v) : a \in {a \in App : Repo[a] = r}})
                \in Seq(Released) \ {<<>>}
  <2> DEFINE of == {a \in App : Repo[a] = r}
             S == {Tag(a, v) : a \in of}
  <2>1. IsFiniteSet(of)
    BY UpdaterAssumption, FS_Subset
  <2>2. IsFiniteSet(S)
    <3>1. [a \in of |-> Tag(a, v)] \in Surjection(of, S)
      BY DEF Surjection
    <3>. QED
      BY <2>1, <3>1, FS_Surjection
  <2>3. S # {}
    OBVIOUS
  <2>4. S \subseteq Released
    BY DEF Tag, Released
  <2>5. SetToSeq(S) \in Seq(S) \ {<<>>}
    BY <2>2, <2>3, Sequenced
  <2>. QED
    BY <2>4, <2>5
<1>3. main \in Main /\ published \in [App -> SUBSET Version]
  BY <1>1 DEF Main, Text
<1>4. releases \in [{Repo[a] : a \in App} -> Seq(Released) \ {<<>>}]
  BY <1>1, <1>2
<1>5. author \in [Line -> {"nobody", "person", "updater"}]
  BY DEF Init
<1>6. edits \in 0..MaxEdits /\ faults \in 0..MaxFaults
  BY UpdaterAssumption DEF Init
<1>. QED
  BY <1>3, <1>4, <1>5, <1>6, IdleTyped DEF Init, Typed

LEMMA SourceFacts ==
  ASSUME job \in Job, Sourced, job.step \in {"read", "check"}, NEW a \in App
  PROVE  Source(a) = [l \in Lines(File[a]) |-> job.tree[l]]
  BY DEF Sourced, Source, Lines

LEMMA WrittenFacts ==
  ASSUME job \in Job, Sourced, job.step = "check", NEW a \in App
  PROVE  /\ Rewritten(a) = [l \in Lines(File[a]) |-> Written(a)[l]]
         /\ Written(a) \in Text
         /\ Written(a)[<<"pin", a>>] = job.tag
         /\ \A b \in App \ {a} : Written(a)[<<"pin", b>>] = job.tree[<<"pin", b>>]
         /\ \A d \in Dependency :
              Written(a)[<<"lock", d>>] = IF a \in Dependency THEN Written(a)[<<"pin", d>>]
                                          ELSE job.tree[<<"lock", d>>]
<1> DEFINE text == Rewritten(a)
           tree == [l \in Line |-> IF FileOf(l) = File[a] THEN text[l] ELSE job.tree[l]]
<1>0. job.tree \in Text /\ job.tag \in Value
  BY DEF Job
<1>1. text = [l \in Lines(File[a]) |-> IF l = <<"pin", a>> THEN job.tag ELSE job.tree[l]]
  BY SourceFacts DEF Rewritten
<1>2. \A l \in Line : tree[l] = IF l = <<"pin", a>> THEN job.tag ELSE job.tree[l]
  BY <1>1, LineFacts DEF Lines
<1>3. tree \in Text
  BY <1>0, <1>2 DEF Text, Value
<1>4. Written(a) = Locked(a, tree)
  BY DEF Written
<1> HIDE DEF tree
<1>5. \A b \in App : Written(a)[<<"pin", b>>] = tree[<<"pin", b>>]
  BY <1>4, LineFacts DEF Locked
<1>6. \A d \in Dependency :
        Written(a)[<<"lock", d>>] = IF a \in Dependency THEN tree[<<"pin", d>>]
                                    ELSE tree[<<"lock", d>>]
  BY <1>4, LineFacts DEF Locked
<1>7. \A d \in Dependency : d \in App /\ tree[<<"lock", d>>] = job.tree[<<"lock", d>>]
  <2> SUFFICES ASSUME NEW d \in Dependency
               PROVE  d \in App /\ tree[<<"lock", d>>] = job.tree[<<"lock", d>>]
    OBVIOUS
  <2>1. <<"lock", d>> # <<"pin", a>>
    OBVIOUS
  <2>. QED
    BY <1>2, <2>1, LineFacts, UpdaterAssumption
<1>8. Written(a) \in Text
  <2>1. CASE a \notin Dependency
    BY <1>3, <1>4, <2>1 DEF Locked
  <2>2. CASE a \in Dependency
    <3>1. Written(a) = [l \in Line |-> IF l[1] = "lock" THEN tree[<<"pin", l[2]>>] ELSE tree[l]]
      BY <1>4, <2>2 DEF Locked
    <3>. QED
      BY <1>3, <3>1, LineFacts DEF Text
  <2>. QED
    BY <2>1, <2>2
<1>9. \A l \in Lines(File[a]) : l[1] = "pin" /\ l = <<"pin", l[2]>> /\ l[2] \in App
  BY LineFacts, UpdaterAssumption DEF Lines
<1>10. \A l \in Lines(File[a]) : Written(a)[l] = text[l]
  <2> SUFFICES ASSUME NEW l \in Lines(File[a])
               PROVE  Written(a)[l] = text[l]
    OBVIOUS
  <2>1. Written(a)[l] = tree[l] /\ l \in Line
    BY <1>5, <1>9 DEF Lines
  <2>. QED
    BY <1>1, <1>2, <2>1
<1>11. text = [l \in Lines(File[a]) |-> Written(a)[l]]
  BY <1>1, <1>10
<1>. QED
  BY <1>2, <1>5, <1>6, <1>7, <1>8, <1>11, LineFacts

-----------------------------------------------------------------------------
(* What the functions on `job` do to its fields. *)

\* The fields that only a rewrite and a rebase change.
SameWork(j, k) ==
  /\ k.base = j.base
  /\ k.tree = j.tree
  /\ k.commits = j.commits
  /\ k.todo = j.todo
  /\ k.titles = j.titles
  /\ k.rebasing = j.rebasing

LEMMA NextEntryFacts ==
  ASSUME NEW j \in Job, NEW k, k = NextEntry(j)
  PROVE  \/ k = Idle
         \/ /\ k \in Job
            /\ SameWork(j, k)
            /\ k.sources = j.sources
            /\ \/ k.step = "read" /\ k.entry = j.entry + 1
               \/ k.step = "pull"
<1>1. CASE j.entry < Len(Entries)
  <2>1. k = [j EXCEPT !.step = "read", !.entry = j.entry + 1]
    BY <1>1 DEF NextEntry
  <2>2. j.entry + 1 \in DOMAIN Entries
    BY <1>1, UpdaterAssumption DEF Job
  <2>. QED
    BY <2>1, <2>2 DEF Job, SameWork, Step
<1>2. CASE j.entry >= Len(Entries) /\ j.titles # <<>>
  <2>1. k = [j EXCEPT !.step = "pull"]
    BY <1>2, UpdaterAssumption DEF NextEntry, Job
  <2>. QED
    BY <2>1 DEF Job, SameWork, Step
<1>3. CASE j.entry >= Len(Entries) /\ j.titles = <<>>
  BY <1>3, UpdaterAssumption DEF NextEntry, Job
<1>. QED
  BY <1>1, <1>2, <1>3, UpdaterAssumption DEF Job

LEMMA AttemptFacts ==
  ASSUME NEW j \in Job, NEW k, k = AttemptFails(j)
  PROVE  \/ k = Idle
         \/ k \in Job /\ SameWork(j, k) /\ k.step = "pull"
<1>1. CASE j.attempt # 3
  <2>1. k = [j EXCEPT !.step = "pull", !.attempt = j.attempt + 1]
    BY <1>1 DEF AttemptFails
  <2>2. j.attempt + 1 \in 1..3
    BY <1>1 DEF Job
  <2>. QED
    BY <2>1, <2>2 DEF Job, SameWork, Step
<1>. QED
  BY <1>1 DEF AttemptFails

LEMMA CommitFacts ==
  ASSUME NEW before \in Text, NEW after \in Text
  PROVE  /\ Commit(before, after) \in Patch
         /\ DOMAIN Commit(before, after).from = {l \in Line : before[l] # after[l]}
         /\ DOMAIN Commit(before, after).to = {l \in Line : before[l] # after[l]}
         /\ \A l \in Line : before[l] # after[l] => /\ Commit(before, after).from[l] = before[l]
                                                  /\ Commit(before, after).to[l] = after[l]
<1> DEFINE changed == {l \in Line : before[l] # after[l]}
           from == [l \in changed |-> before[l]]
           to == [l \in changed |-> after[l]]
<1>1. from \in [changed -> Value] /\ to \in [changed -> Value]
  BY DEF Text, Value
<1>2. from \in Change /\ to \in Change
  BY <1>1 DEF Change, Partial
<1>3. Commit(before, after) = [from |-> from, to |-> to]
  BY DEF Commit
<1>. QED
  BY <1>2, <1>3 DEF Patch

LEMMA RememberFacts ==
  ASSUME job \in Job, NEW a \in App, NEW text \in Change
  PROVE  /\ Remember(a, text) \in Partial({File[b] : b \in App}, Change)
         /\ DOMAIN Remember(a, text) = DOMAIN job.sources \cup {File[a]}
         /\ Remember(a, text)[File[a]] = text
         /\ \A f \in DOMAIN job.sources : f # File[a] => Remember(a, text)[f] = job.sources[f]
<1>1. /\ DOMAIN job.sources \subseteq {File[b] : b \in App}
      /\ \A f \in DOMAIN job.sources : job.sources[f] \in Change
  BY PartialFacts DEF Job
<1>2. /\ DOMAIN Remember(a, text) \subseteq {File[b] : b \in App}
      /\ \A f \in DOMAIN Remember(a, text) : Remember(a, text)[f] \in Change
      /\ Remember(a, text) = [f \in DOMAIN Remember(a, text) |-> Remember(a, text)[f]]
  BY <1>1 DEF Remember
<1>3. Remember(a, text) \in Partial({File[b] : b \in App}, Change)
  BY <1>2, PartialFacts
<1>. QED
  BY <1>3 DEF Remember

\* An entry that is bumped: the text it finds, and what it leaves.
Bumps(a, j) ==
  /\ job.tree[<<"pin", a>>] # job.tag
  /\ j.tree = Written(a)
  /\ j.commits = Append(job.commits, Commit(job.tree, Written(a)))
  /\ j.titles = Append(job.titles, [app |-> a, from |-> job.tree[<<"pin", a>>], to |-> job.tag])
  /\ j.base = job.base
  /\ j.todo = job.todo
  /\ j.rebasing = job.rebasing

RememberedBy(j) == \A f \in DOMAIN j.sources : j.sources[f] = [l \in Lines(f) |-> j.tree[l]]

LEMMA DecidedFacts ==
  ASSUME job \in Job, Sourced, job.step = "check", NEW a \in App, NEW exists,
         NEW j, j = Decided(a, exists)
  PROVE  /\ j \in Job
         /\ RememberedBy(j)
         /\ j.entry = job.entry
         /\ \/ SameWork(job, j)
            \/ /\ Bumps(a, j)
               /\ Decision(a, exists) = "update"
               /\ a \in Checked => exists
<1> DEFINE seen == [job EXCEPT !.sources = Remember(a, Source(a))]
<1>0. job.tree \in Text /\ job.tag \in Value
  BY DEF Job
<1>1. /\ Source(a) = [l \in Lines(File[a]) |-> job.tree[l]]
      /\ Source(a) \in Change
  <2>1. Source(a) \in [Lines(File[a]) -> Value]
    BY <1>0, SourceFacts DEF Lines, Text, Value
  <2>. QED
    BY <2>1, SourceFacts DEF Change, Partial, Lines
<1>2. /\ seen \in Job
      /\ SameWork(job, seen)
      /\ RememberedBy(seen)
      /\ seen.entry = job.entry
      /\ seen.failed \in SUBSET App
  <2> DEFINE read == Remember(a, Source(a))
  <2>1. /\ read \in Partial({File[b] : b \in App}, Change)
        /\ DOMAIN read = DOMAIN job.sources \cup {File[a]}
        /\ read[File[a]] = Source(a)
        /\ \A f \in DOMAIN job.sources : f # File[a] => read[f] = job.sources[f]
    BY <1>1, RememberFacts
  <2>2. \A f \in DOMAIN job.sources : job.sources[f] = [l \in Lines(f) |-> job.tree[l]]
    BY DEF Sourced
  <2>3. \A f \in DOMAIN read : read[f] = [l \in Lines(f) |-> job.tree[l]]
    BY <1>1, <2>1, <2>2
  <2> HIDE DEF read
  <2>4. seen = [job EXCEPT !.sources = read]
    BY DEF read
  <2>5. seen \in Job /\ SameWork(job, seen) /\ seen.entry = job.entry /\ seen.failed \in SUBSET App
    BY <2>1, <2>4 DEF Job, SameWork
  <2>6. RememberedBy(seen)
    BY <2>3, <2>4 DEF Job, RememberedBy
  <2>. QED
    BY <2>5, <2>6
<1> HIDE DEF seen
<1>3. CASE Decision(a, exists) = "update"
  <2>1. j = Bump(a)
    BY <1>3 DEF Decided
  <2>2. Current(a) # {} /\ Current(a) # {job.tag} /\ (a \in Checked => exists)
    BY <1>3 DEF Decide, Decision
  <2>3. Source(a)[<<"pin", a>>] = job.tree[<<"pin", a>>]
    BY <1>1, LineFacts DEF Lines
  <2>4. job.tree[<<"pin", a>>] # job.tag
    BY <2>2, <2>3 DEF Current
  <2>5. /\ Rewritten(a) = [l \in Lines(File[a]) |-> Written(a)[l]]
        /\ Written(a) \in Text
        /\ \A b \in App \ {a} : Written(a)[<<"pin", b>>] = job.tree[<<"pin", b>>]
    BY WrittenFacts
  <2>6. Rewritten(a) \in Change
    <3>1. Rewritten(a) \in [Lines(File[a]) -> Value]
      BY <2>5 DEF Lines, Text, Value
    <3>. QED
      BY <3>1 DEF Change, Partial, Lines
  <2> DEFINE commit == Commit(job.tree, Written(a))
             title == [app |-> a, from |-> job.tree[<<"pin", a>>], to |-> job.tag]
             kept == Remember(a, Rewritten(a))
  <2>7. commit \in Patch
    BY <1>0, <2>5, CommitFacts
  <2>8. title \in Title
    BY <1>0, LineFacts DEF Title, Text, Value
  <2>9. kept \in Partial({File[b] : b \in App}, Change)
    BY <2>6, RememberFacts
  <2>10. j = [job EXCEPT !.sources = kept, !.tree = Written(a),
                         !.commits = Append(job.commits, commit),
                         !.titles = Append(job.titles, title)]
    BY <2>1, <2>3 DEF Bump
  <2>11. \A f \in DOMAIN kept : kept[f] = [l \in Lines(f) |-> Written(a)[l]]
    <3> SUFFICES ASSUME NEW f \in DOMAIN kept
                 PROVE  kept[f] = [l \in Lines(f) |-> Written(a)[l]]
      OBVIOUS
    <3>1. CASE f = File[a]
      BY <2>5, <2>6, <3>1, RememberFacts
    <3>2. CASE f # File[a]
      <4>1. f \in DOMAIN job.sources /\ kept[f] = [l \in Lines(f) |-> job.tree[l]]
        <5>1. DOMAIN kept = DOMAIN job.sources \cup {File[a]}
          BY <2>6, RememberFacts
        <5>2. f \in DOMAIN job.sources
          BY <3>2, <5>1
        <5>3. kept[f] = job.sources[f]
          BY <2>6, <3>2, <5>2, RememberFacts
        <5>. QED
          BY <5>2, <5>3 DEF Sourced
      <4>2. f \in {File[b] : b \in App}
        BY <4>1, PartialFacts DEF Job
      <4>3. \A l \in Lines(f) : l = <<"pin", l[2]>> /\ l[2] \in App /\ l[2] # a
        BY <3>2, <4>2, LineFacts, UpdaterAssumption DEF Lines
      <4>4. \A l \in Lines(f) : Written(a)[l] = job.tree[l]
        BY <2>5, <4>3
      <4>. QED
        BY <4>1, <4>4
    <3>. QED
      BY <3>1, <3>2
  <2> HIDE DEF commit, title, kept
  <2>12. Append(job.commits, commit) \in Seq(Patch) /\ Append(job.titles, title) \in Seq(Title)
    BY <2>7, <2>8 DEF Job
  <2>13. j \in Job /\ j.entry = job.entry
    BY <2>5, <2>9, <2>10, <2>12 DEF Job
  <2>14. Bumps(a, j)
    BY <2>4, <2>10 DEF Bumps, Job, commit, title
  <2>15. RememberedBy(j)
    BY <2>10, <2>11 DEF RememberedBy, Job
  <2>. QED
    BY <1>3, <2>2, <2>13, <2>14, <2>15
<1>4. CASE Decision(a, exists) = "problem"
  <2>1. j = [seen EXCEPT !.failed = seen.failed \cup {a}]
    BY <1>4 DEF Decided, seen
  <2> DEFINE now == seen.failed \cup {a}
  <2>2. now \in SUBSET App
    BY <1>2
  <2> HIDE DEF now
  <2>3. j = [seen EXCEPT !.failed = now]
    BY <2>1 DEF now
  <2>4. j \in Job /\ j.entry = seen.entry /\ j.sources = seen.sources /\ j.tree = seen.tree
    BY <1>2, <2>2, <2>3 DEF Job
  <2>5. RememberedBy(j)
    BY <1>2, <2>4 DEF RememberedBy
  <2>6. SameWork(job, j)
    BY <1>2, <2>1 DEF Job, SameWork
  <2>. QED
    BY <1>2, <2>4, <2>5, <2>6
<1>5. CASE Decision(a, exists) \notin {"update", "problem"}
  <2>1. j = seen
    BY <1>5 DEF Decided, seen
  <2>. QED
    BY <1>2, <2>1
<1>. QED
  BY <1>3, <1>4, <1>5

-----------------------------------------------------------------------------
(* The kinds of step. *)

World == UNCHANGED <<releases, published, main, author>>

\* On with the next entry, or to the push.
Onward ==
  \/ job'.step = "read" /\ job'.entry = job.entry + 1
  \/ job'.step = "pull"

Off == World /\ job'.step \in {"idle", "sync"}

Began ==
  /\ World
  /\ job'.step = "read"
  /\ job'.entry = 1
  /\ job'.base = main
  /\ job'.tree = main.lines
  /\ job'.commits = <<>>
  /\ job'.todo = <<>>
  /\ job'.titles = <<>>
  /\ ~job'.rebasing

Chose ==
  /\ World
  /\ job.step = "read"
  /\ job'.step = "check"
  /\ SameWork(job, job')
  /\ job'.entry = job.entry
  /\ \E t \in Latest(Entry) : job'.tag = t.version

PassedOver ==
  /\ World
  /\ job.step \in {"read", "check"}
  /\ SameWork(job, job')
  /\ Onward

Bumped ==
  /\ World
  /\ job.step = "check"
  /\ Bumps(Entry, job')
  /\ Entry \in Resolved => job.tag \in published[Entry]
  /\ Onward

Fetched ==
  /\ World
  /\ job.step = "pull"
  /\ ~job.rebasing
  /\ job'.step = "rebase"
  /\ job'.base = main
  /\ job'.tree = main.lines
  /\ job'.todo = job.commits
  /\ job'.commits = <<>>
  /\ job'.titles = job.titles
  /\ ~job'.rebasing

\* An attempt fails, in the rebase for good.
Lost ==
  /\ World
  /\ job.step \in {"pull", "rebase", "push"}
  /\ job'.step = "pull"
  /\ job'.base = job.base
  /\ job'.tree = job.tree
  /\ job'.commits = job.commits
  /\ job'.todo = job.todo
  /\ job'.titles = job.titles
  /\ job'.rebasing \/ (~job.rebasing /\ job.step # "rebase")

Replayed ==
  /\ World
  /\ job.step = "rebase"
  /\ job'.step = "rebase"
  /\ job.todo # <<>>
  /\ Fits(Head(job.todo))
  /\ job'.base = job.base
  /\ job'.tree = Applied(Head(job.todo))
  /\ job'.commits = Kept(Head(job.todo))
  /\ job'.todo = Tail(job.todo)
  /\ job'.titles = job.titles
  /\ job'.rebasing = job.rebasing

Rebased ==
  /\ World
  /\ job.step = "rebase"
  /\ job.todo = <<>>
  /\ job'.step = "push"
  /\ SameWork(job, job')

Pushed ==
  /\ UNCHANGED upstream
  /\ job.step = "push"
  /\ job'.step = "record"
  /\ main.moved = job.base.moved
  /\ main' = IF job.commits = <<>> THEN main
             ELSE [lines |-> job.tree, moved |-> main.moved + 1]
  /\ author' = [l \in Line |-> IF job.tree[l] # main.lines[l] THEN "updater" ELSE author[l]]

Outside ==
  /\ UNCHANGED job
  /\ \/ \E a \in App, v \in Version : Release(a, v) \/ Publish(a, v)
     \/ \E a \in App, v \in Value : Edit(a, v)
     \/ World

Kinds == \/ Off \/ Began \/ Chose \/ PassedOver \/ Bumped \/ Fetched
         \/ Lost \/ Replayed \/ Rebased \/ Pushed \/ Outside

LEMMA AppliedFacts ==
  ASSUME job \in Job, NEW commit \in Patch
  PROVE  Applied(commit) \in Text
<1>1. /\ DOMAIN commit.to \subseteq Line
      /\ \A l \in DOMAIN commit.to : commit.to[l] \in Value
  BY PartialFacts DEF Patch, Change
<1>2. job.tree \in Text
  BY DEF Job
<1>. QED
  BY <1>1, <1>2 DEF Applied, Text, Value

LEMMA KeptFacts ==
  ASSUME job \in Job, NEW commit \in Patch
  PROVE  Kept(commit) \in Seq(Patch)
<1>1. job.tree \in Text /\ job.commits \in Seq(Patch)
  BY DEF Job
<1>2. Commit(job.tree, Applied(commit)) \in Patch
  BY <1>1, AppliedFacts, CommitFacts
<1>. QED
  BY <1>1, <1>2 DEF Kept

\* What a run takes for a program's newest release is one of its repository's.
LEMMA LatestFacts ==
  ASSUME Typed, NEW a \in App, NEW t \in Latest(a)
  PROVE  /\ t \in Released
         /\ \E i \in DOMAIN releases[Repo[a]] : releases[Repo[a]][i] = t
<1> DEFINE tags == releases[Repo[a]]
<1>1. tags \in Seq(Released) /\ tags # <<>>
  BY DEF Typed
<1>2. t \in ToSet(tags) \/ t = Last(tags)
  BY DEF Latest, PickLatestTag
<1>3. \E i \in DOMAIN tags : tags[i] = t
  BY <1>1, <1>2 DEF ToSet, Last
<1>. QED
  BY <1>1, <1>3

LEMMA EntryFacts ==
  ASSUME job \in Job
  PROVE  Entry \in App
  BY UpdaterAssumption DEF Entry, Job

LEMMA Steps ==
  ASSUME Typed, Sourced, Clean, [Next]_vars
  PROVE  /\ job' \in Job
         /\ Sourced'
         /\ Clean'
         /\ Kinds
<1>0. job \in Job /\ Idle \in Job /\ Idle.step = "idle"
  BY IdleTyped DEF Typed, Idle
<1>1. ASSUME job' = Idle, World
      PROVE  job' \in Job /\ Sourced' /\ Clean' /\ Kinds
  BY <1>0, <1>1 DEF Sourced, Clean, Kinds, Off
<1>2. CASE Outside
  BY <1>0, <1>2 DEF Sourced, Lines, Clean, Kinds, Outside
<1>3. CASE Start
  <2>1. job' = [Idle EXCEPT !.step = "sync"] /\ World
    BY <1>3 DEF Start, World, upstream, origin
  <2>2. job' \in Job /\ job'.step = "sync"
    BY <1>0, <2>1 DEF Job, Step
  <2>. QED
    BY <2>1, <2>2 DEF Sourced, Clean, Kinds, Off
<1>4. CASE Sync
  <2>1. World
    BY <1>4 DEF Sync, World, upstream, origin
  <2>2. CASE job' = [job EXCEPT !.step = "read", !.base = main, !.tree = main.lines]
    <3>1. job = [Idle EXCEPT !.step = "sync"]
      BY <1>4 DEF Sync, Clean
    <3>2. /\ job.entry = 1 /\ job.commits = <<>> /\ job.todo = <<>> /\ job.titles = <<>>
          /\ job.rebasing = FALSE /\ job.sources = <<>>
      BY <3>1 DEF Idle
    <3>3. main.lines \in Text /\ main \in Main
      BY DEF Typed, Main
    <3>4. job' \in Job /\ job'.sources = <<>> /\ job'.step = "read"
      BY <1>0, <2>2, <3>2, <3>3 DEF Job, Step
    <3>5. Began
      BY <1>0, <2>1, <2>2, <3>2 DEF Began, Job
    <3>. QED
      BY <3>4, <3>5 DEF Sourced, Clean, Kinds
  <2>3. CASE job' = Idle
    BY <1>1, <2>1, <2>3
  <2>. QED
    BY <1>4, <2>2, <2>3 DEF Sync, Throws
<1>5. CASE ReadRelease
  <2>1. World /\ job.step = "read"
    BY <1>5 DEF ReadRelease, World, upstream, origin
  <2>2. ASSUME NEW t \in Latest(Entry), job' = [job EXCEPT !.step = "check", !.tag = t.version]
        PROVE  job' \in Job /\ Sourced' /\ Clean' /\ Kinds
    <3>1. t.version \in Version
      BY <1>0, EntryFacts, LatestFacts DEF Released
    <3>2. /\ job' \in Job
          /\ SameWork(job, job')
          /\ job'.step = "check"
          /\ job'.entry = job.entry
          /\ job'.tag = t.version
          /\ job'.sources = job.sources
      BY <1>0, <2>2, <3>1 DEF Job, Step, Value, SameWork
    <3>3. Sourced'
      BY <2>1, <3>2 DEF Sourced, Lines, SameWork
    <3>4. Chose
      BY <2>1, <3>2 DEF Chose
    <3>. QED
      BY <3>2, <3>3, <3>4 DEF Clean, Kinds
  <2>3. CASE job' = NextEntry([job EXCEPT !.failed = @ \cup {Entry}])
    <3> DEFINE j == [job EXCEPT !.failed = @ \cup {Entry}]
    <3>1. /\ j \in Job
          /\ SameWork(job, j)
          /\ j.entry = job.entry
          /\ j.sources = job.sources
      BY <1>0, EntryFacts DEF Job, SameWork
    <3> HIDE DEF j
    <3>2. CASE job' = Idle
      BY <1>1, <2>1, <3>2
    <3>3. CASE job' # Idle
      <4>1. /\ job' \in Job
            /\ SameWork(j, job')
            /\ job'.sources = j.sources
            /\ \/ job'.step = "read" /\ job'.entry = j.entry + 1
               \/ job'.step = "pull"
        BY <2>3, <3>1, <3>3, NextEntryFacts DEF j
      <4>2. SameWork(job, job')
        BY <3>1, <4>1 DEF SameWork
      <4>3. Sourced'
        BY <2>1, <3>1, <4>1, <4>2 DEF Sourced, Lines, SameWork
      <4>4. PassedOver
        BY <2>1, <3>1, <4>1, <4>2 DEF PassedOver, Onward
      <4>. QED
        BY <4>1, <4>3, <4>4 DEF Clean, Kinds
    <3>. QED
      BY <3>2, <3>3
  <2>. QED
    BY <1>5, <2>2, <2>3 DEF ReadRelease
<1>6. CASE CheckAndWrite
  <2>1. World /\ job.step = "check" /\ Entry \in App
    BY <1>0, <1>6, EntryFacts DEF CheckAndWrite, World, upstream, origin
  <2>2. ASSUME NEW exists \in {Exists(Entry), FALSE},
               job' = AfterEntry(Entry, exists)
        PROVE  job' \in Job /\ Sourced' /\ Clean' /\ Kinds
    <3> DEFINE j == Decided(Entry, exists)
    <3>1. /\ j \in Job
          /\ RememberedBy(j)
          /\ j.entry = job.entry
          /\ \/ SameWork(job, j)
             \/ /\ Bumps(Entry, j)
                /\ Decision(Entry, exists) = "update"
                /\ Entry \in Checked => exists
      BY <1>0, <2>1, DecidedFacts
    <3>4. \/ job' = Idle
          \/ job' = NextEntry(j) /\ (Decision(Entry, exists) = "update" => Installs(Entry))
      BY <2>2 DEF AfterEntry
    <3> HIDE DEF j
    <3>2. CASE job' = Idle
      BY <1>1, <2>1, <3>2
    <3>3. CASE job' # Idle
      <4>1. /\ job' \in Job
            /\ SameWork(j, job')
            /\ job'.sources = j.sources
            /\ \/ job'.step = "read" /\ job'.entry = j.entry + 1
               \/ job'.step = "pull"
        BY <3>1, <3>3, <3>4, NextEntryFacts
      <4>2. Sourced'
        BY <3>1, <4>1 DEF Sourced, RememberedBy, Lines, SameWork
      <4>3. CASE SameWork(job, j)
        <5>1. PassedOver
          BY <2>1, <3>1, <4>1, <4>3 DEF PassedOver, Onward, SameWork
        <5>. QED
          BY <4>1, <4>2, <5>1 DEF Clean, Kinds
      <4>4. CASE /\ Bumps(Entry, j)
                 /\ Decision(Entry, exists) = "update"
                 /\ Entry \in Checked => exists
        <5>1. Bumps(Entry, job')
          BY <4>1, <4>4 DEF Bumps, SameWork
        <5>2. Entry \in Resolved => job.tag \in published[Entry]
          BY <3>3, <3>4, <4>4, UpdaterAssumption DEF Exists, Installs, Resolved
        <5>3. Bumped
          BY <2>1, <3>1, <4>1, <5>1, <5>2 DEF Bumped, Onward
        <5>. QED
          BY <4>1, <4>2, <5>3 DEF Clean, Kinds
      <4>. QED
        BY <3>1, <4>3, <4>4
    <3>. QED
      BY <3>2, <3>3
  <2>3. \/ \E exists \in {Exists(Entry), FALSE} : job' = AfterEntry(Entry, exists)
        \/ job' = Idle
    BY <1>6 DEF CheckAndWrite, Throws
  <2>. QED
    BY <1>1, <2>1, <2>2, <2>3
<1>7. ASSUME World, job.step \in {"pull", "rebase", "push"},
             NEW j \in Job, job' = AttemptFails(j),
             j.base = job.base, j.tree = job.tree, j.commits = job.commits, j.todo = job.todo,
             j.titles = job.titles,
             j.rebasing \/ (~job.rebasing /\ job.step # "rebase")
      PROVE  job' \in Job /\ Sourced' /\ Clean' /\ Kinds
  <2>1. CASE job' = Idle
    BY <1>1, <1>7, <2>1
  <2>2. CASE job' # Idle
    <3>1. job' \in Job /\ SameWork(j, job') /\ job'.step = "pull"
      BY <1>7, <2>2, AttemptFacts
    <3>2. Lost
      BY <1>7, <3>1 DEF Lost, SameWork
    <3>. QED
      BY <3>1, <3>2 DEF Sourced, Clean, Kinds
  <2>. QED
    BY <2>1, <2>2
<1>8. CASE Pull
  <2>1. World /\ job.step = "pull"
    BY <1>8 DEF Pull, World, upstream, origin
  <2>2. CASE /\ ~job.rebasing
             /\ job' = [job EXCEPT !.step = "rebase", !.base = main, !.tree = main.lines,
                                   !.todo = job.commits, !.commits = <<>>]
    <3>1. main.lines \in Text /\ main \in Main
      BY DEF Typed, Main
    <3>2. job' \in Job /\ job'.step = "rebase"
      <4>1. job.commits \in Seq(Patch) /\ <<>> \in Seq(Patch) /\ "rebase" \in Step
        BY <1>0 DEF Job, Step
      <4>. QED
        BY <1>0, <2>2, <3>1, <4>1 DEF Job
    <3>3. Fetched
      BY <1>0, <2>1, <2>2 DEF Fetched, Job
    <3>. QED
      BY <3>2, <3>3 DEF Sourced, Clean, Kinds
  <2>3. CASE job' = AttemptFails([job EXCEPT !.rebasing = TRUE])
    <3> DEFINE j == [job EXCEPT !.rebasing = TRUE]
    <3>1. /\ j \in Job /\ j.rebasing
          /\ j.base = job.base /\ j.tree = job.tree /\ j.commits = job.commits
          /\ j.todo = job.todo /\ j.titles = job.titles
      BY <1>0 DEF Job
    <3>. QED
      BY <1>7, <2>1, <2>3, <3>1
  <2>4. CASE job' = AttemptFails(job)
    <3>1. CASE job.rebasing
      BY <1>0, <1>7, <2>1, <2>4, <3>1
    <3>2. CASE ~job.rebasing
      BY <1>0, <1>7, <2>1, <2>4, <3>2
    <3>. QED
      BY <3>1, <3>2
  <2>. QED
    BY <1>8, <2>2, <2>3, <2>4 DEF Pull
<1>9. CASE Replay
  <2>1. World /\ job.step = "rebase"
    BY <1>9 DEF Replay, World, upstream, origin
  <2>2. CASE job.todo = <<>> /\ job' = [job EXCEPT !.step = "push"]
    <3>1. job' \in Job /\ job'.step = "push" /\ SameWork(job, job')
      BY <1>0, <2>2 DEF Job, Step, SameWork
    <3>2. Rebased
      BY <2>1, <2>2, <3>1 DEF Rebased
    <3>. QED
      BY <3>1, <3>2 DEF Sourced, Clean, Kinds
  <2>3. CASE /\ job.todo # <<>>
             /\ Fits(Head(job.todo))
             /\ job' = [job EXCEPT !.tree = Applied(Head(job.todo)),
                                   !.commits = Kept(Head(job.todo)), !.todo = Tail(@)]
    <3>1. Head(job.todo) \in Patch /\ Tail(job.todo) \in Seq(Patch)
      BY <1>0, <2>3, Parted DEF Job
    <3>2. Applied(Head(job.todo)) \in Text /\ Kept(Head(job.todo)) \in Seq(Patch)
      BY <1>0, <3>1, AppliedFacts, KeptFacts
    <3>3. /\ job' \in Job
          /\ job'.step = "rebase" /\ job'.base = job.base /\ job'.titles = job.titles
          /\ job'.rebasing = job.rebasing /\ job'.todo = Tail(job.todo)
          /\ job'.tree = Applied(Head(job.todo)) /\ job'.commits = Kept(Head(job.todo))
      BY <1>0, <2>1, <2>3, <3>1, <3>2 DEF Job
    <3>4. Replayed
      BY <2>1, <2>3, <3>3 DEF Replayed
    <3>. QED
      BY <3>3, <3>4 DEF Sourced, Clean, Kinds
  <2>4. CASE job' = AttemptFails([job EXCEPT !.rebasing = TRUE])
    <3> DEFINE j == [job EXCEPT !.rebasing = TRUE]
    <3>1. /\ j \in Job /\ j.rebasing
          /\ j.base = job.base /\ j.tree = job.tree /\ j.commits = job.commits
          /\ j.todo = job.todo /\ j.titles = job.titles
      BY <1>0 DEF Job
    <3>. QED
      BY <1>7, <2>1, <2>4, <3>1
  <2>. QED
    BY <1>9, <2>2, <2>3, <2>4 DEF Replay
<1>10. CASE Push
  <2>1. job.step = "push" /\ UNCHANGED upstream
    BY <1>10 DEF Push
  <2>2. CASE /\ main.moved = job.base.moved
             /\ main' = IF job.commits = <<>> THEN main
                        ELSE [lines |-> job.tree, moved |-> main.moved + 1]
             /\ author' = [l \in Line |->
                            IF job.tree[l] # main.lines[l] THEN "updater" ELSE author[l]]
             /\ job' = [job EXCEPT !.step = "record"]
    <3>1. job' \in Job /\ job'.step = "record"
      BY <1>0, <2>2 DEF Job, Step
    <3>2. Pushed
      BY <2>1, <2>2, <3>1 DEF Pushed
    <3>. QED
      BY <3>1, <3>2 DEF Sourced, Clean, Kinds
  <2>3. CASE job' = AttemptFails(job) /\ UNCHANGED origin
    <3>1. World
      BY <2>1, <2>3 DEF World, upstream, origin
    <3>2. CASE job.rebasing
      BY <1>0, <1>7, <2>1, <2>3, <3>1, <3>2
    <3>3. CASE ~job.rebasing
      BY <1>0, <1>7, <2>1, <2>3, <3>1, <3>3
    <3>. QED
      BY <1>0, <3>2, <3>3 DEF Job
  <2>. QED
    BY <1>10, <2>2, <2>3 DEF Push
<1>11. CASE Record
  BY <1>1, <1>11 DEF Record, World, upstream, origin
<1>12. Outside \/ Start \/ Sync \/ ReadRelease \/ CheckAndWrite \/ Pull \/ Replay \/ Push \/ Record
  <2>1. ASSUME NEW a \in App, NEW v \in Version, Release(a, v) \/ Publish(a, v)
        PROVE  Outside
    BY <2>1 DEF Outside, Release, Publish
  <2>2. ASSUME NEW a \in App, NEW v \in Version \cup {Missing}, Edit(a, v)
        PROVE  Outside
    BY <2>2 DEF Outside, Edit, Value
  <2>3. CASE UNCHANGED vars
    BY <2>3 DEF vars, Outside, World
  <2>. QED
    BY <2>1, <2>2, <2>3 DEF Next, Proceed
<1>. QED
  BY <1>2, <1>3, <1>4, <1>5, <1>6, <1>8, <1>9, <1>10, <1>11, <1>12

LEMMA TypedNext == Typed /\ Sourced /\ Clean /\ [Next]_vars => Typed'
<1> SUFFICES ASSUME Typed, Sourced, Clean, [Next]_vars
             PROVE  Typed'
  OBVIOUS
<1>1. job' \in Job /\ Kinds
  BY Steps
<1>2. /\ releases' \in [{Repo[a] : a \in App} -> Seq(Released) \ {<<>>}]
      /\ published' \in [App -> SUBSET Version]
  <2>1. ASSUME NEW a \in App, NEW v \in Version, Release(a, v)
        PROVE  <1>2!1 /\ <1>2!2
    <3>1. Repo[a] \in DOMAIN releases /\ releases[Repo[a]] \in Seq(Released)
      BY DEF Typed
    <3>2. Tag(a, v) \in Released
      BY DEF Tag, Released
    <3>3. Append(releases[Repo[a]], Tag(a, v)) \in Seq(Released) \ {<<>>}
      BY <3>1, <3>2, Appended
    <3>. QED
      BY <2>1, <3>1, <3>3 DEF Release, Typed
  <2>2. ASSUME NEW a \in App, NEW v \in Version, Publish(a, v)
        PROVE  <1>2!1 /\ <1>2!2
    BY <2>2 DEF Publish, Typed
  <2>3. CASE UNCHANGED <<releases, published>>
    BY <2>3 DEF Typed
  <2>. QED
    BY <1>1, <2>1, <2>2, <2>3 DEF Kinds, Off, Began, Chose, PassedOver, Bumped, Fetched, Lost,
       Replayed, Rebased, Pushed, Outside, World, Edit, upstream
<1>3. main' \in Main /\ author' \in [Line -> {"nobody", "person", "updater"}]
  <2>1. ASSUME NEW a \in App, NEW v \in Value, Edit(a, v)
        PROVE  main' \in Main /\ author' \in [Line -> {"nobody", "person", "updater"}]
    BY <2>1 DEF Edit, Typed, Main, Text, Value
  <2>2. CASE Pushed
    BY <2>2 DEF Pushed, Typed, Main, Job
  <2>3. CASE UNCHANGED <<main, author>>
    BY <2>3 DEF Typed
  <2>. QED
    BY <1>1, <2>1, <2>2, <2>3 DEF Kinds, Off, Began, Chose, PassedOver, Bumped, Fetched, Lost,
       Replayed, Rebased, Outside, World, Release, Publish, origin
<1>4. edits' \in 0..MaxEdits /\ faults' \in 0..MaxFaults
  <2>1. edits' = edits \/ (edits < MaxEdits /\ edits' = edits + 1)
    BY DEF Next, vars, Release, Publish, Edit, Start, Proceed, Sync, ReadRelease,
       CheckAndWrite, Pull, Replay, Push, Record
  <2>2. faults' = faults \/ (faults < MaxFaults /\ faults' = faults + 1)
    BY DEF Next, vars, Release, Publish, Edit, Start, Proceed, Sync, ReadRelease,
       CheckAndWrite, Pull, Replay, Push, Record, Throws, Fault, NoFault
  <2>. QED
    BY <2>1, <2>2, UpdaterAssumption DEF Typed
<1>. QED
  BY <1>1, <1>2, <1>3, <1>4 DEF Typed

LEMMA BasicsAlways == Spec => [](Typed /\ Sourced /\ Clean)
<1>1. Init => Typed /\ Sourced /\ Clean
  <2> SUFFICES ASSUME Init
               PROVE  Sourced /\ Clean
    BY TypedInit
  <2>1. job.step = "idle"
    BY DEF Init, Idle
  <2>. QED
    BY <2>1 DEF Sourced, Clean
<1>2. Typed /\ Sourced /\ Clean /\ [Next]_vars => (Typed /\ Sourced /\ Clean)'
  BY Steps, TypedNext
<1>. QED
  BY <1>1, <1>2, PTL DEF Spec

\* Every variable keeps its type, and a run gives up after its third attempt
\* (pushWithRebase).
THEOREM TypeCorrect == Spec => []TypeOK
<1>1. Typed => TypeOK
  BY DEF Typed, TypeOK, Job, Released
<1>. QED
  BY <1>1, BasicsAlways, PTL

-----------------------------------------------------------------------------
(* The manifests and the lockfile: on main, in the tree, and in each commit. *)

Underway == job.step \in {"read", "check", "pull", "rebase", "push"}

Agree(lines) == \A d \in Dependency : lines[<<"lock", d>>] = lines[<<"pin", d>>]

Paired(commit) ==
  \A d \in Dependency :
    /\ <<"pin", d>> \in DOMAIN commit.to <=> <<"lock", d>> \in DOMAIN commit.to
    /\ <<"pin", d>> \in DOMAIN commit.to => commit.to[<<"lock", d>>] = commit.to[<<"pin", d>>]

Agreed ==
  /\ Agree(main.lines)
  /\ Underway => /\ Agree(job.tree)
                 /\ \A i \in DOMAIN job.commits : Paired(job.commits[i])
                 /\ \A i \in DOMAIN job.todo : Paired(job.todo[i])

LEMMA PairedCommit ==
  ASSUME NEW before \in Text, NEW after \in Text, Agree(before), Agree(after)
  PROVE  Paired(Commit(before, after))
<1> SUFFICES ASSUME NEW d \in Dependency
             PROVE  /\ <<"pin", d>> \in DOMAIN Commit(before, after).to
                          <=> <<"lock", d>> \in DOMAIN Commit(before, after).to
                    /\ <<"pin", d>> \in DOMAIN Commit(before, after).to =>
                         Commit(before, after).to[<<"lock", d>>] = Commit(before, after).to[<<"pin", d>>]
  BY DEF Paired
<1>1. <<"pin", d>> \in Line /\ <<"lock", d>> \in Line
  BY LineFacts, UpdaterAssumption
<1>2. before[<<"lock", d>>] = before[<<"pin", d>>] /\ after[<<"lock", d>>] = after[<<"pin", d>>]
  BY DEF Agree
<1>. QED
  BY <1>1, <1>2, CommitFacts

LEMMA AgreedWritten ==
  ASSUME job \in Job, Sourced, job.step = "check", NEW a \in App, Agree(job.tree)
  PROVE  Agree(Written(a))
<1> SUFFICES ASSUME NEW d \in Dependency
             PROVE  Written(a)[<<"lock", d>>] = Written(a)[<<"pin", d>>]
  BY DEF Agree
<1>1. job.tree[<<"lock", d>>] = job.tree[<<"pin", d>>] /\ d \in App
  BY UpdaterAssumption DEF Agree
<1>. QED
  BY <1>1, WrittenFacts

LEMMA AgreedApplied ==
  ASSUME NEW commit, Paired(commit), Agree(job.tree)
  PROVE  Agree(Applied(commit))
<1> SUFFICES ASSUME NEW d \in Dependency
             PROVE  Applied(commit)[<<"lock", d>>] = Applied(commit)[<<"pin", d>>]
  BY DEF Agree
<1>1. <<"pin", d>> \in Line /\ <<"lock", d>> \in Line
  BY LineFacts, UpdaterAssumption
<1>. QED
  BY <1>1 DEF Agree, Paired, Applied

LEMMA AgreedNext ==
  ASSUME Typed, Typed', Sourced, Agreed, Kinds
  PROVE  Agreed'
<1> USE DEF Agreed
<1>0. /\ job \in Job /\ job' \in Job
      /\ job.tree \in Text
      /\ job.commits \in Seq(Patch) /\ job.todo \in Seq(Patch)
  BY DEF Typed, Job
<1>1. CASE Off
  BY <1>1 DEF Off, World, Underway
<1>2. CASE Began
  BY <1>2 DEF Began, World, Underway
<1>3. CASE World /\ Underway /\ SameWork(job, job')
  BY <1>3 DEF World, SameWork
<1>4. CASE Bumped
  <2>1. Entry \in App /\ job.step = "check" /\ Underway
    BY <1>0, <1>4, EntryFacts DEF Bumped, Underway
  <2>2. Written(Entry) \in Text /\ Agree(Written(Entry))
    BY <1>0, <2>1, WrittenFacts, AgreedWritten
  <2> DEFINE commit == Commit(job.tree, Written(Entry))
  <2>3. commit \in Patch /\ Paired(commit)
    BY <1>0, <2>1, <2>2, CommitFacts, PairedCommit
  <2>4. job'.tree = Written(Entry) /\ job'.commits = Append(job.commits, commit) /\ job'.todo = job.todo
    BY <1>4 DEF Bumped, Bumps
  <2> HIDE DEF commit
  <2>5. \A i \in DOMAIN job'.commits : Paired(job'.commits[i])
    BY <1>0, <2>1, <2>3, <2>4, Appended
  <2>. QED
    BY <1>4, <2>1, <2>2, <2>4, <2>5 DEF Bumped, World
<1>5. CASE Fetched
  BY <1>5 DEF Fetched, World, Underway
<1>6. CASE Lost
  BY <1>6 DEF Lost, World, Underway
<1>7. CASE Replayed
  <2> DEFINE commit == Head(job.todo)
             after == Applied(commit)
  <2>1. Underway /\ job.todo # <<>>
    BY <1>7 DEF Replayed, Underway
  <2>2. /\ commit \in Patch /\ Paired(commit)
        /\ \A i \in DOMAIN Tail(job.todo) : Paired(Tail(job.todo)[i])
    BY <1>0, <2>1, Parted
  <2>3. after \in Text /\ Agree(after)
    BY <1>0, <2>1, <2>2, AppliedFacts, AgreedApplied
  <2>4. Commit(job.tree, after) \in Patch /\ Paired(Commit(job.tree, after))
    BY <1>0, <2>1, <2>3, CommitFacts, PairedCommit
  <2>5. /\ job'.tree = after /\ job'.todo = Tail(job.todo)
        /\ job'.commits \in {job.commits, Append(job.commits, Commit(job.tree, after))}
    BY <1>7 DEF Replayed, Kept
  <2> HIDE DEF commit, after
  <2>6. \A i \in DOMAIN job'.commits : Paired(job'.commits[i])
    <3>1. CASE job'.commits = job.commits
      BY <2>1, <3>1
    <3>2. CASE job'.commits = Append(job.commits, Commit(job.tree, after))
      BY <1>0, <2>1, <2>4, <3>2, Appended
    <3>. QED
      BY <2>5, <3>1, <3>2
  <2>. QED
    BY <1>7, <2>2, <2>3, <2>5, <2>6 DEF Replayed, World
<1>8. CASE Pushed
  BY <1>8 DEF Pushed, Underway
<1>9. CASE Outside
  <2>1. ASSUME NEW a \in App, NEW v \in Value, Edit(a, v)
        PROVE  Agree(main'.lines)
    <3>1. main'.lines = [l \in Line |-> IF l[2] = a THEN v ELSE main.lines[l]]
      BY <2>1 DEF Edit
    <3> SUFFICES ASSUME NEW d \in Dependency
                 PROVE  main'.lines[<<"lock", d>>] = main'.lines[<<"pin", d>>]
      BY DEF Agree
    <3>2. <<"pin", d>> \in Line /\ <<"lock", d>> \in Line
      BY LineFacts, UpdaterAssumption
    <3>. QED
      BY <3>1, <3>2 DEF Agree
  <2>2. Agree(main'.lines)
    BY <1>9, <2>1 DEF Outside, World, Release, Publish, origin
  <2>. QED
    BY <1>9, <2>2 DEF Outside, Underway
<1>. QED
  BY <1>1, <1>2, <1>3, <1>4, <1>5, <1>6, <1>7, <1>8, <1>9
     DEF Kinds, Chose, PassedOver, Rebased, Underway

\* Every commit on main has a lockfile that says what the manifests say, whatever is
\* merged while a run is under way and wherever its commits land (update-apps.ts: the
\* bump of a dependency is one commit of two files).
THEOREM Lockfiles == Spec => []LockfileAgrees
<1>1. Init => Agreed
  <2> SUFFICES ASSUME Init
               PROVE  Agreed
    OBVIOUS
  <2>1. job.step = "idle"
    BY DEF Init, Idle
  <2>2. Agree(main.lines)
    <3>1. PICK v \in Version : main = [lines |-> [l \in Line |-> v], moved |-> 0]
      BY DEF Init
    <3>. QED
      BY <3>1, LineFacts, UpdaterAssumption DEF Agree
  <2>. QED
    BY <2>1, <2>2 DEF Agreed, Underway
<1>2. Typed /\ Sourced /\ Clean /\ Agreed /\ [Next]_vars => Agreed'
  BY Steps, TypedNext, AgreedNext
<1>3. Agreed => LockfileAgrees
  BY DEF Agreed, Agree, LockfileAgrees, Pin
<1>. QED
  BY <1>1, <1>2, <1>3, BasicsAlways, PTL DEF Spec

-----------------------------------------------------------------------------
(* What a run has fetched, and what main is meanwhile. *)

Tidy ==
  /\ job.step \in {"read", "check", "rebase", "push"} => ~job.rebasing
  /\ job.step \in {"read", "check", "push"} => job.todo = <<>>
  /\ job.step = "pull" /\ ~job.rebasing => job.todo = <<>>

\* Until main has moved it is what was fetched; what is not was moved by a person.
Followed ==
  Underway =>
    /\ job.base.moved <= main.moved
    /\ job.base.moved = main.moved => main = job.base
    /\ \A l \in Line : main.lines[l] = job.base.lines[l] \/ author[l] = "person"


LEMMA TidyNext ==
  ASSUME Typed, Typed', Tidy, Kinds
  PROVE  Tidy'
<1>0. job.rebasing \in BOOLEAN /\ job'.rebasing \in BOOLEAN
  BY DEF Typed, Job
<1> USE DEF Tidy
<1>1. CASE Off
  BY <1>1 DEF Off
<1>2. CASE Began
  BY <1>2 DEF Began
<1>3. CASE Chose
  BY <1>3 DEF Chose, SameWork
<1>4. CASE PassedOver
  BY <1>4 DEF PassedOver, Onward, SameWork
<1>5. CASE Bumped
  BY <1>5 DEF Bumped, Bumps, Onward
<1>6. CASE Fetched
  BY <1>6 DEF Fetched
<1>7. CASE Lost
  BY <1>7 DEF Lost
<1>8. CASE Replayed
  BY <1>8 DEF Replayed
<1>9. CASE Rebased
  BY <1>9 DEF Rebased, SameWork
<1>10. CASE Pushed
  BY <1>10 DEF Pushed
<1>11. CASE Outside
  BY <1>11 DEF Outside
<1>. QED
  BY <1>1, <1>2, <1>3, <1>4, <1>5, <1>6, <1>7, <1>8, <1>9, <1>10, <1>11 DEF Kinds

LEMMA FollowedNext ==
  ASSUME Typed, Typed', Followed, Kinds
  PROVE  Followed'
<1> USE DEF Followed
<1>0. main \in Main /\ main.moved \in Nat
  BY DEF Typed, Main
<1>1. CASE Off \/ Pushed
  BY <1>1 DEF Off, Pushed, Underway
<1>2. CASE Began \/ Fetched
  BY <1>0, <1>2 DEF Began, Fetched, World
<1>3. CASE World /\ Underway /\ job'.base = job.base
  BY <1>3 DEF World
<1>4. CASE Outside
  <2>1. ASSUME NEW a \in App, NEW v \in Value, Edit(a, v), Underway
        PROVE  Followed'
    <3>1. /\ main'.moved = main.moved + 1
          /\ \A l \in Line : l[2] # a => main'.lines[l] = main.lines[l]
          /\ \A l \in Line : author'[l] = IF l[2] = a THEN "person" ELSE author[l]
      BY <2>1 DEF Edit
    <3>2. job' = job /\ job.base.moved \in Nat
      BY <1>4 DEF Outside, Typed, Job, Main
    <3>3. job.base.moved <= main'.moved /\ job.base.moved # main'.moved
      BY <1>0, <2>1, <3>1, <3>2
    <3>. QED
      BY <2>1, <3>1, <3>2, <3>3
  <2>2. CASE ~Underway
    BY <1>4, <2>2 DEF Outside, Underway
  <2>3. CASE UNCHANGED <<main, author, job>>
    BY <2>3 DEF Underway
  <2>. QED
    BY <1>4, <2>1, <2>2, <2>3 DEF Outside, World, Release, Publish, origin
<1>. QED
  BY <1>1, <1>2, <1>3, <1>4 DEF Kinds, Chose, PassedOver, Bumped, Bumps, Lost, Replayed, Rebased,
     SameWork, Underway

-----------------------------------------------------------------------------
(* What was released, and what a run reports. *)

WasReleased(a, v) ==
  \E i \in DOMAIN releases[Repo[a]] : releases[Repo[a]][i] = Tag(a, v)

\* A version that was released, and none older than the one the updater pinned.
Newest(a, v) ==
  /\ WasReleased(a, v)
  /\ a \in Prefixed /\ author[<<"pin", a>>] = "updater" => ~Before(v, Pin(a))

Origins ==
  \A r \in DOMAIN releases : \A i \in DOMAIN releases[r] :
    Repo[releases[r][i].component] = r

Sound ==
  \A a \in App : author[<<"pin", a>>] = "updater" =>
    WasReleased(a, Pin(a)) /\ (a \in Resolved => Pin(a) \in published[a])

Looked == job.step = "check" => Newest(Entry, job.tag)

Backed(t) ==
  /\ Newest(t.app, t.to)
  /\ t.app \in Resolved => t.to \in published[t.app]
  /\ t.from # t.to
  /\ Pin(t.app) = t.from \/ author[<<"pin", t.app>>] = "person"

Behind(a) == \E k \in DOMAIN Entries : k < job.entry /\ Entries[k] = a

Reported ==
  Underway =>
    /\ \A i \in DOMAIN job.titles : Backed(job.titles[i])
    /\ \A i, j \in DOMAIN job.titles : job.titles[i].app = job.titles[j].app => i = j
    /\ job.step \in {"read", "check"} => \A i \in DOMAIN job.titles : Behind(job.titles[i].app)

Titled(a, v, w) == \E i \in DOMAIN job.titles : job.titles[i] = [app |-> a, from |-> v, to |-> w]

Exact(commit) ==
  \A a \in App : <<"pin", a>> \in DOMAIN commit.to =>
    Titled(a, commit.from[<<"pin", a>>], commit.to[<<"pin", a>>])

Touched(a, commits) == \E i \in DOMAIN commits : <<"pin", a>> \in DOMAIN commits[i].to

Made ==
  Underway => /\ \A i \in DOMAIN job.commits : Exact(job.commits[i])
              /\ \A i \in DOMAIN job.todo : Exact(job.todo[i])

Changed ==
  Underway =>
    \A a \in App : job.tree[<<"pin", a>>] # job.base.lines[<<"pin", a>>] =>
      /\ Titled(a, job.base.lines[<<"pin", a>>], job.tree[<<"pin", a>>])
      /\ Touched(a, job.commits)

\* A person has moved a title's pin, or its commit is still to be put on what was
\* fetched, or is there.
Held(t) ==
  \/ author[<<"pin", t.app>>] = "person"
  \/ Touched(t.app, job.todo)
  \/ job.tree[<<"pin", t.app>>] = t.to /\ Touched(t.app, job.commits)

Pending == Underway => \A i \in DOMAIN job.titles : Held(job.titles[i])

LEMMA TouchedFacts ==
  ASSUME NEW a \in App, NEW s \in Seq(Patch)
  PROVE  /\ \A c \in Patch : \A t : t = Append(s, c) =>
              (Touched(a, t) <=> Touched(a, s) \/ <<"pin", a>> \in DOMAIN c.to)
         /\ s # <<>> => (Touched(a, s) <=> <<"pin", a>> \in DOMAIN Head(s).to \/ Touched(a, Tail(s)))
         /\ s = <<>> => ~Touched(a, s)
<1>1. ASSUME NEW c \in Patch, NEW t, t = Append(s, c)
      PROVE  Touched(a, t) <=> Touched(a, s) \/ <<"pin", a>> \in DOMAIN c.to
  <2>1. /\ DOMAIN t = DOMAIN s \cup {Len(s) + 1}
        /\ \A i \in DOMAIN s : t[i] = s[i]
        /\ t[Len(s) + 1] = c
    BY <1>1
  <2>. QED
    BY <2>1 DEF Touched
<1>2. ASSUME s # <<>>
      PROVE  Touched(a, s) <=> <<"pin", a>> \in DOMAIN Head(s).to \/ Touched(a, Tail(s))
  <2>1. ASSUME NEW i \in DOMAIN s, <<"pin", a>> \in DOMAIN s[i].to, i # 1
        PROVE  Touched(a, Tail(s))
    <3>1. i - 1 \in DOMAIN Tail(s) /\ Tail(s)[i - 1] = s[i]
      BY <1>2, <2>1, Parted
    <3>. QED
      BY <2>1, <3>1 DEF Touched
  <2>2. ASSUME NEW i \in DOMAIN Tail(s), <<"pin", a>> \in DOMAIN Tail(s)[i].to
        PROVE  Touched(a, s)
    <3>1. i + 1 \in DOMAIN s /\ Tail(s)[i] = s[i + 1]
      BY <1>2, Parted
    <3>. QED
      BY <2>2, <3>1 DEF Touched
  <2>3. 1 \in DOMAIN s /\ Head(s) = s[1]
    BY <1>2, Parted
  <2>. QED
    BY <2>1, <2>2, <2>3 DEF Touched
<1>3. s = <<>> => ~Touched(a, s)
  BY DEF Touched
<1>. QED
  BY <1>1, <1>2, <1>3

\* Everything but a push adds to what was released, and changes of a pin only what a
\* person does.
LEMMA WorldGoesOn ==
  ASSUME Typed, Kinds, ~Pushed
  PROVE  /\ \A a \in App, v \in Value : WasReleased(a, v) => WasReleased(a, v)'
         /\ \A a \in App : published[a] \subseteq published'[a]
         /\ \A a \in App : \/ Pin(a)' = Pin(a) /\ author'[<<"pin", a>>] = author[<<"pin", a>>]
                         \/ author'[<<"pin", a>>] = "person"
<1>1. CASE World
  BY <1>1 DEF World, WasReleased, Pin
<1>2. ASSUME NEW b \in App, NEW w \in Version, Release(b, w)
      PROVE  /\ \A a \in App, v \in Value : WasReleased(a, v) => WasReleased(a, v)'
             /\ \A a \in App : published[a] \subseteq published'[a]
             /\ UNCHANGED <<main, author>>
  <2>1. /\ Repo[b] \in DOMAIN releases
        /\ releases[Repo[b]] \in Seq(Released)
        /\ Tag(b, w) \in Released
        /\ \A a \in App : Repo[a] \in DOMAIN releases
    BY DEF Typed, Tag, Released
  <2>2. releases' = [releases EXCEPT ![Repo[b]] = Append(releases[Repo[b]], Tag(b, w))]
    BY <1>2 DEF Release
  <2>3. ASSUME NEW a \in App, NEW v \in Value, WasReleased(a, v)
        PROVE  WasReleased(a, v)'
    <3>1. PICK i \in DOMAIN releases[Repo[a]] : releases[Repo[a]][i] = Tag(a, v)
      BY <2>3 DEF WasReleased
    <3>2. i \in DOMAIN releases'[Repo[a]] /\ releases'[Repo[a]][i] = Tag(a, v)
      <4>1. CASE Repo[a] = Repo[b]
        <5>1. releases'[Repo[a]] = Append(releases[Repo[b]], Tag(b, w))
          BY <2>1, <2>2, <4>1 DEF Typed
        <5>. QED
          BY <2>1, <3>1, <4>1, <5>1, Appended
      <4>2. CASE Repo[a] # Repo[b]
        BY <2>1, <2>2, <3>1, <4>2 DEF Typed
      <4>. QED
        BY <4>1, <4>2
    <3>. QED
      BY <3>2 DEF WasReleased
  <2>4. \A a \in App : published[a] \subseteq published'[a]
    BY <1>2 DEF Release, Typed
  <2>. QED
    BY <1>2, <2>3, <2>4 DEF Release, origin
<1>3. ASSUME NEW b \in App, NEW w \in Version, Publish(b, w)
      PROVE  /\ UNCHANGED <<releases, main, author>>
             /\ \A a \in App : published[a] \subseteq published'[a]
  BY <1>3 DEF Publish, Typed, origin
<1>4. ASSUME NEW b \in App, NEW w \in Value, Edit(b, w), NEW a \in App
      PROVE  \/ Pin(a)' = Pin(a) /\ author'[<<"pin", a>>] = author[<<"pin", a>>]
             \/ author'[<<"pin", a>>] = "person"
  BY <1>4, LineFacts DEF Edit, Pin
<1>5. ASSUME NEW b \in App, NEW w \in Value, Edit(b, w)
      PROVE  UNCHANGED <<releases, published>>
  BY <1>5 DEF Edit, upstream
<1>6. CASE Outside
  BY <1>1, <1>2, <1>3, <1>4, <1>5, <1>6 DEF Outside, WasReleased, Pin
<1>. QED
  BY <1>1, <1>6 DEF Kinds, Off, Began, Chose, PassedOver, Bumped, Fetched, Lost, Replayed, Rebased

LEMMA BackedStays ==
  ASSUME Typed, Kinds, ~Pushed, NEW t \in Title
  PROVE  /\ Newest(t.app, t.to) => Newest(t.app, t.to)'
         /\ Backed(t) => Backed(t)'
  BY WorldGoesOn DEF Newest, Backed, Title

\* A pin has one title, and its text in the clone is what was fetched or what the
\* title says.
LEMMA OneTitle ==
  ASSUME Typed, Underway, Reported, NEW a, NEW v, NEW w, NEW x, NEW y,
         Titled(a, v, w), Titled(a, x, y)
  PROVE  v = x /\ w = y /\ v # w
<1>1. PICK i \in DOMAIN job.titles : job.titles[i] = [app |-> a, from |-> v, to |-> w]
  BY DEF Titled
<1>2. PICK j \in DOMAIN job.titles : job.titles[j] = [app |-> a, from |-> x, to |-> y]
  BY DEF Titled
<1>3. i = j
  BY <1>1, <1>2 DEF Reported
<1>. QED
  <2>1. Backed(job.titles[i])
    BY DEF Reported
  <2>2. job.titles[i].from # job.titles[i].to
    BY <2>1 DEF Backed
  <2>. QED
    BY <1>1, <1>2, <1>3, <2>2

LEMMA TitleFacts ==
  ASSUME Typed, NEW i \in DOMAIN job.titles
  PROVE  /\ job.titles[i] \in Title
         /\ job.titles[i].app \in App
         /\ Titled(job.titles[i].app, job.titles[i].from, job.titles[i].to)
<1>1. job.titles \in Seq(Title)
  BY DEF Typed, Job
<1>2. job.titles[i] \in Title
  BY <1>1
<1>3. \E j \in DOMAIN job.titles :
        job.titles[j] = [app |-> job.titles[i].app, from |-> job.titles[i].from,
                         to |-> job.titles[i].to]
  BY <1>2 DEF Title
<1>. QED
  BY <1>2, <1>3 DEF Title, Titled

LEMMA TitledFacts ==
  ASSUME Typed, Underway, Reported, NEW a, NEW v, NEW w, Titled(a, v, w)
  PROVE  Backed([app |-> a, from |-> v, to |-> w])
  BY DEF Titled, Reported

\* An entry that is looked at has no title yet, and its pin is as it was fetched.
LEMMA Untitled ==
  ASSUME Typed, job.step = "check", Reported, Changed
  PROVE  /\ \A i \in DOMAIN job.titles : job.titles[i].app # Entry
         /\ job.tree[<<"pin", Entry>>] = job.base.lines[<<"pin", Entry>>]
<1>0. Entry \in App /\ Underway /\ job.entry \in DOMAIN Entries
  BY EntryFacts DEF Typed, Underway, Job
<1>1. \A i \in DOMAIN job.titles : job.titles[i].app # Entry
  <2> SUFFICES ASSUME NEW i \in DOMAIN job.titles, job.titles[i].app = Entry
               PROVE  FALSE
    OBVIOUS
  <2>1. PICK k \in DOMAIN Entries : k < job.entry /\ Entries[k] = Entry
    BY <1>0 DEF Reported, Behind
  <2>2. k = job.entry
    BY <1>0, <2>1, UpdaterAssumption DEF Entry
  <2>. QED
    BY <2>1, <2>2, UpdaterAssumption
<1>2. \A v, w : ~Titled(Entry, v, w)
  <2> SUFFICES ASSUME NEW v, NEW w, Titled(Entry, v, w)
               PROVE  FALSE
    OBVIOUS
  <2>1. PICK i \in DOMAIN job.titles : job.titles[i] = [app |-> Entry, from |-> v, to |-> w]
    BY DEF Titled
  <2>2. job.titles[i].app = Entry
    BY <2>1
  <2>. QED
    BY <1>1, <2>2
<1>. QED
  BY <1>0, <1>1, <1>2 DEF Changed

\* What a push does to the pins.
LEMMA PushFacts ==
  ASSUME Typed, Tidy, Followed, Reported, Made, Changed, Pushed
  PROVE  \A a \in App :
           /\ Pin(a)' = job.tree[<<"pin", a>>]
           /\ Pin(a)' # Pin(a) => Titled(a, Pin(a), Pin(a)')
           /\ author'[<<"pin", a>>] = IF Pin(a)' # Pin(a) THEN "updater" ELSE author[<<"pin", a>>]
<1> SUFFICES ASSUME NEW a \in App
             PROVE  /\ Pin(a)' = job.tree[<<"pin", a>>]
                    /\ Pin(a)' # Pin(a) => Titled(a, Pin(a), Pin(a)')
                    /\ author'[<<"pin", a>>] = IF Pin(a)' # Pin(a) THEN "updater"
                                              ELSE author[<<"pin", a>>]
  OBVIOUS
<1>1. Underway /\ main = job.base /\ <<"pin", a>> \in Line
  BY LineFacts DEF Pushed, Underway, Followed
<1>2. job.commits \in Seq(Patch)
  BY DEF Typed, Job
<1>3. CASE job.commits = <<>>
  <2>1. job.tree[<<"pin", a>>] = main.lines[<<"pin", a>>]
    BY <1>1, <1>2, <1>3, TouchedFacts DEF Changed
  <2>. QED
    BY <1>1, <1>3, <2>1 DEF Pushed, Pin
<1>4. CASE job.commits # <<>>
  <2>1. main'.lines = job.tree
    BY <1>4 DEF Pushed
  <2>. QED
    BY <1>1, <2>1 DEF Pushed, Pin, Changed
<1>. QED
  BY <1>3, <1>4

LEMMA OriginsNext ==
  ASSUME Typed, Typed', Origins, Kinds
  PROVE  Origins'
<1>1. CASE UNCHANGED releases
  BY <1>1 DEF Origins
<1>2. ASSUME NEW a \in App, NEW v \in Version, Release(a, v)
      PROVE  Origins'
  <2>1. /\ releases[Repo[a]] \in Seq(Released)
        /\ Tag(a, v) \in Released
        /\ DOMAIN releases' = DOMAIN releases
        /\ releases'[Repo[a]] = Append(releases[Repo[a]], Tag(a, v))
        /\ \A r \in DOMAIN releases : r # Repo[a] => releases'[r] = releases[r]
    BY <1>2 DEF Release, Typed, Tag, Released
  <2> SUFFICES ASSUME NEW r \in DOMAIN releases, NEW i \in DOMAIN releases'[r]
               PROVE  Repo[releases'[r][i].component] = r
    BY <2>1 DEF Origins
  <2>2. CASE i \in DOMAIN releases[r] /\ releases'[r][i] = releases[r][i]
    BY <2>2 DEF Origins
  <2>3. CASE r = Repo[a] /\ releases'[r][i] = Tag(a, v)
    BY <2>3 DEF Tag
  <2>. QED
    BY <2>1, <2>2, <2>3, Appended
<1>3. ASSUME NEW a \in App, NEW v \in Version, Publish(a, v)
      PROVE  UNCHANGED releases
  BY <1>3 DEF Publish
<1>. QED
  BY <1>1, <1>2, <1>3 DEF Kinds, Off, Began, Chose, PassedOver, Bumped, Fetched, Lost, Replayed,
     Rebased, Pushed, Outside, World, Edit, upstream

LEMMA SoundNext ==
  ASSUME Typed, Typed', Tidy, Followed, Reported, Made, Changed, Sound, Kinds
  PROVE  Sound'
<1> SUFFICES ASSUME NEW a \in App, author'[<<"pin", a>>] = "updater"
             PROVE  WasReleased(a, Pin(a))' /\ (a \in Resolved => Pin(a)' \in published'[a])
  BY DEF Sound
<1>0. <<"pin", a>> \in Line /\ Pin(a) \in Value
  BY LineFacts DEF Typed, Main, Text, Pin, Value
<1>1. CASE ~Pushed
  <2>1. Pin(a)' = Pin(a) /\ author[<<"pin", a>>] = "updater"
    BY <1>1, WorldGoesOn
  <2>2. WasReleased(a, Pin(a))'
    <3>1. \A v \in Value : WasReleased(a, v) => WasReleased(a, v)'
      BY <1>1, WorldGoesOn
    <3>. QED
      BY <1>0, <2>1, <3>1 DEF Sound, WasReleased
  <2>. QED
    BY <1>1, <2>1, <2>2, WorldGoesOn DEF Sound
<1>2. CASE Pushed
  <2>1. UNCHANGED <<releases, published>>
    BY <1>2 DEF Pushed, upstream
  <2>2. CASE Pin(a)' = Pin(a)
    <3>1. author[<<"pin", a>>] = "updater"
      BY <1>2, <2>2, PushFacts
    <3>. QED
      BY <2>1, <2>2, <3>1 DEF Sound, WasReleased
  <2>3. CASE Pin(a)' # Pin(a)
    <3>1. Titled(a, Pin(a), Pin(a)') /\ Underway
      BY <1>2, <2>3, PushFacts DEF Pushed, Underway
    <3>2. Backed([app |-> a, from |-> Pin(a), to |-> Pin(a)'])
      BY <3>1, TitledFacts
    <3>. QED
      BY <2>1, <3>2 DEF Backed, Newest, WasReleased
  <2>. QED
    BY <2>2, <2>3
<1>. QED
  BY <1>1, <1>2

LEMMA LookedNext ==
  ASSUME Typed, Typed', Origins, Sound, Looked, Kinds
  PROVE  Looked'
<1> SUFFICES ASSUME job'.step = "check"
             PROVE  Newest(Entry, job.tag)'
  BY DEF Looked
<1>1. CASE Chose
  <2>1. PICK t \in Latest(Entry) : job'.tag = t.version
    BY <1>1 DEF Chose
  <2> DEFINE a == Entry
  <2>2. a \in App /\ Entry' = a
    BY <1>1, EntryFacts DEF Chose, Entry, Typed
  <2>3. PICK i \in DOMAIN releases[Repo[a]] : releases[Repo[a]][i] = t
    BY <2>1, <2>2, LatestFacts
  <2>4. t \in Released /\ Repo[t.component] = Repo[a]
    BY <2>1, <2>2, <2>3, LatestFacts DEF Origins, Typed
  <2>5. t.component = a
    <3>1. CASE a \in Prefixed
      BY <2>1, <3>1 DEF Latest, PickLatestTag
    <3>2. CASE a \notin Prefixed
      BY <2>2, <2>4, <3>2, UpdaterAssumption DEF Released
    <3>. QED
      BY <3>1, <3>2
  <2>6. t = Tag(a, t.version)
    BY <2>4, <2>5 DEF Released, Tag
  <2>7. WasReleased(a, t.version)
    BY <2>3, <2>6 DEF WasReleased
  <2>8. ASSUME a \in Prefixed, author[<<"pin", a>>] = "updater"
        PROVE  ~Before(t.version, Pin(a))
    <3>1. PICK j \in DOMAIN releases[Repo[a]] : releases[Repo[a]][j] = Tag(a, Pin(a))
      BY <2>2, <2>8 DEF Sound, WasReleased
    <3>2. Tag(a, Pin(a)) \in ToSet(releases[Repo[a]])
      BY <3>1 DEF ToSet
    <3>3. t \in PickLatestTag(ToSet(releases[Repo[a]]), a)
      BY <2>1, <2>8 DEF Latest
    <3>4. Tag(a, Pin(a)).component = a /\ Tag(a, Pin(a)).version = Pin(a)
      BY DEF Tag
    <3>. QED
      BY <3>2, <3>3, <3>4 DEF PickLatestTag
  <2>9. Newest(a, t.version)
    BY <2>7, <2>8 DEF Newest
  <2>. QED
    BY <1>1, <2>1, <2>2, <2>9 DEF Chose, World, Newest, WasReleased, Pin
<1>2. CASE Outside /\ UNCHANGED job
  <2>1. Entry \in App /\ Entry' = Entry /\ job.tag \in Value /\ Newest(Entry, job.tag)
    BY <1>2, EntryFacts DEF Typed, Entry, Job, Looked
  <2>2. [app |-> Entry, from |-> job.tag, to |-> job.tag] \in Title
    BY <2>1 DEF Title
  <2>3. ~Pushed /\ Kinds
    BY <1>2 DEF Pushed
  <2>4. Newest(Entry, job.tag) => Newest(Entry, job.tag)'
    <3>1. \A v \in Value : WasReleased(Entry, v) => WasReleased(Entry, v)'
      BY <1>2, <2>1, <2>3, WorldGoesOn DEF WasReleased
    <3>. QED
      BY <1>2, <2>1, <2>3, <3>1, WorldGoesOn DEF Newest, WasReleased
  <2>. QED
    BY <2>1, <2>4
<1>. QED
  BY <1>1, <1>2 DEF Kinds, Off, Began, PassedOver, Onward, Bumped, Fetched, Lost, Replayed, Rebased,
     Pushed, Outside

-----------------------------------------------------------------------------
(* What a run reports, and the commits it has for it. *)

\* What holds of a title goes on holding of what becomes of it in memory.
LEMMA StillBacked ==
  ASSUME Typed, Typed', Kinds, ~Pushed, NEW i \in DOMAIN job.titles, Backed(job.titles[i]),
         NEW j \in DOMAIN job'.titles, job'.titles[j] = job.titles[i]
  PROVE  Backed(job.titles[j])'
<1>1. job.titles[i] \in Title
  BY TitleFacts
<1>2. PICK t \in Title : t = job.titles[i]
  BY <1>1
<1>3. Backed(t)'
  BY <1>2, BackedStays
<1>4. t = job'.titles[j]
  BY <1>2
<1>. QED
  BY <1>3, <1>4 DEF Backed, Newest, WasReleased, Pin

LEMMA ReportedNext ==
  ASSUME Typed, Typed', Followed, Reported, Changed, Looked, Kinds
  PROVE  Reported'
<1>0. /\ job.titles \in Seq(Title) /\ job'.titles \in Seq(Title)
      /\ job.entry \in DOMAIN Entries /\ job'.entry \in DOMAIN Entries
      /\ DOMAIN Entries \subseteq Int
  BY UpdaterAssumption DEF Typed, Job
<1>1. CASE Off \/ Pushed
  BY <1>1 DEF Off, Pushed, Reported, Underway
<1>2. CASE Began
  BY <1>2 DEF Began, Reported
<1>3. CASE Bumped
  <2> DEFINE a == Entry
             title == [app |-> a, from |-> job.tree[<<"pin", a>>], to |-> job.tag]
  <2>1. /\ a \in App /\ Underway /\ job.step = "check"
        /\ job.tree \in Text /\ job.tag \in Value
    BY <1>3, EntryFacts DEF Bumped, Underway, Typed, Job
  <2>2. title \in Title
    BY <2>1, LineFacts DEF Title, Text, Value
  <2>3. /\ job'.titles = Append(job.titles, title)
        /\ DOMAIN job'.titles = DOMAIN job.titles \cup {Len(job.titles) + 1}
        /\ Len(job.titles) + 1 \notin DOMAIN job.titles
        /\ job'.titles[Len(job.titles) + 1] = title
        /\ \A i \in DOMAIN job.titles : job'.titles[i] = job.titles[i]
    BY <1>0, <1>3, <2>2 DEF Bumped, Bumps
  <2>4. Backed(title)
    <3>1. Newest(a, job.tag)
      BY <2>1 DEF Looked
    <3>2. a \in Resolved => job.tag \in published[a]
      BY <1>3 DEF Bumped
    <3>3. job.tree[<<"pin", a>>] # job.tag
      BY <1>3 DEF Bumped, Bumps
    <3>4. Pin(a) = job.tree[<<"pin", a>>] \/ author[<<"pin", a>>] = "person"
      BY <2>1, Untitled, LineFacts DEF Followed, Pin
    <3>. QED
      BY <3>1, <3>2, <3>3, <3>4 DEF Backed
  <2>5. PICK t \in Title : t = title
    BY <2>2
  <2>6. Backed(t)'
    <3>1. Backed(t)
      BY <2>4, <2>5
    <3>. QED
      BY <1>3, <3>1, BackedStays DEF Bumped, Pushed
  <2>7. ~Pushed
    BY <1>3 DEF Bumped, Pushed
  <2>8. ASSUME NEW i \in DOMAIN job'.titles
        PROVE  Backed(job.titles[i])'
    <3>1. CASE i \in DOMAIN job.titles
      BY <2>1, <2>3, <2>7, <3>1, StillBacked DEF Reported
    <3>2. CASE i = Len(job.titles) + 1
      <4>1. job'.titles[i] = t
        BY <2>3, <2>5, <3>2
      <4>. QED
        BY <2>6, <4>1 DEF Backed, Newest, WasReleased, Pin
    <3>. QED
      BY <2>3, <3>1, <3>2
  <2>9. ASSUME NEW i \in DOMAIN job'.titles, NEW j \in DOMAIN job'.titles,
               job'.titles[i].app = job'.titles[j].app
        PROVE  i = j
    <3>1. \A k \in DOMAIN job.titles : job.titles[k].app # a
      BY <2>1, Untitled
    <3>2. \A k, m \in DOMAIN job.titles : job.titles[k].app = job.titles[m].app => k = m
      BY <2>1 DEF Reported
    <3>. QED
      BY <2>3, <2>9, <3>1, <3>2
  <2>10. ASSUME job'.step \in {"read", "check"}, NEW i \in DOMAIN job'.titles
         PROVE  Behind(job.titles[i].app)'
    <3>1. job'.entry = job.entry + 1
      BY <1>3, <2>10 DEF Bumped, Onward
    <3>2. \E k \in DOMAIN Entries : k < job'.entry /\ Entries[k] = job'.titles[i].app
      <4>1. CASE i \in DOMAIN job.titles
        <5>1. PICK k \in DOMAIN Entries : k < job.entry /\ Entries[k] = job.titles[i].app
          BY <2>1, <4>1 DEF Reported, Behind
        <5>2. k < job'.entry
          BY <1>0, <3>1, <5>1
        <5>. QED
          BY <2>3, <4>1, <5>1, <5>2
      <4>2. CASE i = Len(job.titles) + 1
        <5>1. job.entry < job'.entry
          BY <1>0, <3>1
        <5>. QED
          BY <1>0, <2>3, <4>2, <5>1 DEF Entry
      <4>. QED
        BY <2>3, <4>1, <4>2
    <3>. QED
      BY <3>2 DEF Behind
  <2>. QED
    BY <2>8, <2>9, <2>10 DEF Reported
<1>4. CASE /\ Underway
           /\ ~Pushed
           /\ job'.titles = job.titles
           /\ job'.step \in {"read", "check"} =>
                job.step \in {"read", "check"} /\ job'.entry >= job.entry
  <2>1. ASSUME NEW i \in DOMAIN job'.titles
        PROVE  Backed(job.titles[i])'
    BY <1>4, StillBacked DEF Reported
  <2>2. ASSUME job'.step \in {"read", "check"}, NEW i \in DOMAIN job'.titles
        PROVE  Behind(job.titles[i].app)'
    <3>1. PICK k \in DOMAIN Entries : k < job.entry /\ Entries[k] = job.titles[i].app
      BY <1>4, <2>2 DEF Reported, Behind
    <3>2. k < job'.entry
      BY <1>0, <1>4, <2>2, <3>1
    <3>. QED
      BY <1>4, <3>1, <3>2 DEF Behind
  <2>3. \A i, j \in DOMAIN job'.titles : job'.titles[i].app = job'.titles[j].app => i = j
    BY <1>4 DEF Reported
  <2>. QED
    BY <2>1, <2>2, <2>3 DEF Reported
<1>5. CASE Chose \/ PassedOver \/ Fetched \/ Lost \/ Replayed \/ Rebased
  BY <1>0, <1>4, <1>5 DEF Chose, PassedOver, Onward, Fetched, Lost, Replayed, Rebased, SameWork,
     Underway, Pushed
<1>6. CASE Outside
  <2>1. CASE Underway
    BY <1>0, <1>4, <1>6, <2>1 DEF Outside, Pushed
  <2>2. CASE ~Underway
    BY <1>6, <2>2 DEF Outside, Underway, Reported
  <2>. QED
    BY <2>1, <2>2
<1>. QED
  BY <1>1, <1>2, <1>3, <1>5, <1>6 DEF Kinds

\* A run's titles stay, but for the one that is added, until it ends.
Grown == job'.titles = job.titles \/ \E t \in Title : job'.titles = Append(job.titles, t)

LEMMA TitledGoesOn ==
  ASSUME Typed, Grown
  PROVE  /\ \A a, v, w : Titled(a, v, w) => Titled(a, v, w)'
         /\ \A commit : Exact(commit) => Exact(commit)'
<1>1. job.titles \in Seq(Title)
  BY DEF Typed, Job
<1>2. \A i \in DOMAIN job.titles : i \in DOMAIN job'.titles /\ job'.titles[i] = job.titles[i]
  <2>1. CASE job'.titles = job.titles
    BY <2>1
  <2>2. ASSUME NEW t \in Title, job'.titles = Append(job.titles, t)
        PROVE  \A i \in DOMAIN job.titles :
                 i \in DOMAIN job'.titles /\ job'.titles[i] = job.titles[i]
    BY <1>1, <2>2
  <2>. QED
    BY <2>1, <2>2 DEF Grown
<1>3. \A a, v, w : Titled(a, v, w) => Titled(a, v, w)'
  BY <1>2 DEF Titled
<1>. QED
  BY <1>3 DEF Exact

\* A bump moves its program's pin, and adds the commit and the title that say so.
LEMMA BumpFacts ==
  ASSUME Typed, Sourced, Reported, Changed, Bumped
  PROVE  /\ Underway /\ Entry \in App
         /\ \A a \in App \ {Entry} : job'.tree[<<"pin", a>>] = job.tree[<<"pin", a>>]
         /\ job'.tree[<<"pin", Entry>>] = job.tag
         /\ job.tree[<<"pin", Entry>>] # job.tag
         /\ job.base.lines[<<"pin", Entry>>] = job.tree[<<"pin", Entry>>]
         /\ \A a \in App : Touched(a, job'.commits) <=> Touched(a, job.commits) \/ a = Entry
         /\ \E t \in Title :
              /\ t = [app |-> Entry, from |-> job.tree[<<"pin", Entry>>], to |-> job.tag]
              /\ job'.titles = Append(job.titles, t)
<1> DEFINE a == Entry
           c == Commit(job.tree, Written(a))
           title == [app |-> a, from |-> job.tree[<<"pin", a>>], to |-> job.tag]
<1>1. /\ a \in App /\ Underway /\ job.step = "check" /\ job \in Job
      /\ job.tree \in Text /\ job.tag \in Value /\ job.commits \in Seq(Patch)
  BY EntryFacts DEF Bumped, Underway, Typed, Job
<1>2. title \in Title
  BY <1>1, LineFacts DEF Title, Text, Value
<1>3. /\ job'.tree = Written(a) /\ job'.commits = Append(job.commits, c)
      /\ job'.titles = Append(job.titles, title)
      /\ job.tree[<<"pin", a>>] # job.tag
  BY DEF Bumped, Bumps
<1>4. /\ Written(a) \in Text
      /\ Written(a)[<<"pin", a>>] = job.tag
      /\ \A b \in App \ {a} : Written(a)[<<"pin", b>>] = job.tree[<<"pin", b>>]
  BY <1>1, WrittenFacts
<1>5. c \in Patch /\ \A b \in App : <<"pin", b>> \in DOMAIN c.to <=> b = a
  <2>1. c \in Patch /\ DOMAIN c.to = {l \in Line : job.tree[l] # Written(a)[l]}
    BY <1>1, <1>4, CommitFacts
  <2>. QED
    BY <1>1, <1>3, <1>4, <2>1, LineFacts
<1>6. \A b \in App : Touched(b, job'.commits) <=> Touched(b, job.commits) \/ b = a
  <2> SUFFICES ASSUME NEW b \in App
               PROVE  Touched(b, job'.commits) <=> Touched(b, job.commits) \/ b = a
    OBVIOUS
  <2>1. PICK p \in Patch : p = c
    BY <1>5
  <2>2. job'.commits = Append(job.commits, p) /\ (<<"pin", b>> \in DOMAIN p.to <=> b = a)
    BY <1>3, <1>5, <2>1
  <2> HIDE DEF c
  <2>. QED
    BY <1>1, <2>2, TouchedFacts
<1>7. job.base.lines[<<"pin", a>>] = job.tree[<<"pin", a>>]
  BY <1>1, Untitled
<1>. QED
  BY <1>1, <1>2, <1>3, <1>4, <1>6, <1>7

\* A commit that is put on what was fetched does there what its title says.
LEMMA ReplayFacts ==
  ASSUME Typed, Reported, Made, Changed, Replayed, NEW a \in App
  PROVE  /\ Underway
         /\ <<"pin", a>> \in DOMAIN Head(job.todo).to =>
              /\ job'.tree[<<"pin", a>>] = Head(job.todo).to[<<"pin", a>>]
              /\ Titled(a, Head(job.todo).from[<<"pin", a>>], Head(job.todo).to[<<"pin", a>>])
         /\ <<"pin", a>> \notin DOMAIN Head(job.todo).to =>
              job'.tree[<<"pin", a>>] = job.tree[<<"pin", a>>]
         /\ job'.tree[<<"pin", a>>] # job.tree[<<"pin", a>>] =>
              /\ Titled(a, job.tree[<<"pin", a>>], job'.tree[<<"pin", a>>])
              /\ job.base.lines[<<"pin", a>>] = job.tree[<<"pin", a>>]
              /\ Touched(a, job'.commits)
         /\ Touched(a, job.commits) => Touched(a, job'.commits)
<1> DEFINE c == Head(job.todo)
           l == <<"pin", a>>
           d == Commit(job.tree, Applied(c))
<1>1. /\ Underway /\ job \in Job /\ l \in Line /\ job.tree \in Text
      /\ job.todo \in Seq(Patch) /\ job.todo # <<>> /\ job.commits \in Seq(Patch)
  BY LineFacts DEF Replayed, Underway, Typed, Job
<1>2. c \in Patch /\ 1 \in DOMAIN job.todo /\ c = job.todo[1]
  BY <1>1, Parted
<1>3. Exact(c)
  BY <1>1, <1>2 DEF Made
<1>4. job'.tree = Applied(c) /\ job'.commits = Kept(c) /\ Fits(c)
  BY DEF Replayed
<1>5. Applied(c) \in Text
  BY <1>1, <1>2, AppliedFacts
<1>6. Applied(c)[l] = IF l \in DOMAIN c.to THEN c.to[l] ELSE job.tree[l]
  BY <1>1 DEF Applied
<1>7. d \in Patch /\ (l \in DOMAIN d.to <=> Applied(c)[l] # job.tree[l])
  BY <1>1, <1>5, CommitFacts
<1>8. Touched(a, Kept(c)) <=> Touched(a, job.commits) \/ Applied(c)[l] # job.tree[l]
  <2>1. CASE Applied(c) = job.tree
    BY <2>1 DEF Kept
  <2>2. CASE Applied(c) # job.tree
    <3>1. Kept(c) = Append(job.commits, d)
      BY <2>2 DEF Kept
    <3>. QED
      BY <1>1, <1>7, <3>1, TouchedFacts
  <2>. QED
    BY <2>1, <2>2
<1>9. l \in DOMAIN c.to => Titled(a, c.from[l], c.to[l])
  BY <1>3 DEF Exact
<1>10. ASSUME Applied(c)[l] # job.tree[l]
       PROVE  /\ Titled(a, job.tree[l], Applied(c)[l])
              /\ job.base.lines[l] = job.tree[l]
  <2>1. l \in DOMAIN c.to /\ Applied(c)[l] = c.to[l]
    BY <1>6, <1>10
  <2>2. job.tree[l] = c.from[l]
    BY <1>4, <1>10, <2>1 DEF Fits
  <2>3. Titled(a, job.tree[l], Applied(c)[l])
    BY <1>9, <2>1, <2>2
  <2>4. job.base.lines[l] # job.tree[l] => Titled(a, job.base.lines[l], job.tree[l])
    BY <1>1 DEF Changed
  <2>. QED
    BY <1>1, <1>10, <2>3, <2>4, OneTitle
<1>. QED
  BY <1>1, <1>4, <1>6, <1>8, <1>9, <1>10

LEMMA MadeNext ==
  ASSUME Typed, Typed', Sourced, Reported, Made, Changed, Kinds
  PROVE  Made'
<1> DEFINE Mine(p) == \/ \E i \in DOMAIN job.commits : p = job.commits[i]
                      \/ \E i \in DOMAIN job.todo : p = job.todo[i]
<1>0. /\ job \in Job /\ job.tree \in Text
      /\ job.commits \in Seq(Patch) /\ job.todo \in Seq(Patch)
  BY DEF Typed, Job
<1>1. ASSUME Underway, Grown,
             \A i \in DOMAIN job'.commits : Mine(job'.commits[i]) \/ Exact(job.commits[i])',
             \A i \in DOMAIN job'.todo : Mine(job'.todo[i])
      PROVE  Made'
  <2>1. ASSUME NEW p, Mine(p)
        PROVE  Exact(p)'
    <3>1. Exact(p)
      BY <1>1, <2>1 DEF Made
    <3>. QED
      BY <1>1, <3>1, TitledGoesOn
  <2>2. ASSUME NEW i \in DOMAIN job'.commits, Mine(job'.commits[i])
        PROVE  Exact(job.commits[i])'
    <3>1. PICK p : p = job'.commits[i]
      OBVIOUS
    <3>2. Mine(p)
      BY <2>2, <3>1
    <3>3. Exact(p)'
      BY <2>1, <3>2
    <3>. QED
      BY <3>1, <3>3 DEF Exact, Titled
  <2>3. ASSUME NEW i \in DOMAIN job'.todo
        PROVE  Exact(job.todo[i])'
    <3>1. PICK p : p = job'.todo[i]
      OBVIOUS
    <3>2. Mine(p)
      BY <1>1, <2>3, <3>1
    <3>3. Exact(p)'
      BY <2>1, <3>2
    <3>. QED
      BY <3>1, <3>3 DEF Exact, Titled
  <2>. QED
    BY <1>1, <2>2, <2>3 DEF Made
<1>2. CASE Off \/ Pushed
  BY <1>2 DEF Off, Pushed, Made, Underway
<1>3. CASE Began
  BY <1>3 DEF Began, Made
<1>4. CASE Bumped
  <2> DEFINE a == Entry
             c == Commit(job.tree, Written(a))
  <2>1. PICK t \in Title : /\ t = [app |-> a, from |-> job.tree[<<"pin", a>>], to |-> job.tag]
                           /\ job'.titles = Append(job.titles, t)
    BY <1>4, BumpFacts
  <2>2. /\ job'.commits = Append(job.commits, c) /\ job'.todo = job.todo
        /\ job'.tree = Written(a) /\ job.step = "check"
    BY <1>4 DEF Bumped, Bumps
  <2>3. Underway /\ Grown /\ a \in App
    BY <1>4, <2>1, BumpFacts DEF Grown
  <2>4. Written(a) \in Text
    BY <1>0, <2>2, <2>3, WrittenFacts
  <2>5. PICK p : p = c
    OBVIOUS
  <2>6. Exact(p)'
    <3> SUFFICES ASSUME NEW b \in App, <<"pin", b>> \in DOMAIN p.to
                 PROVE  Titled(b, p.from[<<"pin", b>>], p.to[<<"pin", b>>])'
      BY DEF Exact
    <3>1. /\ job.tree[<<"pin", b>>] # Written(a)[<<"pin", b>>]
          /\ p.from[<<"pin", b>>] = job.tree[<<"pin", b>>]
          /\ p.to[<<"pin", b>>] = Written(a)[<<"pin", b>>]
      BY <1>0, <2>4, <2>5, CommitFacts, LineFacts
    <3>2. b = a /\ Written(a)[<<"pin", b>>] = job.tag
      BY <1>4, <2>2, <3>1, BumpFacts
    <3>3. job'.titles[Len(job.titles) + 1] = t /\ Len(job.titles) + 1 \in DOMAIN job'.titles
      <4>1. job.titles \in Seq(Title)
        BY DEF Typed, Job
      <4>. QED
        BY <2>1, <4>1
    <3>4. t = [app |-> b, from |-> p.from[<<"pin", b>>], to |-> p.to[<<"pin", b>>]]
      BY <2>1, <3>1, <3>2
    <3>. QED
      BY <3>3, <3>4 DEF Titled
  <2>7. c \in Patch
    BY <1>0, <2>4, CommitFacts
  <2>8. ASSUME NEW i \in DOMAIN job'.commits
        PROVE  Mine(job'.commits[i]) \/ Exact(job.commits[i])'
    <3>1. CASE i \in DOMAIN job.commits
      BY <1>0, <2>2, <2>7, <3>1
    <3>2. CASE i \notin DOMAIN job.commits
      <4>1. job'.commits[i] = p
        BY <1>0, <2>2, <2>5, <2>7, <3>2
      <4>. QED
        BY <2>6, <4>1 DEF Exact, Titled
    <3>. QED
      BY <3>1, <3>2
  <2>. QED
    BY <1>1, <2>2, <2>3, <2>8
<1>5. CASE Fetched
  BY <1>1, <1>5 DEF Fetched, Underway, Grown
<1>6. CASE Replayed
  <2> DEFINE c == Head(job.todo)
             d == Commit(job.tree, Applied(c))
  <2>1. /\ job'.tree = Applied(c) /\ job'.commits = Kept(c) /\ job'.todo = Tail(job.todo)
        /\ job'.titles = job.titles /\ Underway /\ Fits(c) /\ job.todo # <<>>
    BY <1>6 DEF Replayed, Underway
  <2>2. c \in Patch /\ Mine(c) /\ \A i \in DOMAIN job'.todo : Mine(job'.todo[i])
    BY <1>0, <2>1, Parted
  <2>3. Applied(c) \in Text /\ Grown
    BY <1>0, <2>1, <2>2, AppliedFacts DEF Grown
  <2>4. d \in Patch
    BY <1>0, <2>3, CommitFacts
  <2>5. PICK p : p = d
    OBVIOUS
  <2>6. Exact(p)
    <3> SUFFICES ASSUME NEW b \in App, <<"pin", b>> \in DOMAIN p.to
                 PROVE  Titled(b, p.from[<<"pin", b>>], p.to[<<"pin", b>>])
      BY DEF Exact
    <3>1. /\ job.tree[<<"pin", b>>] # Applied(c)[<<"pin", b>>]
          /\ p.from[<<"pin", b>>] = job.tree[<<"pin", b>>]
          /\ p.to[<<"pin", b>>] = Applied(c)[<<"pin", b>>]
      BY <1>0, <2>3, <2>5, CommitFacts, LineFacts
    <3>. QED
      BY <1>6, <2>1, <3>1, ReplayFacts
  <2>7. Exact(p)'
    BY <2>3, <2>6, TitledGoesOn
  <2>8. ASSUME NEW i \in DOMAIN job'.commits
        PROVE  Mine(job'.commits[i]) \/ Exact(job.commits[i])'
    <3>1. CASE i \in DOMAIN job.commits
      BY <1>0, <2>1, <2>4, <3>1 DEF Kept
    <3>2. CASE i \notin DOMAIN job.commits
      <4>1. job'.commits[i] = p
        BY <1>0, <2>1, <2>4, <2>5, <3>2 DEF Kept
      <4>. QED
        BY <2>7, <4>1 DEF Exact, Titled
    <3>. QED
      BY <3>1, <3>2
  <2>. QED
    BY <1>1, <2>1, <2>2, <2>3, <2>8
<1>7. CASE UNCHANGED <<job.titles, job.commits, job.todo>> /\ Underway
  BY <1>1, <1>7 DEF Grown
<1>8. CASE Chose \/ PassedOver \/ Lost \/ Rebased
  BY <1>7, <1>8 DEF Chose, PassedOver, Lost, Rebased, SameWork, Underway
<1>9. CASE Outside
  BY <1>7, <1>9 DEF Outside, Underway, Made
<1>. QED
  BY <1>2, <1>3, <1>4, <1>5, <1>6, <1>8, <1>9 DEF Kinds

LEMMA ChangedNext ==
  ASSUME Typed, Typed', Sourced, Reported, Made, Changed, Kinds
  PROVE  Changed'
<1>1. ASSUME Grown, NEW a \in App,
             Titled(a, job'.base.lines[<<"pin", a>>], job'.tree[<<"pin", a>>])
      PROVE  Titled(a, job.base.lines[<<"pin", a>>], job.tree[<<"pin", a>>])'
  <2>1. PICK v, w : v = job'.base.lines[<<"pin", a>>] /\ w = job'.tree[<<"pin", a>>]
    OBVIOUS
  <2>2. Titled(a, v, w)'
    BY <1>1, <2>1, TitledGoesOn
  <2>. QED
    BY <2>1, <2>2 DEF Titled
<1>2. CASE Off \/ Pushed
  BY <1>2 DEF Off, Pushed, Changed, Underway
<1>3. CASE Began \/ Fetched
  BY <1>3 DEF Began, Fetched, Changed, World
<1>4. CASE /\ Underway
           /\ UNCHANGED <<job.titles, job.base, job.tree, job.commits>>
  <2>. QED
    BY <1>1, <1>4 DEF Changed, Grown, Touched
<1>5. CASE Bumped
  <2> SUFFICES ASSUME NEW a \in App, job'.tree[<<"pin", a>>] # job'.base.lines[<<"pin", a>>]
               PROVE  /\ Titled(a, job.base.lines[<<"pin", a>>], job.tree[<<"pin", a>>])'
                      /\ Touched(a, job.commits)'
    BY DEF Changed
  <2>1. Underway /\ job'.base = job.base
    BY <1>5, BumpFacts DEF Bumped, Bumps
  <2>2. PICK t \in Title :
          /\ t = [app |-> Entry, from |-> job.tree[<<"pin", Entry>>], to |-> job.tag]
          /\ job'.titles = Append(job.titles, t)
    BY <1>5, BumpFacts
  <2>3. Grown
    BY <2>2 DEF Grown
  <2>4. Touched(a, job'.commits) <=> Touched(a, job.commits) \/ a = Entry
    BY <1>5, BumpFacts
  <2>5. CASE a = Entry
    <3>1. /\ job'.base.lines[<<"pin", a>>] = job.tree[<<"pin", Entry>>]
          /\ job'.tree[<<"pin", a>>] = job.tag
      BY <1>5, <2>1, <2>5, BumpFacts
    <3>2. /\ job'.titles[Len(job.titles) + 1] = t
          /\ Len(job.titles) + 1 \in DOMAIN job'.titles
      <4>1. job.titles \in Seq(Title)
        BY DEF Typed, Job
      <4>. QED
        BY <2>2, <4>1
    <3>3. t = [app |-> a, from |-> job'.base.lines[<<"pin", a>>], to |-> job'.tree[<<"pin", a>>]]
      BY <2>2, <2>5, <3>1
    <3>4. Touched(a, job'.commits)
      BY <2>4, <2>5
    <3>. QED
      BY <3>2, <3>3, <3>4 DEF Titled, Touched
  <2>6. CASE a # Entry
    <3>1. job'.tree[<<"pin", a>>] = job.tree[<<"pin", a>>]
      BY <1>5, <2>6, BumpFacts
    <3>2. /\ Titled(a, job'.base.lines[<<"pin", a>>], job'.tree[<<"pin", a>>])
          /\ Touched(a, job'.commits)
      BY <2>1, <2>4, <3>1 DEF Changed
    <3>. QED
      BY <1>1, <2>3, <3>2 DEF Touched
  <2>. QED
    BY <2>5, <2>6
<1>6. CASE Replayed
  <2> SUFFICES ASSUME NEW a \in App, job'.tree[<<"pin", a>>] # job'.base.lines[<<"pin", a>>]
               PROVE  /\ Titled(a, job.base.lines[<<"pin", a>>], job.tree[<<"pin", a>>])'
                      /\ Touched(a, job.commits)'
    BY DEF Changed
  <2>1. job'.base = job.base /\ Grown /\ Underway
    BY <1>6 DEF Replayed, Grown, Underway
  <2>2. /\ Titled(a, job'.base.lines[<<"pin", a>>], job'.tree[<<"pin", a>>])
        /\ Touched(a, job'.commits)
    <3>1. CASE job'.tree[<<"pin", a>>] = job.tree[<<"pin", a>>]
      BY <1>6, <2>1, <3>1, ReplayFacts DEF Changed
    <3>2. CASE job'.tree[<<"pin", a>>] # job.tree[<<"pin", a>>]
      BY <1>6, <2>1, <3>2, ReplayFacts
    <3>. QED
      BY <3>1, <3>2
  <2>. QED
    BY <1>1, <2>1, <2>2 DEF Touched
<1>7. CASE Chose \/ PassedOver \/ Lost \/ Rebased
  BY <1>4, <1>7 DEF Chose, PassedOver, Lost, Rebased, SameWork, Underway
<1>8. CASE Outside
  BY <1>4, <1>8 DEF Outside, Underway, Changed
<1>. QED
  BY <1>2, <1>3, <1>5, <1>6, <1>7, <1>8 DEF Kinds

LEMMA HeldOn ==
  ASSUME Typed, Typed', Sourced, Tidy, Followed, Reported, Made, Changed, Kinds, Underway, Underway',
         ~Began, NEW t \in Title, NEW i \in DOMAIN job.titles, job.titles[i] = t, Held(t)
  PROVE  Held(t)'
<1> DEFINE a == t.app
           l == <<"pin", a>>
<1>0. /\ a \in App /\ l \in Line /\ t = [app |-> a, from |-> t.from, to |-> t.to]
      /\ job.todo \in Seq(Patch) /\ ~Pushed /\ ~Off
  BY LineFacts DEF Title, Typed, Job, Pushed, Off, Underway
<1>1. author[l] = "person" => author'[l] = "person"
  BY <1>0, WorldGoesOn
<1>2. CASE author[l] = "person"
  BY <1>1, <1>2 DEF Held
<1>3. CASE UNCHANGED <<job.todo, job.tree, job.commits>> /\ author[l] # "person"
  BY <1>3 DEF Held, Touched
<1>4. CASE Bumped /\ author[l] # "person"
  <2>1. a # Entry
    BY <1>4, Untitled DEF Bumped
  <2>2. job'.tree[l] = job.tree[l] /\ (Touched(a, job.commits) => Touched(a, job'.commits))
    BY <1>0, <1>4, <2>1, BumpFacts
  <2>3. job'.todo = job.todo
    BY <1>4 DEF Bumped, Bumps
  <2>. QED
    BY <1>4, <2>2, <2>3 DEF Held, Touched
<1>5. CASE Fetched /\ author[l] # "person"
  <2>1. job.todo = <<>> /\ job'.todo = job.commits
    BY <1>5 DEF Fetched, Tidy
  <2>2. Touched(a, job.commits)
    BY <1>0, <1>5, <2>1, TouchedFacts DEF Held
  <2>. QED
    BY <2>1, <2>2 DEF Held, Touched
<1>6. CASE Replayed /\ author[l] # "person"
  <2> DEFINE c == Head(job.todo)
  <2>1. /\ job'.todo = Tail(job.todo) /\ job.todo # <<>>
        /\ (Touched(a, job.todo) <=> l \in DOMAIN c.to \/ Touched(a, job'.todo))
    BY <1>0, <1>6, TouchedFacts DEF Replayed
  <2>2. Titled(a, t.from, t.to)
    BY <1>0 DEF Titled
  <2>3. CASE l \in DOMAIN c.to
    <3>1. job'.tree[l] = c.to[l] /\ Titled(a, c.from[l], c.to[l])
      BY <1>0, <1>6, <2>3, ReplayFacts
    <3>2. c.to[l] = t.to
      BY <2>2, <3>1, OneTitle
    <3>3. Touched(a, job'.commits)
      <4>1. CASE job'.tree[l] # job.tree[l]
        BY <1>0, <1>6, <4>1, ReplayFacts
      <4>2. CASE job'.tree[l] = job.tree[l]
        <5>1. Backed(t)
          BY DEF Reported
        <5>2. main.lines[l] # t.to
          BY <1>6, <5>1 DEF Backed, Pin
        <5>3. job.base.lines[l] # t.to
          BY <1>0, <1>6, <5>2 DEF Followed
        <5>4. Touched(a, job.commits)
          BY <1>0, <3>1, <3>2, <4>2, <5>3 DEF Changed
        <5>. QED
          BY <1>0, <1>6, <5>4, ReplayFacts
      <4>. QED
        BY <4>1, <4>2
    <3>. QED
      BY <3>1, <3>2, <3>3 DEF Held, Touched
  <2>4. CASE l \notin DOMAIN c.to
    <3>1. job'.tree[l] = job.tree[l] /\ (Touched(a, job.commits) => Touched(a, job'.commits))
      BY <1>0, <1>6, <2>4, ReplayFacts
    <3>. QED
      BY <1>6, <2>1, <2>4, <3>1 DEF Held, Touched
  <2>. QED
    BY <2>3, <2>4
<1>7. CASE Chose \/ PassedOver \/ Lost \/ Rebased \/ Outside
  BY <1>2, <1>3, <1>7 DEF Chose, PassedOver, Lost, Rebased, Outside, SameWork
<1>. QED
  BY <1>0, <1>2, <1>4, <1>5, <1>6, <1>7 DEF Kinds

LEMMA PendingNext ==
  ASSUME Typed, Typed', Sourced, Tidy, Followed, Reported, Made, Changed, Pending, Kinds
  PROVE  Pending'
<1> SUFFICES ASSUME Underway', NEW i \in DOMAIN job'.titles
             PROVE  Held(job.titles[i])'
  BY DEF Pending
<1>0. /\ job.titles \in Seq(Title) /\ job'.titles \in Seq(Title)
  BY DEF Typed, Job
<1>1. PICK t \in Title : t = job'.titles[i]
  <2>1. job'.titles[i] \in Title
    BY <1>0
  <2>. QED
    BY <2>1
<1>2. Held(t)' => Held(job.titles[i])'
  BY <1>1 DEF Held, Touched
<1>3. CASE Began
  BY <1>3 DEF Began
<1>4. CASE Underway /\ ~Began /\ i \in DOMAIN job.titles /\ job.titles[i] = t
  <2>1. Held(t)
    BY <1>4 DEF Pending
  <2>2. Held(t)'
    BY <1>4, <2>1, HeldOn
  <2>. QED
    BY <1>2, <2>2
<1>5. CASE Bumped
  <2>1. PICK e \in Title :
          /\ e = [app |-> Entry, from |-> job.tree[<<"pin", Entry>>], to |-> job.tag]
          /\ job'.titles = Append(job.titles, e)
    BY <1>5, BumpFacts
  <2>2. CASE i \in DOMAIN job.titles
    <3>1. job.titles[i] = t
      BY <1>0, <1>1, <2>1, <2>2
    <3>2. Underway
      BY <1>5, BumpFacts
    <3>. QED
      BY <1>3, <1>4, <2>2, <3>1, <3>2
  <2>3. CASE i \notin DOMAIN job.titles
    <3>1. t = e
      BY <1>0, <1>1, <2>1, <2>3
    <3>2. t.app = Entry /\ t.to = job.tag
      BY <2>1, <3>1
    <3>3. job'.tree[<<"pin", t.app>>] = t.to /\ Touched(t.app, job'.commits)
      BY <1>5, <3>2, BumpFacts
    <3>4. Held(t)'
      BY <3>3 DEF Held, Touched
    <3>. QED
      BY <1>2, <3>4
  <2>. QED
    BY <2>2, <2>3
<1>6. CASE Chose \/ PassedOver \/ Fetched \/ Lost \/ Replayed \/ Rebased \/ Outside
  <2>1. job'.titles = job.titles /\ Underway
    BY <1>6 DEF Chose, PassedOver, Fetched, Lost, Replayed, Rebased, Outside, SameWork, Underway
  <2>. QED
    BY <1>1, <1>3, <1>4, <2>1
<1>7. CASE Off \/ Pushed
  BY <1>7 DEF Off, Pushed, Underway
<1>. QED
  BY <1>3, <1>5, <1>6, <1>7 DEF Kinds

-----------------------------------------------------------------------------
(* All of it holds always. *)

Work ==
  /\ Tidy
  /\ Followed
  /\ Origins
  /\ Sound
  /\ Looked
  /\ Reported
  /\ Made
  /\ Changed
  /\ Pending

LEMMA WorkInit == Init => Work
<1> SUFFICES ASSUME Init
             PROVE  Work
  OBVIOUS
<1>1. job.step = "idle"
  BY DEF Init, Idle
<1>2. ~Underway /\ Tidy /\ Looked
  BY <1>1 DEF Underway, Tidy, Looked
<1>3. Sound
  BY LineFacts DEF Init, Sound
<1>4. Origins
  <2>1. PICK v \in Version :
          releases = [r \in {Repo[a] : a \in App} |->
                       SetToSeq({Tag(a, v) : a \in {a \in App : Repo[a] = r}})]
    BY DEF Init
  <2> SUFFICES ASSUME NEW r \in DOMAIN releases, NEW i \in DOMAIN releases[r]
               PROVE  Repo[releases[r][i].component] = r
    BY DEF Origins
  <2> DEFINE tags == {Tag(a, v) : a \in {a \in App : Repo[a] = r}}
  <2>2. r \in {Repo[a] : a \in App} /\ releases[r] = SetToSeq(tags)
    BY <2>1
  <2>3. IsFiniteSet(tags) /\ tags # {}
    <3> DEFINE of == {a \in App : Repo[a] = r}
    <3>1. IsFiniteSet(of)
      BY UpdaterAssumption, FS_Subset
    <3>2. [a \in of |-> Tag(a, v)] \in Surjection(of, tags)
      BY DEF Surjection
    <3>3. IsFiniteSet(tags)
      BY <3>1, <3>2, FS_Surjection
    <3>. QED
      BY <2>2, <3>3
  <2>4. releases[r] \in Seq(tags)
    BY <2>2, <2>3, Sequenced
  <2>5. releases[r][i] \in tags
    BY <2>4
  <2>6. PICK a \in App : Repo[a] = r /\ releases[r][i] = Tag(a, v)
    BY <2>5
  <2>. QED
    BY <2>1, <2>6 DEF Tag
<1>. QED
  BY <1>2, <1>3, <1>4 DEF Work, Followed, Reported, Made, Changed, Pending

LEMMA WorkNext == Typed /\ Sourced /\ Clean /\ Work /\ [Next]_vars => Work'
<1> SUFFICES ASSUME Typed, Sourced, Clean, Work, [Next]_vars
             PROVE  Work'
  OBVIOUS
<1>1. Typed' /\ Kinds
  BY Steps, TypedNext
<1>2. /\ Tidy /\ Followed /\ Origins /\ Sound /\ Looked
      /\ Reported /\ Made /\ Changed /\ Pending
  BY DEF Work
<1>3. Tidy' /\ Followed' /\ Origins'
  BY <1>1, <1>2, TidyNext, FollowedNext, OriginsNext
<1>4. Sound' /\ Looked'
  BY <1>1, <1>2, SoundNext, LookedNext
<1>5. Reported' /\ Made'
  BY <1>1, <1>2, ReportedNext, MadeNext
<1>6. Changed' /\ Pending'
  BY <1>1, <1>2, ChangedNext, PendingNext
<1>. QED
  BY <1>3, <1>4, <1>5, <1>6 DEF Work

LEMMA WorkAlways == Spec => [](Typed /\ Sourced /\ Clean /\ Work)
  BY WorkInit, WorkNext, BasicsAlways, PTL DEF Spec

\* What the updater pinned can be pulled from the registry that was asked, or was
\* installed, for any programs and however runs, edits, releases and the registries
\* interleave: nothing is assumed of a release but that it was made.
THEOREM Resolve == Spec => []PinsResolve
<1>1. Work => PinsResolve
  BY UpdaterAssumption DEF Work, Sound, PinsResolve, Resolved
<1>. QED
  BY <1>1, WorkAlways, PTL

\* A push does what the run reports, and nothing to the pins it does not report,
\* whatever was merged while it was under way and however often it was put on that.
THEOREM Reports == Spec => PushedAsReported
<1>1. ASSUME Typed, Sourced, Clean, Work, [Next]_vars, job.step = "push", job'.step = "record"
      PROVE  LET reported == {job.titles[i] : i \in DOMAIN job.titles}
             IN  /\ \A t \in reported :
                      \/ Pin(t.app) \in {t.from, t.to} /\ Pin(t.app)' = t.to
                      \/ author[<<"pin", t.app>>] = "person" /\ Pin(t.app)' = Pin(t.app)
                 /\ \A a \in App : Pin(a)' # Pin(a) => \E t \in reported : t.app = a
  <2>1. Kinds
    BY <1>1, Steps
  <2>2. Pushed /\ Underway
    BY <1>1, <2>1 DEF Kinds, Off, Began, Chose, PassedOver, Onward, Bumped, Fetched, Lost, Replayed,
       Rebased, Outside, Underway
  <2>3. Tidy /\ Followed /\ Reported /\ Made /\ Changed /\ Pending /\ job.todo \in Seq(Patch)
    BY <1>1 DEF Work, Typed, Job
  <2>4. \A a \in App : /\ Pin(a)' = job.tree[<<"pin", a>>]
                       /\ Pin(a)' # Pin(a) => Titled(a, Pin(a), Pin(a)')
    BY <1>1, <2>2, <2>3, PushFacts
  <2>5. ASSUME NEW i \in DOMAIN job.titles, NEW t, t = job.titles[i]
        PROVE  \/ Pin(t.app) \in {t.from, t.to} /\ Pin(t.app)' = t.to
               \/ author[<<"pin", t.app>>] = "person" /\ Pin(t.app)' = Pin(t.app)
    <3>1. t.app \in App /\ Titled(t.app, t.from, t.to)
      BY <1>1, <2>5, TitleFacts
    <3>2. CASE Pin(t.app)' # Pin(t.app)
      <4>1. Titled(t.app, Pin(t.app), Pin(t.app)')
        BY <2>4, <3>1, <3>2
      <4>. QED
        BY <1>1, <2>2, <2>3, <3>1, <4>1, OneTitle
    <3>3. CASE Pin(t.app)' = Pin(t.app)
      <4>1. Held(t)
        BY <2>2, <2>3, <2>5 DEF Pending
      <4>2. ~Touched(t.app, job.todo)
        BY <1>1, <2>3, <3>1, TouchedFacts DEF Tidy
      <4>. QED
        BY <2>4, <3>1, <3>3, <4>1, <4>2 DEF Held
    <3>. QED
      BY <3>2, <3>3
  <2>6. ASSUME NEW a \in App, Pin(a)' # Pin(a)
        PROVE  \E i \in DOMAIN job.titles : job.titles[i].app = a
    <3>1. PICK i \in DOMAIN job.titles :
            job.titles[i] = [app |-> a, from |-> Pin(a), to |-> Pin(a)']
      BY <2>4, <2>6 DEF Titled
    <3>. QED
      BY <3>1
  <2>. QED
    BY <2>5, <2>6
<1>2. Typed /\ Sourced /\ Clean /\ Work /\ [Next]_vars =>
        [(job.step = "push" /\ job'.step = "record") =>
           LET reported == {job.titles[i] : i \in DOMAIN job.titles}
           IN  /\ \A t \in reported :
                    \/ Pin(t.app) \in {t.from, t.to} /\ Pin(t.app)' = t.to
                    \/ author[<<"pin", t.app>>] = "person" /\ Pin(t.app)' = Pin(t.app)
               /\ \A a \in App : Pin(a)' # Pin(a) => \E t \in reported : t.app = a]_vars
  BY <1>1
<1>. QED
  BY <1>2, WorkAlways, PTL DEF Spec, PushedAsReported

\* Versions that are told apart are ordered: no two are spellings of one, as 1.0 and
\* 1.00 are, which compareVersions calls equal.
Ordered == \A v, w \in Version : v = w \/ Before(v, w) \/ Before(w, v)

\* What the updater pinned it moves only to a newer version, in whatever order the
\* releases, their images and the pushes of people come.
THEOREM Forward ==
  ASSUME Ordered
  PROVE  Spec => PinsMoveForward
<1>1. ASSUME Typed, Sourced, Clean, Work, [Next]_vars, NEW a \in Prefixed,
             Pin(a)' # Pin(a),
             author[<<"pin", a>>] = "updater", author'[<<"pin", a>>] = "updater"
      PROVE  Before(Pin(a), Pin(a)')
  <2>1. Kinds /\ a \in App
    BY <1>1, Steps, UpdaterAssumption
  <2>2. Pushed
    BY <1>1, <2>1, WorldGoesOn
  <2>3. Tidy /\ Followed /\ Reported /\ Made /\ Changed /\ Sound /\ Underway
    BY <1>1, <2>2 DEF Work, Pushed, Underway
  <2>4. Titled(a, Pin(a), Pin(a)')
    BY <1>1, <2>1, <2>2, <2>3, PushFacts
  <2>5. Backed([app |-> a, from |-> Pin(a), to |-> Pin(a)'])
    BY <1>1, <2>3, <2>4, TitledFacts
  <2>6. WasReleased(a, Pin(a)') /\ WasReleased(a, Pin(a)) /\ ~Before(Pin(a)', Pin(a))
    BY <1>1, <2>1, <2>3, <2>5 DEF Backed, Newest, Sound
  <2>7. \A v : WasReleased(a, v) => v \in Version
    <3> SUFFICES ASSUME NEW v, WasReleased(a, v)
                 PROVE  v \in Version
      OBVIOUS
    <3>1. PICK i \in DOMAIN releases[Repo[a]] : releases[Repo[a]][i] = Tag(a, v)
      BY DEF WasReleased
    <3>2. releases[Repo[a]] \in Seq(Released)
      BY <1>1, <2>1 DEF Typed
    <3>3. Tag(a, v) \in Released
      BY <3>1, <3>2
    <3>. QED
      BY <3>3 DEF Tag, Released
  <2>8. PICK v, w : v = Pin(a) /\ w = Pin(a)'
    OBVIOUS
  <2>9. v \in Version /\ w \in Version /\ v # w /\ ~Before(w, v)
    BY <1>1, <2>6, <2>7, <2>8
  <2>10. Before(v, w)
    BY <2>9 DEF Ordered
  <2>. QED
    BY <2>8, <2>10
<1>2. Typed /\ Sourced /\ Clean /\ Work /\ [Next]_vars =>
        [\A a \in Prefixed :
           (/\ Pin(a)' # Pin(a)
            /\ author[<<"pin", a>>] = "updater"
            /\ author'[<<"pin", a>>] = "updater") => Before(Pin(a), Pin(a)')]_vars
  BY <1>1
<1>. QED
  BY <1>2, WorkAlways, PTL DEF Spec, PinsMoveForward
=============================================================================
