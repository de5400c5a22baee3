------------------------------ MODULE Versions ------------------------------
(***************************************************************************)
(* The decisions of the version updater (scripts/update-apps/versions.ts), *)
(* which are pure: how a release tag is ordered among others, which of the  *)
(* tags of a repository is a component's newest, and what is done about a   *)
(* pin given what is released and what the registry holds.                  *)
(*                                                                         *)
(* A version is the sequence of its segments, and a segment the sequence of *)
(* its characters: 0..9 are the digits, larger numbers the other            *)
(* characters in the order of their codes (all of which follow the digits   *)
(* but a few that no tag here has).                                        *)
(***************************************************************************)
EXTENDS Integers, SequencesExt

\* The regular expression of a number that is not empty; `Number` of anything
\* else is NaN, and of "" is left out by the two comparisons with "".
IsNumber(segment) == segment # <<>> /\ \A i \in DOMAIN segment : segment[i] \in 0..9

NumberOf(segment) == FoldLeft(LAMBDA n, digit : 10 * n + digit, 0, segment)

\* JavaScript's `<` on strings: the first character that differs, or the length.
TextBefore(a, b) ==
    \/ IsStrictPrefix(a, b)
    \/ \E i \in DOMAIN a \cap DOMAIN b :
        /\ a[i] < b[i]
        /\ \A j \in 1..(i - 1) : a[j] = b[j]

\* A segment past the end of a version is "".
Segment(version, i) == IF i \in DOMAIN version THEN version[i] ELSE <<>>

BothNumbers(a, b) == IsNumber(a) /\ IsNumber(b)

SegmentBefore(a, b) ==
    IF BothNumbers(a, b) THEN NumberOf(a) < NumberOf(b) ELSE TextBefore(a, b)

\* The loop goes on to the next segment: the same text, or the same number.
SegmentLevel(a, b) ==
    IF BothNumbers(a, b) THEN NumberOf(a) = NumberOf(b) ELSE a = b

\* compareVersions(a, b) < 0: the first segment that is not level decides.
Before(a, b) ==
    \E i \in DOMAIN a \cup DOMAIN b :
        /\ SegmentBefore(Segment(a, i), Segment(b, i))
        /\ \A j \in 1..(i - 1) : SegmentLevel(Segment(a, j), Segment(b, j))

\* A tag of a release: the component its prefix names, and its version once
\* normaliseVersion has taken off everything before the first digit.
Tag(component, version) == [component |-> component, version |-> version]

\* Mutant: the order the API gives is trusted.
PickListedTag(tags, component) == {t \in tags : t.component = component}

\* The newest of a component's tags in the order of compareVersions. `tags` is a
\* set since the API's order decides only between two spellings of one version,
\* of which either may come.
PickLatestTag(tags, component) ==
    LET own == {t \in tags : t.component = component}
    IN  {t \in own : \A u \in own : ~Before(t.version, u.version)}

\* Mutant: the registry is not asked.
DecideUnasked(current, next, checked, exists) ==
    IF current = {} THEN "problem"
    ELSE IF current = {next} THEN "up-to-date" ELSE "update"

\* What `decide` says of an entry. `current` is a set of at most one value, empty
\* when the key or the dependency is not found exactly once; `checked` is whether
\* the entry names an image or a chart to look up.
Decide(current, next, checked, exists) ==
    IF current = {} THEN "problem"
    ELSE IF checked /\ ~exists
         THEN IF current = {next} THEN "problem" ELSE "lagging"
         ELSE IF current = {next} THEN "up-to-date" ELSE "update"
=============================================================================
