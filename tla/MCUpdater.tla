----------------------------- MODULE MCUpdater -----------------------------
(***************************************************************************)
(* The updater on two programs of one repository and one versions.ts, one   *)
(* of them on a registry there is no client for, and one dependency;        *)
(* versions 9 and 19, whose order as text is the reverse.                   *)
(***************************************************************************)
EXTENDS Updater

CONSTANTS Image, Site, Library

MCEntries == <<Image, Site, Library>>
MCRepo == [a \in App |-> IF a = Library THEN "upstream" ELSE "own"]
MCFile == [a \in App |-> IF a = Library THEN "package.json" ELSE "versions.ts"]
MCVersion == {<< <<9>> >>, << <<1, 9>> >>}

\* What UpdaterProofs!Forward assumes of the versions.
ASSUME VersionsAreOrdered == \A v, w \in Version : v = w \/ Before(v, w) \/ Before(w, v)
=============================================================================
