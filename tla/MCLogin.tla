------------------------------ MODULE MCLogin ------------------------------
(***************************************************************************)
(* Login on small instances: Ann is on every allowlist, Bob only on the    *)
(* first one.                                                              *)
(***************************************************************************)
EXTENDS Login, TLC

CONSTANTS Ann, Bob

MCPerson == {Ann, Bob}
MCAllowed == [v \in Version |-> IF v = 0 THEN {Ann, Bob} ELSE {Ann}]

Symmetry == Permutations(Worker) \cup Permutations(Browser)
=============================================================================
