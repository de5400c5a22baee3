------------------------------- MODULE MCNodes -------------------------------
(***************************************************************************)
(* Two Cilium minors, tested against ranges of k3s minors that overlap in    *)
(* one, and a third that is in no table.                                    *)
(***************************************************************************)
EXTENDS Nodes

MCSupport == (1 :> <<1, 2>>) @@ (2 :> <<2, 3>>)
=============================================================================
