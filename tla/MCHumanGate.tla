---------------------------- MODULE MCHumanGate ----------------------------
(***************************************************************************)
(* Instances of HumanGate: reviews of ideas, one of them reviewed twice,   *)
(* and a question without a node, as AskUser and proposals put it.         *)
(***************************************************************************)
EXTENDS HumanGate

CONSTANTS idea1, idea2

Mixed == <<idea1, idea2, Blank, idea1>>

=============================================================================
