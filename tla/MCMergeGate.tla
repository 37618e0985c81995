---------------------------- MODULE MCMergeGate ----------------------------
(* A score below, at and above zero. *)
EXTENDS MergeGate

CONSTANT Range  \* bound: scores go from -Range to Range

SignedScores == -Range .. Range
=============================================================================
