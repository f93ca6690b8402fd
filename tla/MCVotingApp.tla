---------------------------- MODULE MCVotingApp ----------------------------
(***************************************************************************)
(* Instances of VotingApp for TLC.                                         *)
(***************************************************************************)
EXTENDS VotingApp, TLC

CONSTANTS p1, p2, x, y, z

\* Options are interchangeable, the peers are not: one has a script.
Symmetry == Permutations({x, y, z})

=============================================================================
