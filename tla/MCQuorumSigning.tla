--------------------------- MODULE MCQuorumSigning ---------------------------
(* Instances of QuorumSigning for TLC.                                     *)
EXTENDS QuorumSigning, TLC

CONSTANTS n1, n2, n3, n4, q1, i1, m1, m2

AllMembers == [q \in Quorums |-> Nodes]
BornAtZero == [q \in Quorums |-> 0]

HonestPerms == Permutations(Honest)
=============================================================================
