---------------------------- MODULE MCSigShares -----------------------------
(* Small quorums, each for something that can go wrong.                    *)
EXTENDS SigShares

Line(M) == [n \in M |-> {p \in M : p - n \in {-1, 1}}]
Diamond == [n \in Nodes |-> IF n \in {0, 1} THEN {2, 3} ELSE {0, 1}]
Setting(peers, signers, threshold, faulty, allConnected, maxFaults) ==
    [peers |-> peers, signers |-> signers, threshold |-> threshold, faulty |-> faulty,
     allConnected |-> allConnected, maxFaults |-> maxFaults]

MCSetups == {
    \* shares come through others, more of them than may be requested at a time
    Setting(Line(Nodes), {2, 3}, 3, {}, FALSE, 0),
    \* a member makes bad shares
    Setting(Line({0, 1, 2}), {0, 1, 2}, 2, {2}, FALSE, 0),
    \* member 3 is told of the share of 2 by two nodes
    Setting(Diamond, {2}, 2, {}, FALSE, 0),
    \* a session times out, a connection breaks, or both
    Setting(Line({0, 1}), {0}, 2, {}, FALSE, 2),
    \* the mode of SPORK_21
    Setting(Line({0, 1}), {0, 1}, 2, {}, TRUE, 1)}

MCOrder == <<0, 1>>
=============================================================================
