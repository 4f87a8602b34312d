------------------------- MODULE MCRecoveredSigsDb -------------------------
(* Small instances of RecoveredSigsDb.                                     *)
EXTENDS RecoveredSigsDb, TLC

CONSTANTS i1, m1, q1

(* One signing request id and the signature of one session for it.         *)
OneSig == {[quorum |-> q1, id |-> i1, msgHash |-> m1]}
=============================================================================
