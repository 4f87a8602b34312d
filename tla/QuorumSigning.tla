---------------------------- MODULE QuorumSigning ----------------------------
(***************************************************************************)
(* Threshold signing by long-living masternode quorums, as seen by the     *)
(* whole network: CSigningManager (llmq/signing.cpp) decides whether a     *)
(* masternode may sign a message hash for a request id, CSigSharesManager  *)
(* (llmq/signing_shares.cpp) turns the decision into a signature share and *)
(* recovers the quorum signature once enough shares of one signing session *)
(* are around.                                                             *)
(*                                                                         *)
(* A masternode's votes and recovered signatures are on disk; its queue of *)
(* signatures to make is in memory.  Shares and recovered signatures that  *)
(* left a node may be lost, duplicated, delayed or reordered: the network  *)
(* is the set of everything ever sent.  Faulty masternodes sign anything.  *)
(***************************************************************************)
EXTENDS Integers, FiniteSets

CONSTANTS
    Nodes,        \* the masternodes
    Byz,          \* those that do not follow the code
    Quorums,
    Members,      \* Members[q]: the valid members of quorum q
    Threshold,    \* shares needed to recover a signature of a quorum
    Ids,          \* request ids
    Msgs,         \* message hashes
    ReSignIds,    \* ids whose requests are made with allowReSign
    Born,         \* Born[q]: when quorum q starts to be selected
    Life,         \* for how long a quorum is selected for signing
    Grace,        \* for how much longer its signatures are still accepted
    MaxAge,       \* -maxrecsigsage
    MaxTime,      \* bound on the clock
    MaxRestarts,  \* bound on the number of process restarts
    None

Honest == Nodes \ Byz
Time == 0..MaxTime

ASSUME SigningAssumption ==
    /\ IsFiniteSet(Nodes)
    /\ Members \in [Quorums -> SUBSET Nodes]
    /\ Born \in [Quorums -> Nat]
    /\ Threshold \in Nat /\ Life \in Nat /\ Grace \in Nat /\ MaxAge \in Nat
    /\ MaxTime \in Nat /\ MaxRestarts \in Nat

(* Two sets of Threshold members share a member that follows the code.     *)
ASSUME QuorumIntersection ==
    \A q \in Quorums :
        2 * Threshold > Cardinality(Members[q]) + Cardinality(Members[q] \cap Byz)

(* A vote outlives the quorum it was given to: -maxrecsigsage (a week by   *)
(* default) is not shorter than the time a quorum is selected.             *)
ASSUME VotesOutliveQuorums == Life <= MaxAge

(* A signing session: what CLLMQUtils::BuildSignHash commits to.           *)
Sessions == [quorum : Quorums, id : Ids, msg : Msgs]
Votes == [msg : Msgs, time : Time]
RecoveredSigs == [session : Sessions, time : Time]

ASSUME NoneAssumption == None \notin Votes /\ None \notin RecoveredSigs

VARIABLES
    now,
    vote,          \* "rs_v" and "rs_vt" records of each node, on disk
    rec,           \* "rs_r" and "rs_t" records of each node by id, on disk
    known,         \* "rs_h" records of each node, on disk
    pendingSigns,  \* CSigSharesManager::pendingSigns of each node
    shares,        \* <<n, s>>: the share of honest n for s left the node
    restarts

vars == <<now, vote, rec, known, pendingSigns, shares, restarts>>
dbVars == <<vote, rec, known>>

(* Every record of the databases, every queue and every share of the       *)
(* signing managers has the form the code gives it.                        *)
TypeOK ==
    /\ now \in Time
    /\ vote \in [Honest -> [Ids -> Votes \cup {None}]]
    /\ rec \in [Honest -> [Ids -> RecoveredSigs \cup {None}]]
    /\ known \in [Honest -> SUBSET Sessions]
    /\ pendingSigns \in [Honest -> SUBSET Sessions]
    /\ shares \subseteq Honest \X Sessions
    /\ restarts \in 0..MaxRestarts

Init ==
    /\ now = 0
    /\ vote = [n \in Honest |-> [i \in Ids |-> None]]
    /\ rec = [n \in Honest |-> [i \in Ids |-> None]]
    /\ known = [n \in Honest |-> {}]
    /\ pendingSigns = [n \in Honest |-> {}]
    /\ shares = {}
    /\ restarts = 0
-----------------------------------------------------------------------------
(* SelectQuorumForSigning ranks the active quorums of the caller's own tip *)
(* by a hash over the request id: any quorum of the active window may come *)
(* out, and a different one for members whose tips differ.                 *)
Selectable(q) == Born[q] <= now /\ now <= Born[q] + Life

(* CLLMQUtils::IsQuorumActive: one window that is a little longer, so that *)
(* signatures made just before a quorum change are still accepted.         *)
IsQuorumActive(q) == Born[q] <= now /\ now <= Born[q] + Life + Grace

(* The members whose share of session s is available to whoever collects.  *)
Signers(s) ==
    {n \in Members[s.quorum] : n \in Byz \/ <<n, s>> \in shares}

Recoverable(s) == Cardinality(Signers(s)) >= Threshold

(* CRecoveredSigsDb::WriteVoteForId.                                       *)
WriteVoteForId(n, id, msg) ==
    vote' = [vote EXCEPT ![n][id] = [msg |-> msg, time |-> now]]

(* Mutant: only recovered signatures are looked at, not our own vote.      *)
MaySign_IgnoresVote(n, id, msg) == rec[n][id] = None

(* The vote check of AsyncSignIfMember: no vote yet, or the same message   *)
(* and the caller allows signing again.                                    *)
MaySign(n, id, msg) ==
    \/ vote[n][id] = None
    \/ id \in ReSignIds /\ vote[n][id] # None /\ vote[n][id].msg = msg

(* CSigningManager::AsyncSignIfMember.  The vote is on disk before the     *)
(* share is queued; a node that has voted keeps the time of its first vote.*)
AsyncSignIfMember(n, q, id, msg) ==
    /\ Selectable(q)
    /\ n \in Members[q]
    /\ MaySign(n, id, msg)
    /\ rec[n][id] = None
    /\ IF vote[n][id] = None THEN WriteVoteForId(n, id, msg)
                             ELSE UNCHANGED vote
    /\ pendingSigns' = [pendingSigns EXCEPT
            ![n] = @ \cup {[quorum |-> q, id |-> id, msg |-> msg]}]
    /\ UNCHANGED <<now, rec, known, shares, restarts>>

(* CSigSharesManager::SignPendingSigShares and ProcessSigShare for a share *)
(* of our own.  When the id is already recovered the share is not passed   *)
(* on, unless SPORK_21 makes the node push it to the recovery members.     *)
SignPendingSigShares(n) ==
    \E s \in pendingSigns[n] :
        /\ pendingSigns' = [pendingSigns EXCEPT ![n] = @ \ {s}]
        /\ \/ shares' = shares \cup {<<n, s>>}
           \/ rec[n][s.id] # None /\ shares' = shares
        /\ UNCHANGED <<now, dbVars, restarts>>

(* CSigningManager::ProcessRecoveredSig with CRecoveredSigsDb::            *)
(* WriteRecoveredSig: the first recovered signature of an id is kept.      *)
ProcessRecoveredSig(n, s) ==
    /\ s \notin known[n]
    /\ rec[n][s.id] = None
    /\ rec' = [rec EXCEPT ![n][s.id] = [session |-> s, time |-> now]]
    /\ known' = [known EXCEPT ![n] = @ \cup {s}]
    /\ UNCHANGED <<now, vote, pendingSigns, shares, restarts>>

(* CSigSharesManager::TryRecoverSig on a member that collected enough      *)
(* shares of the session.                                                  *)
TryRecoverSig(n, s) ==
    /\ n \in Members[s.quorum]
    /\ Recoverable(s)
    /\ ProcessRecoveredSig(n, s)

(* A QSIGREC message: PreVerifyRecoveredSig drops it when the quorum is    *)
(* not active any more, batch verification when the signature is not real. *)
ReceiveRecoveredSig(n, s) ==
    /\ IsQuorumActive(s.quorum)
    /\ Recoverable(s)
    /\ ProcessRecoveredSig(n, s)

(* CRecoveredSigsDb::CleanupOldVotes.                                      *)
CleanupOldVotes(n) ==
    LET old == {i \in Ids : vote[n][i] # None /\ vote[n][i].time < now - MaxAge}
    IN  /\ old # {}
        /\ vote' = [vote EXCEPT ![n] =
                        [i \in Ids |-> IF i \in old THEN None ELSE vote[n][i]]]
        /\ UNCHANGED <<now, rec, known, pendingSigns, shares, restarts>>

(* CRecoveredSigsDb::CleanupOldRecoveredSigs, one expired signature.       *)
CleanupOldRecoveredSigs(n, id) ==
    /\ rec[n][id] # None
    /\ rec[n][id].time < now - MaxAge
    /\ rec' = [rec EXCEPT ![n][id] = None]
    /\ known' = [known EXCEPT ![n] = @ \ {rec[n][id].session}]
    /\ UNCHANGED <<now, vote, pendingSigns, shares, restarts>>

(* CRecoveredSigsDb::TruncateRecoveredSig, called by InstantSend when some *)
(* other mechanism protects the inputs: the hash record stays.             *)
TruncateRecoveredSig(n, id) ==
    /\ rec[n][id] # None
    /\ rec' = [rec EXCEPT ![n][id] = None]
    /\ UNCHANGED <<now, vote, known, pendingSigns, shares, restarts>>

(* The process stops and is started again: what is in memory is gone.      *)
Restart(n) ==
    /\ restarts < MaxRestarts
    /\ restarts' = restarts + 1
    /\ pendingSigns' = [pendingSigns EXCEPT ![n] = {}]
    /\ UNCHANGED <<now, dbVars, shares>>

Tick ==
    /\ now < MaxTime
    /\ now' = now + 1
    /\ UNCHANGED <<dbVars, pendingSigns, shares, restarts>>

NodeStep(n) ==
    \/ \E q \in Quorums, id \in Ids, msg \in Msgs : AsyncSignIfMember(n, q, id, msg)
    \/ SignPendingSigShares(n)
    \/ \E s \in Sessions : TryRecoverSig(n, s) \/ ReceiveRecoveredSig(n, s)
    \/ CleanupOldVotes(n)
    \/ \E id \in Ids : CleanupOldRecoveredSigs(n, id) \/ TruncateRecoveredSig(n, id)
    \/ Restart(n)

Next == Tick \/ \E n \in Honest : NodeStep(n)

Spec == Init /\ [][Next]_vars

-----------------------------------------------------------------------------
Conflicting(s1, s2) == s1.id = s2.id /\ s1.msg # s2.msg

(* A masternode's shares for one quorum and one id are all for the same    *)
(* message hash, across restarts, vote expiry, truncation and whatever the *)
(* network does, when the id is never requested with allowReSign           *)
(* (AsyncSignIfMember's vote check).                                       *)
OneVotePerQuorum ==
    \A n \in Honest, s1, s2 \in Sessions :
        /\ <<n, s1>> \in shares /\ <<n, s2>> \in shares
        /\ s1.quorum = s2.quorum /\ s1.id \notin ReSignIds
        => ~Conflicting(s1, s2)

(* No two recovered signatures of one quorum conflict on an id: the reason *)
(* why ChainLocks and InstantSend may act on a recovered signature.        *)
NoConflictingRecovery ==
    \A s1, s2 \in Sessions :
        /\ Recoverable(s1) /\ Recoverable(s2)
        /\ s1.quorum = s2.quorum /\ s1.id \notin ReSignIds
        => ~Conflicting(s1, s2)

(* What two nodes have stored under one id, at whatever time and from      *)
(* whatever message, agrees when it comes from the same quorum.            *)
StoredSigsAgree ==
    \A m, n \in Honest, i \in Ids :
        /\ rec[m][i] # None /\ rec[n][i] # None /\ i \notin ReSignIds
        /\ rec[m][i].session.quorum = rec[n][i].session.quorum
        => rec[m][i].session = rec[n][i].session

=============================================================================
