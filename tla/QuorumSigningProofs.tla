------------------------- MODULE QuorumSigningProofs -------------------------
(***************************************************************************)
(* Proofs about QuorumSigning for any number of masternodes, quorums, ids  *)
(* and message hashes.                                                     *)
(*                                                                         *)
(* The agreement of recovered signatures rests on one fact about each      *)
(* masternode: as long as a quorum can still be selected, everything the   *)
(* node has signed or queued for it is backed by a vote that is on disk    *)
(* and not older than the quorum (VoteBacksSigning).  A vote that expires  *)
(* is older than any quorum that is still selectable, so a second vote     *)
(* can never reach the quorum of the first one.                            *)
(*                                                                         *)
(* The second part is about the store of recovered signatures, which       *)
(* RecoveredSigsDb models key by key.                                      *)
(***************************************************************************)
EXTENDS QuorumSigning, FiniteSetTheorems, TLAPS

(* What node n has queued for signing or has signed.                       *)
Signing(n, s) == s \in pendingSigns[n] \/ <<n, s>> \in shares

Backed(n, s) ==
    \/ now > Born[s.quorum] + Life
    \/ /\ vote[n][s.id] # None
       /\ vote[n][s.id].msg = s.msg
       /\ Born[s.quorum] <= vote[n][s.id].time

VoteBacksSigning ==
    \A n \in Honest, s \in Sessions :
        Signing(n, s) /\ s.id \notin ReSignIds => Backed(n, s)

OneSigningPerQuorum ==
    \A n \in Honest, s1, s2 \in Sessions :
        /\ Signing(n, s1) /\ Signing(n, s2)
        /\ s1.quorum = s2.quorum /\ s1.id \notin ReSignIds
        => ~Conflicting(s1, s2)

StoredSigsAreReal ==
    \A n \in Honest, i \in Ids :
        rec[n][i] # None =>
            /\ rec[n][i].session.id = i
            /\ Recoverable(rec[n][i].session)

IndInv == TypeOK /\ VoteBacksSigning /\ OneSigningPerQuorum /\ StoredSigsAreReal
-----------------------------------------------------------------------------
(* Type correctness of the whole network state.                            *)
THEOREM TypeCorrect == Spec => []TypeOK
<1>1. Init => TypeOK
  BY SigningAssumption DEF Init, TypeOK, Time
<1>2. TypeOK /\ [Next]_vars => TypeOK'
  <2> SUFFICES ASSUME TypeOK, [Next]_vars PROVE TypeOK'
    OBVIOUS
  <2> USE SigningAssumption DEF TypeOK, dbVars
  <2>1. CASE Tick
    BY <2>1 DEF Tick, Time
  <2>2. ASSUME NEW n \in Honest, NEW q \in Quorums, NEW id \in Ids, NEW msg \in Msgs,
               AsyncSignIfMember(n, q, id, msg)
        PROVE  TypeOK'
    <3>1. [quorum |-> q, id |-> id, msg |-> msg] \in Sessions
      BY DEF Sessions
    <3>2. pendingSigns' \in [Honest -> SUBSET Sessions]
      BY <2>2, <3>1 DEF AsyncSignIfMember
    <3>3. [msg |-> msg, time |-> now] \in Votes
      BY DEF Votes
    <3>4. vote' \in [Honest -> [Ids -> Votes \cup {None}]]
      <4>1. \/ vote' = vote
            \/ vote' = [vote EXCEPT ![n] = [@ EXCEPT ![id] = [msg |-> msg, time |-> now]]]
        BY <2>2 DEF AsyncSignIfMember, WriteVoteForId
      <4>2. [vote[n] EXCEPT ![id] = [msg |-> msg, time |-> now]] \in [Ids -> Votes \cup {None}]
        BY <3>3
      <4> QED BY <4>1, <4>2
    <3> QED BY <2>2, <3>2, <3>4 DEF AsyncSignIfMember
  <2>3. ASSUME NEW n \in Honest, SignPendingSigShares(n)
        PROVE  TypeOK'
    BY <2>3 DEF SignPendingSigShares
  <2>4. ASSUME NEW n \in Honest, NEW s \in Sessions, ProcessRecoveredSig(n, s)
        PROVE  TypeOK'
    <3>1. [session |-> s, time |-> now] \in RecoveredSigs /\ s.id \in Ids
      BY DEF RecoveredSigs, Sessions
    <3> QED BY <2>4, <3>1 DEF ProcessRecoveredSig
  <2>5. ASSUME NEW n \in Honest, CleanupOldVotes(n)
        PROVE  TypeOK'
    BY <2>5 DEF CleanupOldVotes
  <2>6. ASSUME NEW n \in Honest, NEW id \in Ids, CleanupOldRecoveredSigs(n, id)
        PROVE  TypeOK'
    BY <2>6 DEF CleanupOldRecoveredSigs
  <2>7. ASSUME NEW n \in Honest, NEW id \in Ids, TruncateRecoveredSig(n, id)
        PROVE  TypeOK'
    BY <2>7 DEF TruncateRecoveredSig
  <2>8. ASSUME NEW n \in Honest, Restart(n)
        PROVE  TypeOK'
    BY <2>8 DEF Restart
  <2>9. CASE UNCHANGED vars
    BY <2>9 DEF vars
  <2> QED
    BY <2>1, <2>2, <2>3, <2>4, <2>5, <2>6, <2>7, <2>8, <2>9
       DEF Next, NodeStep, TryRecoverSig, ReceiveRecoveredSig
<1> QED BY <1>1, <1>2, PTL DEF Spec
-----------------------------------------------------------------------------
(* Two recoverable sessions of one quorum have a signer in common that     *)
(* follows the code: TryRecoverSig needs Threshold shares of the session.  *)
LEMMA HonestSignerInCommon ==
    ASSUME NEW s1 \in Sessions, NEW s2 \in Sessions, s1.quorum = s2.quorum,
           Recoverable(s1), Recoverable(s2)
    PROVE  \E n \in Honest : <<n, s1>> \in shares /\ <<n, s2>> \in shares
<1> DEFINE M == Members[s1.quorum]
           F == M \cap Byz
           A == Signers(s1)
           B == Signers(s2)
<1>1. s1.quorum \in Quorums /\ M \subseteq Nodes
  BY SigningAssumption DEF Sessions
<1>2. IsFiniteSet(M)
  BY <1>1, FS_Subset, SigningAssumption
<1>3. A \subseteq M /\ B \subseteq M /\ F \subseteq M /\ A \cup B \subseteq M /\ A \cap B \subseteq M
  BY DEF Signers
<1>4. /\ IsFiniteSet(A) /\ IsFiniteSet(B) /\ IsFiniteSet(F) /\ IsFiniteSet(A \cap B)
      /\ Cardinality(A \cup B) <= Cardinality(M)
  BY <1>2, <1>3, FS_Subset
<1>5. Cardinality(A \cup B) = Cardinality(A) + Cardinality(B) - Cardinality(A \cap B)
  BY <1>4, FS_Union
<1>6. /\ Cardinality(A) \in Nat /\ Cardinality(B) \in Nat /\ Cardinality(M) \in Nat
      /\ Cardinality(F) \in Nat /\ Cardinality(A \cap B) \in Nat
  BY <1>2, <1>4, FS_CardinalityType
<1>7. Cardinality(A) >= Threshold /\ Cardinality(B) >= Threshold
  BY DEF Recoverable
<1>8. 2 * Threshold > Cardinality(M) + Cardinality(F)
  BY <1>1, QuorumIntersection
<1>9. Cardinality(A \cap B) > Cardinality(F)
  BY <1>4, <1>5, <1>6, <1>7, <1>8, SigningAssumption
<1>10. ~(A \cap B \subseteq F)
  BY <1>4, <1>6, <1>9, FS_Subset
<1>11. PICK n \in A \cap B : n \notin F
  BY <1>10
<1> QED BY <1>1, <1>11 DEF Signers, Honest

(* Shares never disappear, so what is recoverable stays recoverable.       *)
LEMMA RecoverableIsStable ==
    ASSUME NEW s \in Sessions, Recoverable(s), shares \subseteq shares'
    PROVE  Recoverable(s)'
<1>1. IsFiniteSet(Members[s.quorum])
  BY FS_Subset, SigningAssumption DEF Sessions
<1>2. Signers(s) \subseteq Signers(s)' /\ Signers(s)' \subseteq Members[s.quorum]
  BY DEF Signers
<1>3. IsFiniteSet(Signers(s)')
  BY <1>1, <1>2, FS_Subset
<1>4. Cardinality(Signers(s)) <= Cardinality(Signers(s)')
  BY <1>2, <1>3, FS_Subset
<1>5. Cardinality(Signers(s)) \in Nat /\ Cardinality(Signers(s)') \in Nat
  BY <1>2, <1>3, FS_Subset, FS_CardinalityType
<1> QED BY <1>4, <1>5, SigningAssumption DEF Recoverable
-----------------------------------------------------------------------------
(* Every step keeps the inductive invariant.                               *)
LEMMA IndInvStep == IndInv /\ TypeOK' /\ [Next]_vars => IndInv'
<1> SUFFICES ASSUME IndInv, TypeOK', [Next]_vars PROVE IndInv'
  OBVIOUS
<1> USE DEF IndInv
<1>a. now \in Int /\ Life \in Int /\ MaxAge \in Int /\ \A q \in Quorums : Born[q] \in Int
  BY SigningAssumption DEF TypeOK, Time
<1>b. \A s \in Sessions : s.quorum \in Quorums /\ s.id \in Ids /\ s.msg \in Msgs
  BY DEF Sessions
<1>c. \A n \in Honest, i \in Ids : vote[n][i] # None => vote[n][i].time \in Int
  BY DEF TypeOK, Votes, Time
\* A step that leaves the votes, what is signed and the clock alone, or
\* only forgets queued requests, keeps the two voting conjuncts.
<1>d. ASSUME now' = now, vote' = vote,
             \A n \in Honest, s \in Sessions : Signing(n, s)' => Signing(n, s)
      PROVE  VoteBacksSigning' /\ OneSigningPerQuorum'
  BY <1>d DEF VoteBacksSigning, OneSigningPerQuorum, Backed
<1>e. ASSUME rec' = rec, shares \subseteq shares'
      PROVE  StoredSigsAreReal'
  BY <1>e, RecoverableIsStable DEF StoredSigsAreReal, TypeOK, RecoveredSigs
<1>1. CASE Tick
  <2>1. now' = now + 1 /\ UNCHANGED <<vote, rec, pendingSigns, shares>>
    BY <1>1 DEF Tick, dbVars
  <2>2. VoteBacksSigning' /\ OneSigningPerQuorum'
    BY <2>1, <1>a, <1>b DEF VoteBacksSigning, OneSigningPerQuorum, Signing, Backed
  <2> QED BY <2>1, <2>2, <1>e
<1>2. ASSUME NEW n \in Honest, NEW q \in Quorums, NEW id \in Ids, NEW msg \in Msgs,
             AsyncSignIfMember(n, q, id, msg)
      PROVE  IndInv'
  <2> DEFINE t == [quorum |-> q, id |-> id, msg |-> msg]
  <2>1. /\ t \in Sessions /\ t.quorum = q /\ t.id = id /\ t.msg = msg
        /\ pendingSigns' = [pendingSigns EXCEPT ![n] = @ \cup {t}]
        /\ UNCHANGED <<now, rec, shares>>
        /\ Born[q] <= now /\ now <= Born[q] + Life
        /\ MaySign(n, id, msg)
        /\ IF vote[n][id] = None THEN WriteVoteForId(n, id, msg) ELSE vote' = vote
    BY <1>2 DEF AsyncSignIfMember, Sessions, Selectable
  <2>2. \A m \in Honest, s \in Sessions :
            Signing(m, s)' => Signing(m, s) \/ (m = n /\ s = t)
    BY <2>1 DEF Signing, TypeOK
  \* The node had not signed for q and id before, or the id may be re-signed.
  <2>3. ASSUME NEW s \in Sessions, Signing(n, s), s.quorum = q, s.id = id,
               id \notin ReSignIds
        PROVE  FALSE
    <3>1. Backed(n, s)
      BY <2>3 DEF VoteBacksSigning
    <3>2. vote[n][id] # None
      BY <3>1, <2>1, <2>3, <1>a DEF Backed
    <3> QED BY <3>2, <2>1, <2>3 DEF MaySign
  <2>4. \A m \in Honest, i \in Ids :
            vote'[m][i] = IF m = n /\ i = id /\ vote[n][id] = None
                          THEN [msg |-> msg, time |-> now] ELSE vote[m][i]
    <3>1. CASE vote[n][id] = None
      BY <2>1, <3>1 DEF WriteVoteForId, TypeOK
    <3>2. CASE vote[n][id] # None
      BY <2>1, <3>2
    <3> QED BY <3>1, <3>2
  <2>5. VoteBacksSigning'
    <3> SUFFICES ASSUME NEW m \in Honest, NEW s \in Sessions,
                        Signing(m, s)', s.id \notin ReSignIds
                 PROVE  Backed(m, s)'
      BY DEF VoteBacksSigning
    <3>1. CASE m = n /\ s = t
      <4>1. vote[n][id] = None
        BY <2>1, <3>1 DEF MaySign
      <4>2. vote'[n][id] = [msg |-> msg, time |-> now]
        BY <2>4, <4>1
      <4>3. [msg |-> msg, time |-> now] \in Votes
        BY DEF Votes, TypeOK
      <4> QED BY <4>2, <4>3, <3>1, <2>1, NoneAssumption DEF Backed
    <3>2. CASE Signing(m, s)
      <4>1. Backed(m, s)
        BY <3>2 DEF VoteBacksSigning
      <4> QED BY <4>1, <2>4, <2>1, <1>b DEF Backed
    <3> QED BY <3>1, <3>2, <2>2
  <2>6. OneSigningPerQuorum'
    BY <2>1, <2>2, <2>3 DEF OneSigningPerQuorum, Conflicting
  <2> QED BY <2>1, <2>5, <2>6, <1>e
<1>3. ASSUME NEW n \in Honest, SignPendingSigShares(n)
      PROVE  IndInv'
  <2>1. PICK s \in pendingSigns[n] :
            /\ pendingSigns' = [pendingSigns EXCEPT ![n] = @ \ {s}]
            /\ shares' \in {shares \cup {<<n, s>>}, shares}
            /\ UNCHANGED <<now, vote, rec>>
    BY <1>3 DEF SignPendingSigShares, dbVars
  <2>2. \A m \in Honest, r \in Sessions : Signing(m, r)' => Signing(m, r)
    BY <2>1 DEF Signing, TypeOK
  <2> QED BY <2>1, <2>2, <1>d, <1>e
<1>4. ASSUME NEW n \in Honest, NEW s \in Sessions, Recoverable(s), ProcessRecoveredSig(n, s)
      PROVE  IndInv'
  <2>1. UNCHANGED <<now, vote, pendingSigns, shares>>
    BY <1>4 DEF ProcessRecoveredSig
  <2>2. VoteBacksSigning' /\ OneSigningPerQuorum'
    BY <2>1, <1>d DEF Signing
  <2>3. \A m \in Honest, i \in Ids :
            rec'[m][i] = IF m = n /\ i = s.id THEN [session |-> s, time |-> now] ELSE rec[m][i]
    BY <1>4, <1>b DEF ProcessRecoveredSig, TypeOK
  <2>4. \A r \in Sessions : Recoverable(r) => Recoverable(r)'
    BY <2>1, RecoverableIsStable
  <2>5. StoredSigsAreReal'
    <3> SUFFICES ASSUME NEW m \in Honest, NEW i \in Ids, rec'[m][i] # None
                 PROVE  /\ rec'[m][i].session.id = i
                        /\ Recoverable(rec[m][i].session)'
      BY DEF StoredSigsAreReal
    <3>1. CASE m = n /\ i = s.id
      <4>1. rec'[m][i].session = s
        BY <3>1, <2>3
      <4> QED BY <4>1, <3>1, <2>4, <1>4
    <3>2. CASE ~(m = n /\ i = s.id)
      <4>1. rec'[m][i] = rec[m][i]
        BY <3>2, <2>3
      <4>2. rec[m][i].session \in Sessions
        BY <4>1 DEF TypeOK, RecoveredSigs
      <4> QED BY <4>1, <4>2, <2>4 DEF StoredSigsAreReal
    <3> QED BY <3>1, <3>2
  <2> QED BY <2>2, <2>5
<1>5. ASSUME NEW n \in Honest, CleanupOldVotes(n)
      PROVE  IndInv'
  <2>1. UNCHANGED <<now, rec, pendingSigns, shares>>
    BY <1>5 DEF CleanupOldVotes
  <2>2. \A m \in Honest, i \in Ids :
            \/ vote'[m][i] = vote[m][i]
            \/ vote[m][i] # None /\ vote[m][i].time < now - MaxAge
    BY <1>5 DEF CleanupOldVotes, TypeOK
  <2>3. VoteBacksSigning'
    <3> SUFFICES ASSUME NEW m \in Honest, NEW s \in Sessions,
                        Signing(m, s), s.id \notin ReSignIds
                 PROVE  Backed(m, s)'
      BY <2>1 DEF VoteBacksSigning, Signing
    <3>1. Backed(m, s)
      BY DEF VoteBacksSigning
    <3>2. CASE vote'[m][s.id] = vote[m][s.id]
      BY <3>1, <3>2, <2>1 DEF Backed
    <3>3. CASE vote[m][s.id] # None /\ vote[m][s.id].time < now - MaxAge
      BY <3>1, <3>3, <2>1, <1>a, <1>b, <1>c, VotesOutliveQuorums DEF Backed
    <3> QED BY <3>2, <3>3, <2>2, <1>b
  <2>4. OneSigningPerQuorum'
    BY <2>1 DEF OneSigningPerQuorum, Signing
  <2> QED BY <2>1, <2>3, <2>4, <1>e
<1>6. ASSUME NEW n \in Honest, NEW id \in Ids,
             CleanupOldRecoveredSigs(n, id) \/ TruncateRecoveredSig(n, id)
      PROVE  IndInv'
  <2>1. UNCHANGED <<now, vote, pendingSigns, shares>> /\ rec' = [rec EXCEPT ![n][id] = None]
    BY <1>6 DEF CleanupOldRecoveredSigs, TruncateRecoveredSig
  <2>2. VoteBacksSigning' /\ OneSigningPerQuorum'
    BY <2>1, <1>d DEF Signing
  <2>3. \A m \in Honest, i \in Ids : rec'[m][i] = None \/ rec'[m][i] = rec[m][i]
    BY <2>1 DEF TypeOK
  <2>4. \A r \in Sessions : Recoverable(r) => Recoverable(r)'
    BY <2>1, RecoverableIsStable
  <2>5. StoredSigsAreReal'
    BY <2>3, <2>4 DEF StoredSigsAreReal, TypeOK, RecoveredSigs
  <2> QED BY <2>2, <2>5
<1>7. ASSUME NEW n \in Honest, Restart(n)
      PROVE  IndInv'
  <2>1. /\ UNCHANGED <<now, vote, rec, shares>>
        /\ pendingSigns' = [pendingSigns EXCEPT ![n] = {}]
    BY <1>7 DEF Restart, dbVars
  <2>2. \A m \in Honest, s \in Sessions : Signing(m, s)' => Signing(m, s)
    BY <2>1 DEF Signing, TypeOK
  <2> QED BY <2>1, <2>2, <1>d, <1>e
<1>8. CASE UNCHANGED vars
  BY <1>8, <1>d, <1>e DEF vars, Signing
<1> QED
  BY <1>1, <1>2, <1>3, <1>4, <1>5, <1>6, <1>7, <1>8
     DEF Next, NodeStep, TryRecoverSig, ReceiveRecoveredSig
-----------------------------------------------------------------------------
(* The inductive invariant holds in every reachable state.                 *)
THEOREM InductiveInvariant == Spec => []IndInv
<1>1. Init => IndInv
  <2> SUFFICES ASSUME Init PROVE IndInv
    OBVIOUS
  <2>1. TypeOK
    BY SigningAssumption DEF Init, TypeOK, Time
  <2>2. VoteBacksSigning /\ OneSigningPerQuorum /\ StoredSigsAreReal
    BY DEF Init, VoteBacksSigning, OneSigningPerQuorum, StoredSigsAreReal, Signing
  <2> QED BY <2>1, <2>2 DEF IndInv
<1>2. Spec => []TypeOK
  BY TypeCorrect
<1> QED BY <1>1, <1>2, IndInvStep, PTL DEF Spec

(* A masternode never signs two message hashes for one quorum and one id   *)
(* that is not requested with allowReSign (AsyncSignIfMember).             *)
THEOREM OneVote == Spec => []OneVotePerQuorum
<1>1. IndInv => OneVotePerQuorum
  BY DEF IndInv, OneSigningPerQuorum, OneVotePerQuorum, Signing
<1> QED BY <1>1, InductiveInvariant, PTL

(* No quorum can ever produce two recovered signatures that conflict on    *)
(* such an id (TryRecoverSig, ProcessRecoveredSig).                        *)
THEOREM NoConflict == Spec => []NoConflictingRecovery
<1>1. IndInv => NoConflictingRecovery
  <2> SUFFICES ASSUME IndInv, NEW s1 \in Sessions, NEW s2 \in Sessions,
                      Recoverable(s1), Recoverable(s2),
                      s1.quorum = s2.quorum, s1.id \notin ReSignIds
               PROVE  ~Conflicting(s1, s2)
    BY DEF NoConflictingRecovery
  <2>1. PICK n \in Honest : <<n, s1>> \in shares /\ <<n, s2>> \in shares
    BY HonestSignerInCommon
  <2> QED BY <2>1 DEF IndInv, OneSigningPerQuorum, Signing
<1> QED BY <1>1, InductiveInvariant, PTL

(* What nodes store for one quorum and id agrees (WriteRecoveredSig).      *)
THEOREM StoredAgreement == Spec => []StoredSigsAgree
<1>1. IndInv => StoredSigsAgree
  <2> SUFFICES ASSUME IndInv, NEW m \in Honest, NEW n \in Honest, NEW i \in Ids,
                      rec[m][i] # None, rec[n][i] # None, i \notin ReSignIds,
                      rec[m][i].session.quorum = rec[n][i].session.quorum
               PROVE  rec[m][i].session = rec[n][i].session
    BY DEF StoredSigsAgree
  <2> DEFINE s1 == rec[m][i].session
             s2 == rec[n][i].session
  <2>1. s1 \in Sessions /\ s2 \in Sessions
    BY DEF IndInv, TypeOK, RecoveredSigs
  <2>2. s1.id = i /\ s2.id = i /\ Recoverable(s1) /\ Recoverable(s2)
    BY DEF IndInv, StoredSigsAreReal
  <2>3. PICK h \in Honest : <<h, s1>> \in shares /\ <<h, s2>> \in shares
    BY <2>1, <2>2, HonestSignerInCommon
  <2>4. s1.msg = s2.msg
    BY <2>1, <2>2, <2>3 DEF IndInv, OneSigningPerQuorum, Signing, Conflicting
  <2> QED BY <2>1, <2>2, <2>4 DEF Sessions
<1> QED BY <1>1, InductiveInvariant, PTL
-----------------------------------------------------------------------------
(***************************************************************************)
(* The recovered-signature store of one node, RecoveredSigsDb, for any     *)
(* signatures and readers.  A batch of erasures is built in one step and   *)
(* written in a later one, and in between other threads change the         *)
(* database.  The inductive invariant says what such a batch may still     *)
(* contain when it is written: other keys of a signature only together     *)
(* with its id key, and time keys that no stored signature relies on.      *)
(*                                                                         *)
(* The store is an instance of its own: QuorumSigning keeps of it what     *)
(* the votes need.  What RecoveredSigsDb assumes of its constants is a     *)
(* hypothesis here.                                                        *)
(***************************************************************************)
CONSTANTS RecSigs, Readers
VARIABLES db, cache, look, work, todo, pending, recon, trunc, notified

DB == INSTANCE RecoveredSigsDb

(* Most leaves are first-order; those about records and numbers name SMT.  *)
USE Zenon

BatchIsHarmless(b) ==
    /\ \A r \in RecSigs : (DB!IdMsg(r) \in b.rm \/ r \in b.h \/ r \in b.s) => r.id \in b.r
    /\ \A k \in b.t : /\ k[1] < now
                      /\ \/ k[2] \in b.r
                         \/ db.r[k[2]] = None
                         \/ db.rm[DB!IdMsg(db.r[k[2]])] # k[1]

PendingBatches ==
    /\ work.pc = "collect" => \A k \in work.keys : k[1] < now
    /\ work.pc = "erase" => BatchIsHarmless(work.batch)
    /\ trunc # None => BatchIsHarmless(trunc)

StoreInv == DB!TypeOK /\ DB!StoredSigIndexed /\ PendingBatches
-----------------------------------------------------------------------------
(* The batch of WriteRecoveredSig leaves a well-typed database.            *)
LEMMA WrittenType ==
    ASSUME NEW d \in DB!Databases, NEW r \in RecSigs, now \in DB!Time
    PROVE  DB!Written(d, r) \in DB!Databases
  BY SMTT(30) DEF DB!Written, DB!Databases, DB!Ids, DB!IdMsgs

(* Erasing any batch leaves a well-typed database.                         *)
LEMMA ErasedType ==
    ASSUME NEW d \in DB!Databases, NEW b \in DB!Batches
    PROVE  DB!Erased(d, b) \in DB!Databases
  BY DEF DB!Erased, DB!Databases, DB!Batches

(* RemoveRecoveredSig builds a well-typed batch ...                        *)
LEMMA RemoveBatchType ==
    ASSUME db \in DB!Databases, NEW ids \in SUBSET DB!Ids, NEW del \in BOOLEAN,
           NEW tk \in SUBSET (DB!Time \X DB!Ids)
    PROVE  DB!RemoveBatch(ids, del, tk) \in DB!Batches
  BY DEF DB!RemoveBatch, DB!Batches, DB!Databases, DB!Ids, DB!IdMsgs

(* ... that erases other keys of a signature only with its id key, and     *)
(* the id key of every signature stored under one of the ids.              *)
LEMMA RemoveBatchIsHarmless ==
    ASSUME db \in DB!Databases, DB!StoredSigIndexed, NEW ids \in SUBSET DB!Ids,
           NEW del \in BOOLEAN, NEW tk \in SUBSET (DB!Time \X DB!Ids), now \in DB!Time,
           \A k \in tk : k[1] < now /\ k[2] \in ids
    PROVE  BatchIsHarmless(DB!RemoveBatch(ids, del, tk))
  <1> DEFINE b == DB!RemoveBatch(ids, del, tk)
  <1>1. \A r \in RecSigs : (DB!IdMsg(r) \in b.rm \/ r \in b.h \/ r \in b.s) => r.id \in b.r
    BY DEF DB!RemoveBatch, DB!IdMsg
  <1>2. ASSUME NEW k \in tk, db.r[k[2]] # None
        PROVE  k[2] \in b.r
    <2>1. k[2] \in DB!Ids /\ db.r[k[2]] \in RecSigs
      BY <1>2 DEF DB!Databases
    <2>2. db.r[k[2]].id = k[2]
      BY <1>2, <2>1 DEF DB!StoredSigIndexed
    <2>. QED  BY <2>1, <2>2 DEF DB!RemoveBatch
  <1>3. b.t = tk
    BY DEF DB!RemoveBatch
  <1>. QED  BY <1>1, <1>2, <1>3 DEF BatchIsHarmless

(* Dropping cache entries keeps the cache well-typed.                      *)
LEMMA UncacheType ==
    ASSUME cache \in [DB!Keys -> BOOLEAN \cup {None}], NEW b
    PROVE  DB!UncacheBatch(b) \in [DB!Keys -> BOOLEAN \cup {None}]
  BY DEF DB!UncacheBatch

(* A read of the database yields a Boolean.                                *)
LEMMA ExistsType ==
    ASSUME NEW k \in DB!Keys
    PROVE  DB!Exists(k) \in BOOLEAN
  <1>1. k[1] = "id" \/ k[1] = "session" \/ k[1] = "hash"
    BY SMTT(30) DEF DB!Keys, DB!IdKey, DB!SessionKey, DB!HashKey
  <1>2. CASE k[1] = "id"
    <2>1. DB!Exists(k) = (db.r[k[2]] # None)
      BY <1>2 DEF DB!Exists
    <2>. QED  BY <2>1
  <1>3. CASE k[1] = "session"
    <2>1. DB!Exists(k) = (k[2] \in db.s)
      BY <1>3 DEF DB!Exists
    <2>. QED  BY SMTT(30), <2>1
  <1>4. CASE k[1] = "hash"
    <2>1. DB!Exists(k) = (k[2] \in db.h)
      BY <1>4 DEF DB!Exists
    <2>. QED  BY SMTT(30), <2>1
  <1>. QED  BY <1>1, <1>2, <1>3, <1>4

(* A database with a harmless batch erased still indexes what it stores.   *)
LEMMA ErasedIsIndexed ==
    ASSUME db \in DB!Databases, DB!StoredSigIndexed, NEW b \in DB!Batches,
           BatchIsHarmless(b), db' = DB!Erased(db, b)
    PROVE  DB!StoredSigIndexed'
  <1> SUFFICES ASSUME NEW i \in DB!Ids, db'.r[i] # None
               PROVE  /\ db'.r[i].id = i
                      /\ db'.r[i] \in db'.h /\ db'.r[i] \in db'.s
                      /\ db'.rm[DB!IdMsg(db'.r[i])] # None
                      /\ <<db'.rm[DB!IdMsg(db'.r[i])], i>> \in db'.t
    BY DEF DB!StoredSigIndexed
  <1>1. i \notin b.r /\ db'.r[i] = db.r[i] /\ db.r[i] # None
    BY DEF DB!Erased
  <1> DEFINE r == db.r[i]
  <1>2. r \in RecSigs /\ DB!IdMsg(r) \in DB!IdMsgs
    BY <1>1 DEF DB!Databases, DB!IdMsgs
  <1>3. /\ r.id = i /\ r \in db.h /\ r \in db.s
        /\ db.rm[DB!IdMsg(r)] # None /\ <<db.rm[DB!IdMsg(r)], i>> \in db.t
    BY <1>1 DEF DB!StoredSigIndexed
  <1>4. DB!IdMsg(r) \notin b.rm /\ r \notin b.h /\ r \notin b.s
    BY <1>1, <1>2, <1>3 DEF BatchIsHarmless
  <1>5. db'.rm[DB!IdMsg(r)] = db.rm[DB!IdMsg(r)]
    BY <1>2, <1>4 DEF DB!Erased
  <1>6. <<db.rm[DB!IdMsg(r)], i>> \notin b.t
    BY <1>1 DEF BatchIsHarmless
  <1>7. db'.h = db.h \ b.h /\ db'.s = db.s \ b.s /\ db'.t = db.t \ b.t
    BY DEF DB!Erased
  <1>. QED  BY <1>1, <1>3, <1>4, <1>5, <1>6, <1>7

(* A batch stays harmless when another one is written ...                  *)
LEMMA ErasedKeepsHarmless ==
    ASSUME db \in DB!Databases, DB!StoredSigIndexed, NEW b \in DB!Batches, NEW c \in DB!Batches,
           BatchIsHarmless(b), BatchIsHarmless(c), db' = DB!Erased(db, b), now' = now
    PROVE  /\ \A k \in c.t : /\ k[1] < now'
                             /\ \/ k[2] \in c.r
                                \/ db'.r[k[2]] = None
                                \/ db'.rm[DB!IdMsg(db'.r[k[2]])] # k[1]
  <1> SUFFICES ASSUME NEW k \in c.t, k[2] \notin c.r, db'.r[k[2]] # None
               PROVE  db'.rm[DB!IdMsg(db'.r[k[2]])] # k[1]
    BY DEF BatchIsHarmless
  <1>1. k[1] \in DB!Time /\ k[2] \in DB!Ids
    BY DEF DB!Batches
  <1>2. k[2] \notin b.r /\ db'.r[k[2]] = db.r[k[2]] /\ db.r[k[2]] # None
    BY <1>1 DEF DB!Erased
  <1> DEFINE r == db.r[k[2]]
  <1>3. r \in RecSigs /\ DB!IdMsg(r) \in DB!IdMsgs /\ r.id = k[2]
    BY <1>1, <1>2 DEF DB!Databases, DB!IdMsgs, DB!StoredSigIndexed
  <1>4. db'.rm[DB!IdMsg(r)] = db.rm[DB!IdMsg(r)]
    BY <1>2, <1>3 DEF DB!Erased, BatchIsHarmless
  <1>. QED  BY <1>2, <1>4 DEF BatchIsHarmless

(* ... and when a signature is written, whose time is the present.         *)
LEMMA WrittenKeepsHarmless ==
    ASSUME db \in DB!Databases, now \in DB!Time, DB!StoredSigIndexed, NEW r \in RecSigs,
           NEW c \in DB!Batches, BatchIsHarmless(c), db' = DB!Written(db, r), now' = now
    PROVE  /\ \A k \in c.t : /\ k[1] < now'
                             /\ \/ k[2] \in c.r
                                \/ db'.r[k[2]] = None
                                \/ db'.rm[DB!IdMsg(db'.r[k[2]])] # k[1]
  <1> SUFFICES ASSUME NEW k \in c.t, k[2] \notin c.r, db'.r[k[2]] # None
               PROVE  db'.rm[DB!IdMsg(db'.r[k[2]])] # k[1]
    BY DEF BatchIsHarmless
  <1>1. k[1] \in DB!Time /\ k[2] \in DB!Ids /\ k[1] < now
    BY DEF DB!Batches, BatchIsHarmless
  <1>2. r.id \in DB!Ids /\ DB!IdMsg(r) \in DB!IdMsgs
    BY DEF DB!Ids, DB!IdMsgs
  <1>3. CASE k[2] = r.id
    <2>1. db'.r[k[2]] = r
      BY <1>2, <1>3 DEF DB!Written, DB!Databases
    <2>2. db'.rm[DB!IdMsg(r)] = now
      BY <1>2 DEF DB!Written, DB!Databases
    <2>. QED  BY SMTT(30), <2>1, <2>2, <1>1 DEF DB!Time
  <1>4. CASE k[2] # r.id
    <2>1. db'.r[k[2]] = db.r[k[2]]
      BY <1>1, <1>4 DEF DB!Written, DB!Databases
    <2>2. db.r[k[2]] \in RecSigs /\ db.r[k[2]].id = k[2] /\ DB!IdMsg(db.r[k[2]]) \in DB!IdMsgs
      BY <1>1, <2>1 DEF DB!Databases, DB!StoredSigIndexed, DB!IdMsgs
    <2>3. DB!IdMsg(db.r[k[2]]) # DB!IdMsg(r)
      BY <2>2, <1>4 DEF DB!IdMsg
    <2>4. db'.rm[DB!IdMsg(db.r[k[2]])] = db.rm[DB!IdMsg(db.r[k[2]])]
      BY <2>2, <2>3 DEF DB!Written, DB!Databases
    <2>. QED  BY <2>1, <2>4 DEF BatchIsHarmless
  <1>. QED  BY <1>3, <1>4

(* WriteRecoveredSig writes all keys of a signature at once.               *)
LEMMA WrittenIsIndexed ==
    ASSUME DB!StoreAssumption, db \in DB!Databases, now \in DB!Time, DB!StoredSigIndexed,
           NEW r \in RecSigs,
           db' = DB!Written(db, r)
    PROVE  DB!StoredSigIndexed'
  <1> SUFFICES ASSUME NEW i \in DB!Ids, db'.r[i] # None
               PROVE  /\ db'.r[i].id = i
                      /\ db'.r[i] \in db'.h /\ db'.r[i] \in db'.s
                      /\ db'.rm[DB!IdMsg(db'.r[i])] # None
                      /\ <<db'.rm[DB!IdMsg(db'.r[i])], i>> \in db'.t
    BY DEF DB!StoredSigIndexed
  <1>1. r.id \in DB!Ids /\ DB!IdMsg(r) \in DB!IdMsgs
    BY DEF DB!Ids, DB!IdMsgs
  <1>2. CASE i = r.id
    <2>1. db'.r[i] = r /\ db'.rm[DB!IdMsg(r)] = now
      BY <1>1, <1>2 DEF DB!Written, DB!Databases
    <2>2. r \in db'.h /\ r \in db'.s /\ <<now, i>> \in db'.t
      BY <1>2 DEF DB!Written
    <2>3. now # None
      BY DEF DB!StoreAssumption
    <2>. QED  BY <1>2, <2>1, <2>2, <2>3
  <1>3. CASE i # r.id
    <2>1. db'.r[i] = db.r[i]
      BY <1>3 DEF DB!Written, DB!Databases
    <2>2. /\ db.r[i] \in RecSigs /\ db.r[i].id = i /\ DB!IdMsg(db.r[i]) \in DB!IdMsgs
          /\ db.r[i] \in db.h /\ db.r[i] \in db.s /\ db.rm[DB!IdMsg(db.r[i])] # None
          /\ <<db.rm[DB!IdMsg(db.r[i])], i>> \in db.t
      BY <2>1 DEF DB!Databases, DB!StoredSigIndexed, DB!IdMsgs
    <2>3. DB!IdMsg(db.r[i]) # DB!IdMsg(r)
      BY <2>2, <1>3 DEF DB!IdMsg
    <2>4. db'.rm[DB!IdMsg(db.r[i])] = db.rm[DB!IdMsg(db.r[i])]
      BY <2>2, <2>3 DEF DB!Written, DB!Databases
    <2>5. db.h \subseteq db'.h /\ db.s \subseteq db'.s /\ db.t \subseteq db'.t
      BY DEF DB!Written
    <2>. QED  BY <2>1, <2>2, <2>4, <2>5
  <1>. QED  BY <1>2, <1>3
-----------------------------------------------------------------------------
(* Every step keeps the types.                                             *)
LEMMA TypeStep ==
    ASSUME DB!StoreAssumption, StoreInv, [DB!Next]_DB!vars
    PROVE  DB!TypeOK'
  <1> USE DB!StoreAssumption DEF DB!StoreAssumption, DB!TypeOK
  <1>0. DB!TypeOK
    BY DEF StoreInv
  <1>1. ASSUME NEW t \in DB!Threads, NEW k \in DB!Keys, DB!LookupMiss(t, k)
        PROVE  DB!TypeOK'
    BY <1>0, <1>1 DEF DB!LookupMiss, DB!Lookups
  <1>2. ASSUME NEW t \in DB!Threads, DB!LookupRead(t)
        PROVE  DB!TypeOK'
    <2>1. look[t].key \in DB!Keys
      <3>1. look[t] \in DB!Lookups /\ look[t].pc = "miss"
        BY <1>0, <1>2 DEF DB!LookupRead
      <3>2. look[t] # DB!NoLookup
        <4>1. DB!NoLookup.pc = "none"
          BY DEF DB!NoLookup
        <4>. QED  BY <3>1, <4>1
      <3>3. look[t] \notin [pc : {"read", "got"}, key : DB!Keys, val : BOOLEAN]
        BY <3>1
      <3>4. look[t] \in [pc : {"miss"}, key : DB!Keys]
        BY <3>1, <3>2, <3>3 DEF DB!Lookups
      <3>. QED  BY <3>4
    <2>2. [pc |-> "read", key |-> look[t].key, val |-> DB!Exists(look[t].key)] \in DB!Lookups
      BY <2>1, ExistsType DEF DB!Lookups
    <2>. QED  BY <1>0, <1>2, <2>2 DEF DB!LookupRead
  <1>3. ASSUME NEW t \in DB!Threads, DB!LookupInsert(t)
        PROVE  DB!TypeOK'
    <2>1. look[t] \in [pc : {"read", "got"}, key : DB!Keys, val : BOOLEAN]
      BY SMTT(30), <1>0, <1>3 DEF DB!LookupInsert, DB!Lookups, DB!NoLookup
    <2>2. [look[t] EXCEPT !.pc = "got"] \in DB!Lookups
      BY <2>1 DEF DB!Lookups
    <2>3. look' \in [DB!Threads -> DB!Lookups]
      BY <1>0, <1>3, <2>2 DEF DB!LookupInsert
    <2>4. cache' \in [DB!Keys -> BOOLEAN \cup {None}]
      BY <1>0, <1>3, <2>1 DEF DB!LookupInsert
    <2>. QED  BY <1>0, <1>3, <2>3, <2>4 DEF DB!LookupInsert
  <1>4. ASSUME NEW t \in DB!Threads, DB!LookupDone(t)
        PROVE  DB!TypeOK'
    BY <1>0, <1>4 DEF DB!LookupDone, DB!Lookups
  <1>5. ASSUME NEW t \in DB!Threads, NEW r \in RecSigs, DB!ProcessMessageRecoveredSig(t, r)
        PROVE  DB!TypeOK'
    BY <1>0, <1>5 DEF DB!ProcessMessageRecoveredSig, DB!Answer, DB!Lookups
  <1>6. ASSUME NEW k \in DB!Keys, DB!CacheEvict(k)
        PROVE  DB!TypeOK'
    BY <1>0, <1>6 DEF DB!CacheEvict
  <1>7. ASSUME NEW r \in RecSigs, DB!PushReconstructedRecoveredSig(r)
        PROVE  DB!TypeOK'
    BY <1>0, <1>7 DEF DB!PushReconstructedRecoveredSig
  <1>8. CASE DB!ProcessPendingReconstructedRecoveredSigs
    BY <1>0, <1>8 DEF DB!ProcessPendingReconstructedRecoveredSigs
  <1>9. CASE DB!ProcessPendingRecoveredSigs
    BY <1>0, <1>9 DEF DB!ProcessPendingRecoveredSigs
  <1>10. ASSUME NEW r \in RecSigs, DB!ProcessRecoveredSig(r)
         PROVE  DB!TypeOK'
    BY <1>0, <1>10 DEF DB!ProcessRecoveredSig, DB!Works
  <1>11. CASE DB!KnownByHash
    <2>1. work \in [pc : {"hash", "id", "get", "write", "cache", "notify"}, sig : RecSigs]
      BY SMTT(30), <1>0, <1>11 DEF DB!KnownByHash, DB!Works, DB!Idle
    <2>2. work' \in DB!Works
      BY <1>11, <2>1 DEF DB!KnownByHash, DB!Works
    <2>. QED  BY <1>0, <1>11, <2>2 DEF DB!KnownByHash, DB!Answer, DB!Lookups
  <1>12. CASE DB!KnownById
    <2>1. work \in [pc : {"hash", "id", "get", "write", "cache", "notify"}, sig : RecSigs]
      BY SMTT(30), <1>0, <1>12 DEF DB!KnownById, DB!Works, DB!Idle
    <2>2. work' \in DB!Works
      BY <1>12, <2>1 DEF DB!KnownById, DB!Works
    <2>. QED  BY <1>0, <1>12, <2>2 DEF DB!KnownById, DB!Answer, DB!Lookups
  <1>13. CASE DB!GetRecoveredSigById
    <2>1. work \in [pc : {"hash", "id", "get", "write", "cache", "notify"}, sig : RecSigs]
      BY SMTT(30), <1>0, <1>13 DEF DB!GetRecoveredSigById, DB!Works, DB!Idle
    <2>2. work' \in DB!Works
      BY <1>13, <2>1 DEF DB!GetRecoveredSigById, DB!Works
    <2>. QED  BY <1>0, <1>13, <2>2 DEF DB!GetRecoveredSigById
  <1>14. CASE DB!WriteRecoveredSig
    <2>1. work \in [pc : {"hash", "id", "get", "write", "cache", "notify"}, sig : RecSigs]
      BY SMTT(30), <1>0, <1>14 DEF DB!WriteRecoveredSig, DB!Works, DB!Idle
    <2>2. work' \in DB!Works
      BY <1>14, <2>1 DEF DB!WriteRecoveredSig, DB!Works
    <2>3. db' \in DB!Databases
      BY <1>0, <1>14, <2>1, WrittenType DEF DB!WriteRecoveredSig
    <2>. QED  BY <1>0, <1>14, <2>2, <2>3 DEF DB!WriteRecoveredSig
  <1>15. CASE DB!CacheRecoveredSig
    <2>1. work \in [pc : {"hash", "id", "get", "write", "cache", "notify"}, sig : RecSigs]
      BY SMTT(30), <1>0, <1>15 DEF DB!CacheRecoveredSig, DB!Works, DB!Idle
    <2>2. work' \in DB!Works
      BY <1>15, <2>1 DEF DB!CacheRecoveredSig, DB!Works
    <2>. QED  BY <1>0, <1>15, <2>2 DEF DB!CacheRecoveredSig
  <1>16. CASE DB!HandleNewRecoveredSig
    <2>1. work \in [pc : {"hash", "id", "get", "write", "cache", "notify"}, sig : RecSigs]
      BY SMTT(30), <1>0, <1>16 DEF DB!HandleNewRecoveredSig, DB!Works, DB!Idle
    <2>. QED  BY <1>0, <1>16, <2>1 DEF DB!HandleNewRecoveredSig, DB!Works
  <1>17. CASE DB!CleanupScan
    <2>1. work' \in DB!Works
      BY <1>0, <1>17 DEF DB!CleanupScan, DB!Works, DB!Databases
    <2>. QED  BY <1>0, <1>17, <2>1 DEF DB!CleanupScan
  <1>18. CASE DB!CleanupRemove
    <2>1. work.keys \in SUBSET (DB!Time \X DB!Ids)
      BY SMTT(30), <1>0, <1>18 DEF DB!CleanupRemove, DB!Works, DB!Idle
    <2>2. DB!RemoveBatch({k[2] : k \in work.keys}, TRUE, work.keys) \in DB!Batches
      <3> DEFINE ids == {k[2] : k \in work.keys}
      <3>1. ids \in SUBSET DB!Ids
        BY <2>1
      <3> HIDE DEF ids
      <3>2. DB!RemoveBatch(ids, TRUE, work.keys) \in DB!Batches
        BY <1>0, <2>1, <3>1, RemoveBatchType
      <3>. QED  BY <3>2 DEF ids
    <2>3. work' \in DB!Works
      BY <1>18, <2>2 DEF DB!CleanupRemove, DB!Works
    <2>. QED  BY <1>0, <1>18, <2>3, UncacheType DEF DB!CleanupRemove
  <1>19. CASE DB!CleanupWrite
    <2>1. work.batch \in DB!Batches
      BY SMTT(30), <1>0, <1>19 DEF DB!CleanupWrite, DB!Works, DB!Idle
    <2>2. db' \in DB!Databases
      BY <1>0, <1>19, <2>1, ErasedType DEF DB!CleanupWrite
    <2>. QED  BY <1>0, <1>19, <2>2 DEF DB!CleanupWrite, DB!Works
  <1>20. ASSUME NEW i \in DB!Ids, DB!TruncateRemove(i)
         PROVE  DB!TypeOK'
    <2>1. DB!RemoveBatch({i}, FALSE, {}) \in DB!Batches
      BY <1>0, RemoveBatchType
    <2>. QED  BY <1>0, <1>20, <2>1, UncacheType DEF DB!TruncateRemove
  <1>21. CASE DB!TruncateWrite
    BY <1>0, <1>21, ErasedType DEF DB!TruncateWrite, DB!DbLocked
  <1>22. CASE DB!Restart
    BY SMTT(30), <1>0, <1>22 DEF DB!Restart, DB!EmptyCache, DB!Lookups, DB!Works
  <1>23. CASE DB!Tick
    BY SMTT(30), <1>0, <1>23 DEF DB!Tick, DB!Time
  <1>24. CASE UNCHANGED DB!vars
    BY <1>0, <1>24 DEF DB!vars
  <1>25. \A r \in RecSigs : DB!HashKey(r) \in DB!Keys /\ DB!IdKey(r.id) \in DB!Keys
    BY DEF DB!Keys, DB!Ids
  <1>26. CASE DB!WorkerLookup
    <2>1. DB!Worker \in DB!Threads
      BY DEF DB!Threads
    <2>2. work.pc \in {"hash", "id"} => work.sig \in RecSigs
      BY SMTT(30), <1>0 DEF DB!Works, DB!Idle
    <2>. QED  BY <1>1, <1>2, <1>3, <1>25, <1>26, <2>1, <2>2 DEF DB!WorkerLookup, DB!LookupStep
  <1>27. ASSUME NEW t \in Readers, DB!ReaderStep(t)
         PROVE  DB!TypeOK'
    <2>1. t \in DB!Threads
      BY DEF DB!Threads
    <2>. QED  BY <1>1, <1>2, <1>3, <1>4, <1>5, <1>27, <2>1 DEF DB!ReaderStep, DB!LookupStep
  <1>28. CASE DB!WorkerStep
    BY <1>8, <1>9, <1>10, <1>11, <1>12, <1>13, <1>14, <1>15, <1>16, <1>17, <1>18,
       <1>19, <1>26, <1>28 DEF DB!WorkerStep
  <1>. QED
    BY <1>6, <1>7, <1>20, <1>21, <1>22, <1>23, <1>24, <1>27, <1>28 DEF DB!Next

(* Every step keeps the keys of what is stored complete and the batches    *)
(* that are still to be written harmless.                                  *)
LEMMA IndexStep ==
    ASSUME DB!StoreAssumption, StoreInv, [DB!Next]_DB!vars
    PROVE  DB!StoredSigIndexed' /\ PendingBatches'
  <1>0. DB!TypeOK /\ DB!StoredSigIndexed /\ PendingBatches
    BY DEF StoreInv
  <1>1. db \in DB!Databases /\ now \in DB!Time /\ work \in DB!Works /\ trunc \in DB!Batches \cup {None}
    BY <1>0 DEF DB!TypeOK
  <1>2. work.pc = "erase" => work.batch \in DB!Batches
    BY SMTT(30), <1>1 DEF DB!Works, DB!Idle
  <1>3. ASSUME UNCHANGED <<now, db, work, trunc>>
        PROVE  DB!StoredSigIndexed' /\ PendingBatches'
    BY <1>0, <1>3 DEF DB!StoredSigIndexed, PendingBatches, BatchIsHarmless
  <1>4. ASSUME UNCHANGED <<now, db, trunc>>, work'.pc \notin {"collect", "erase"}
        PROVE  DB!StoredSigIndexed' /\ PendingBatches'
    BY <1>0, <1>4 DEF DB!StoredSigIndexed, PendingBatches, BatchIsHarmless
  <1>5. CASE DB!KnownByHash \/ DB!KnownById \/ DB!GetRecoveredSigById \/ DB!CacheRecoveredSig
             \/ DB!HandleNewRecoveredSig \/ \E r \in RecSigs : DB!ProcessRecoveredSig(r)
    <2>1. work.pc \in {"hash", "id", "get", "write", "cache", "notify"}
             => work \in [pc : {"hash", "id", "get", "write", "cache", "notify"}, sig : RecSigs]
      BY SMTT(30), <1>1 DEF DB!Works, DB!Idle
    <2>2. UNCHANGED <<now, db, trunc>> /\ work'.pc \notin {"collect", "erase"}
      BY SMTT(30), <1>5, <2>1
                    DEF DB!KnownByHash, DB!KnownById, DB!GetRecoveredSigById, DB!CacheRecoveredSig,
                        DB!HandleNewRecoveredSig, DB!ProcessRecoveredSig, DB!Idle
    <2>. QED  BY <1>4, <2>2
  <1>6. CASE DB!WriteRecoveredSig
    <2>1. work \in [pc : {"hash", "id", "get", "write", "cache", "notify"}, sig : RecSigs]
      BY SMTT(30), <1>1, <1>6 DEF DB!WriteRecoveredSig, DB!Works, DB!Idle
    <2>2. /\ work.sig \in RecSigs /\ db' = DB!Written(db, work.sig) /\ now' = now
          /\ trunc' = trunc /\ work'.pc = "cache"
      BY <1>6, <2>1 DEF DB!WriteRecoveredSig
    <2>3. DB!StoredSigIndexed'
      BY <1>0, <1>1, <2>2, WrittenIsIndexed
    <2>4. ASSUME trunc # None PROVE BatchIsHarmless(trunc)'
      BY <1>0, <1>1, <2>2, <2>4, WrittenKeepsHarmless DEF PendingBatches, BatchIsHarmless
    <2>. QED  BY <2>2, <2>3, <2>4 DEF PendingBatches
  <1>7. CASE DB!CleanupScan
    <2>1. /\ UNCHANGED <<now, db, trunc>> /\ work'.pc = "collect"
          /\ work'.keys = {k \in db.t : k[1] < now - MaxAge}
      BY <1>7 DEF DB!CleanupScan
    <2>2. \A k \in work'.keys : k[1] < now
      BY SMTT(30), <1>1, <2>1, DB!StoreAssumption DEF DB!Databases, DB!Time, DB!StoreAssumption
    <2>. QED  BY <1>0, <2>1, <2>2 DEF DB!StoredSigIndexed, PendingBatches, BatchIsHarmless
  <1>8. CASE DB!CleanupRemove
    <2> DEFINE ids == {k[2] : k \in work.keys}
    <2>1. work.keys \in SUBSET (DB!Time \X DB!Ids) /\ \A k \in work.keys : k[1] < now
      <3>1. work.pc = "collect"
        BY <1>8 DEF DB!CleanupRemove
      <3>2. work \in [pc : {"collect"}, keys : SUBSET (DB!Time \X DB!Ids)]
        BY SMTT(30), <1>1, <3>1 DEF DB!Works, DB!Idle
      <3>. QED  BY <1>0, <3>1, <3>2 DEF PendingBatches
    <2>2. ids \in SUBSET DB!Ids /\ \A k \in work.keys : k[2] \in ids
      BY <2>1
    <2>3. /\ UNCHANGED <<now, db, trunc>> /\ work'.pc = "erase"
          /\ work'.batch = DB!RemoveBatch(ids, TRUE, work.keys)
      BY <1>8 DEF DB!CleanupRemove
    <2> HIDE DEF ids
    <2>4. BatchIsHarmless(DB!RemoveBatch(ids, TRUE, work.keys))
      BY <1>0, <1>1, <2>1, <2>2, RemoveBatchIsHarmless
    <2>5. BatchIsHarmless(work.batch)'
      BY <2>3, <2>4 DEF BatchIsHarmless
    <2>. QED  BY <1>0, <2>3, <2>5 DEF DB!StoredSigIndexed, PendingBatches, BatchIsHarmless
  <1>9. CASE DB!CleanupWrite
    <2>1. /\ work.batch \in DB!Batches /\ BatchIsHarmless(work.batch)
          /\ db' = DB!Erased(db, work.batch) /\ now' = now /\ trunc' = trunc
          /\ work'.pc \notin {"collect", "erase"}
      BY <1>0, <1>2, <1>9 DEF DB!CleanupWrite, PendingBatches, DB!Idle
    <2>2. DB!StoredSigIndexed'
      BY <1>0, <1>1, <2>1, ErasedIsIndexed
    <2>3. ASSUME trunc # None PROVE BatchIsHarmless(trunc)'
      BY <1>0, <1>1, <2>1, <2>3, ErasedKeepsHarmless DEF PendingBatches, BatchIsHarmless
    <2>. QED  BY <2>1, <2>2, <2>3 DEF PendingBatches
  <1>10. ASSUME NEW i \in DB!Ids, DB!TruncateRemove(i)
         PROVE  DB!StoredSigIndexed' /\ PendingBatches'
    <2>1. /\ UNCHANGED <<now, db, work>> /\ trunc' = DB!RemoveBatch({i}, FALSE, {})
      BY <1>10 DEF DB!TruncateRemove
    <2>2. BatchIsHarmless(DB!RemoveBatch({i}, FALSE, {}))
      BY <1>0, <1>1, RemoveBatchIsHarmless
    <2>3. BatchIsHarmless(trunc)'
      BY <2>1, <2>2 DEF BatchIsHarmless
    <2>. QED  BY <1>0, <2>1, <2>3 DEF DB!StoredSigIndexed, PendingBatches, BatchIsHarmless
  <1>11. CASE DB!TruncateWrite
    <2>1. /\ trunc \in DB!Batches /\ BatchIsHarmless(trunc)
          /\ db' = DB!Erased(db, trunc) /\ now' = now /\ work' = work /\ trunc' = None
      BY <1>0, <1>1, <1>11 DEF DB!TruncateWrite, DB!DbLocked, PendingBatches
    <2>2. DB!StoredSigIndexed'
      BY <1>0, <1>1, <2>1, ErasedIsIndexed
    <2>3. ASSUME work.pc = "erase" PROVE BatchIsHarmless(work.batch)'
      BY <1>0, <1>1, <1>2, <2>1, <2>3, ErasedKeepsHarmless DEF PendingBatches, BatchIsHarmless
    <2>. QED  BY <1>0, <2>1, <2>2, <2>3 DEF PendingBatches
  <1>12. CASE DB!Restart
    BY <1>0, <1>12 DEF DB!Restart, DB!StoredSigIndexed, PendingBatches, DB!Idle
  <1>13. CASE DB!Tick
    <2>1. UNCHANGED <<db, work, trunc>> /\ now' = now + 1
      BY <1>13 DEF DB!Tick
    <2>2. DB!StoredSigIndexed'
      BY <1>0, <2>1 DEF DB!StoredSigIndexed
    <2>3. ASSUME NEW k \in DB!Time \X DB!Ids, k[1] < now PROVE k[1] < now'
      BY SMTT(30), <1>1, <2>1, <2>3 DEF DB!Time
    <2>4. work.pc = "collect" => work.keys \in SUBSET (DB!Time \X DB!Ids)
      BY SMTT(30), <1>1 DEF DB!Works, DB!Idle
    <2>5. ASSUME work.pc = "erase" PROVE BatchIsHarmless(work.batch)'
      <3>1. work.batch.t \in SUBSET (DB!Time \X DB!Ids)
        BY <1>2, <2>5 DEF DB!Batches
      <3>. QED  BY <1>0, <2>1, <2>3, <2>5, <3>1 DEF PendingBatches, BatchIsHarmless
    <2>6. ASSUME trunc # None PROVE BatchIsHarmless(trunc)'
      <3>1. trunc.t \in SUBSET (DB!Time \X DB!Ids)
        BY <1>1, <2>6 DEF DB!Batches
      <3>. QED  BY <1>0, <2>1, <2>3, <2>6, <3>1 DEF PendingBatches, BatchIsHarmless
    <2>. QED  BY <1>0, <2>1, <2>2, <2>3, <2>4, <2>5, <2>6 DEF PendingBatches
  <1>14. CASE UNCHANGED DB!vars
    BY <1>3, <1>14 DEF DB!vars
  <1>15. ASSUME NEW t \in Readers, DB!ReaderStep(t)
         PROVE  DB!StoredSigIndexed' /\ PendingBatches'
    BY <1>3, <1>15 DEF DB!ReaderStep, DB!LookupMiss, DB!LookupStep, DB!LookupRead, DB!LookupInsert,
                       DB!LookupDone, DB!ProcessMessageRecoveredSig
  <1>16. CASE DB!WorkerLookup
    BY <1>3, <1>16 DEF DB!WorkerLookup, DB!LookupMiss, DB!LookupStep, DB!LookupRead, DB!LookupInsert
  <1>17. CASE DB!ProcessPendingReconstructedRecoveredSigs \/ DB!ProcessPendingRecoveredSigs
    BY <1>3, <1>17 DEF DB!ProcessPendingReconstructedRecoveredSigs, DB!ProcessPendingRecoveredSigs
  <1>18. ASSUME NEW k \in DB!Keys, DB!CacheEvict(k)
         PROVE  DB!StoredSigIndexed' /\ PendingBatches'
    BY <1>3, <1>18 DEF DB!CacheEvict
  <1>19. ASSUME NEW r \in RecSigs, DB!PushReconstructedRecoveredSig(r)
         PROVE  DB!StoredSigIndexed' /\ PendingBatches'
    BY <1>3, <1>19 DEF DB!PushReconstructedRecoveredSig
  <1>20. CASE DB!WorkerStep
    BY <1>5, <1>6, <1>7, <1>8, <1>9, <1>16, <1>17, <1>20 DEF DB!WorkerStep
  <1>. QED
    BY <1>10, <1>11, <1>12, <1>13, <1>14, <1>15, <1>18, <1>19, <1>20 DEF DB!Next
-----------------------------------------------------------------------------
(* The inductive invariant of the store.                                   *)
THEOREM StoreInvariant ==
    ASSUME DB!StoreAssumption
    PROVE  DB!Spec => []StoreInv
  <1>1. DB!Init => StoreInv
    <2> SUFFICES ASSUME DB!Init PROVE StoreInv
      OBVIOUS
    <2>1. DB!TypeOK
      <3>1. now \in DB!Time /\ restarts \in 0..MaxRestarts
        BY SMTT(30), DB!StoreAssumption DEF DB!StoreAssumption, DB!Init, DB!Time
      <3>2. DB!EmptyDb \in DB!Databases
        BY DEF DB!EmptyDb, DB!Databases
      <3>3. DB!EmptyCache \in [DB!Keys -> BOOLEAN \cup {None}]
        BY DEF DB!EmptyCache
      <3>4. DB!NoLookup \in DB!Lookups /\ DB!Idle \in DB!Works
        BY DEF DB!Lookups, DB!Works
      <3>5. look \in [DB!Threads -> DB!Lookups]
        BY <3>4 DEF DB!Init
      <3> QED
        BY <3>1, <3>2, <3>3, <3>4, <3>5 DEF DB!Init, DB!TypeOK
    <2>2. DB!StoredSigIndexed /\ PendingBatches
      BY DEF DB!Init, DB!StoredSigIndexed, PendingBatches, DB!EmptyDb, DB!Idle
    <2>. QED  BY <2>1, <2>2 DEF StoreInv
  <1>2. StoreInv /\ [DB!Next]_DB!vars => StoreInv'
    BY TypeStep, IndexStep DEF StoreInv
  <1>. QED  BY <1>1, <1>2, PTL DEF DB!Spec

(* The store of a node stays well typed.                                   *)
THEOREM StoreTypeCorrect ==
    ASSUME DB!StoreAssumption
    PROVE  DB!Spec => []DB!TypeOK
  <1>1. StoreInv => DB!TypeOK
    BY DEF StoreInv
  <1>. QED  BY <1>1, StoreInvariant, PTL

(* Whatever the interleaving of WriteRecoveredSig, TruncateRecoveredSig    *)
(* and CleanupOldRecoveredSigs, a signature that is stored by id keeps all *)
(* its other keys.                                                         *)
THEOREM StoredSigsStayIndexed ==
    ASSUME DB!StoreAssumption
    PROVE  DB!Spec => []DB!StoredSigIndexed
  <1>1. StoreInv => DB!StoredSigIndexed
    BY DEF StoreInv
  <1>. QED  BY <1>1, StoreInvariant, PTL
=============================================================================
