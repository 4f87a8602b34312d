----------------------------- MODULE SigShares ------------------------------
(***************************************************************************)
(* CSigSharesManager: how the members of a quorum get each other's shares  *)
(* for one signing session.  A member pushes its own share to the members  *)
(* it is connected to, announces the others it has, requests what is       *)
(* announced to it and sends what is requested; with SPORK_21 it sends its *)
(* share to one recovery member after the other instead.  A member with    *)
(* enough shares recovers the signature, which then reaches everybody.     *)
(*                                                                         *)
(* The functions the worker thread calls are steps, in any order, and so   *)
(* is every message handler; the one for batches lets go of cs in between  *)
(* and is two.  Connections are reliable and in order until they break.  A *)
(* new connection has a new NodeId, so the state of the old one is never   *)
(* used again; a NodeId is the member it stands for, and members connect   *)
(* again once Cleanup has dropped the old state.  The quorum is active and *)
(* its verification vector known; a member with a bad key makes shares     *)
(* that do not verify.                                                     *)
(***************************************************************************)
EXTENDS Integers, Sequences, FiniteSets, Functions

CONSTANTS
    Nodes,            \* the members, by their index in the quorum
    Setups,           \* possible values of setup, below
    RecoveryOrder,    \* SelectMemberForRecovery for this id, by attempt
    MaxRequests,      \* maxRequestsForNode
    None

VARIABLES
    setup,     \* constant: peers, the members each member has connections
               \* to; signers, those asked to sign; threshold; faulty, those
               \* whose shares do not verify; allConnected, the result of
               \* IsAllMembersConnectedEnabled; and maxFaults, a bound on
               \* timed out sessions and broken links
    mgr,       \* the manager of each member, see Manager
    msgs,      \* msgs[n][p]: what n has sent to p on their connection
    up,        \* the links with a connection
    stale,     \* the members to be asked to sign again after a fault
    faults

vars == <<setup, mgr, msgs, up, stale, faults>>
netVars == <<setup, up, stale, faults>>

Members == DOMAIN setup.peers
Links == UNION {{{n, p} : p \in setup.peers[n]} : n \in Members}

NoSession == 0   \* UNINITIALIZED_SESSION_ID; ids start with 1

(* CSigSharesNodeState::Session and CSigSharesNodeState.  byRecv are the   *)
(* ids under which sessionByRecvId has a pointer to the session; old are   *)
(* the requests of requestedSigShares that have timed out.                 *)
Session == [recv |-> NoSession, send |-> NoSession, announced |-> {}, requested |-> {}, knows |-> {}]
NodeState == [session |-> None, byRecv |-> {}, nextSend |-> 1, pending |-> {},
              req |-> {}, old |-> {}, banned |-> FALSE]

(* CSigSharesManager: requested is sigSharesRequested, queued the shares   *)
(* to announce, signed the number of attempts of the signed session, hand  *)
(* what the message thread is about to add to pendingIncomingSigShares,    *)
(* misbehaved the nodes to be disconnected (fShouldBan).                   *)
Manager == [nodeStates |-> <<>>, sigShares |-> {}, requested |-> [m \in Nodes |-> None],
            queued |-> {}, timeSeen |-> FALSE, signed |-> None, pendingSigns |-> FALSE,
            recovered |-> FALSE, hand |-> None, misbehaved |-> {}]

Sessions == [recv : Nat, send : Nat, announced : SUBSET Nodes, requested : SUBSET Nodes,
             knows : SUBSET Nodes]
NodeStates == [session : Sessions \cup {None}, byRecv : SUBSET Nat, nextSend : Nat,
               pending : SUBSET Nodes, req : SUBSET Nodes, old : SUBSET Nodes, banned : BOOLEAN]
Requests == [from : Nodes \cup {None}, old : BOOLEAN]
Hands == [from : Nodes, shares : SUBSET Nodes]

(* A quorum is finite, connections go both ways, and values of different   *)
(* kinds differ.                                                           *)
ASSUME SetupAssumption ==
    /\ IsFiniteSet(Nodes)
    /\ \A s \in Setups :
        /\ DOMAIN s.peers \subseteq Nodes
        /\ \A n \in DOMAIN s.peers : /\ s.peers[n] \subseteq DOMAIN s.peers \ {n}
                                     /\ \A p \in s.peers[n] : n \in s.peers[p]
        /\ s.signers \subseteq DOMAIN s.peers
    /\ None \notin Sessions \cup Requests \cup Hands

Init ==
    /\ setup \in Setups
    /\ mgr = [n \in Members |-> [Manager EXCEPT !.pendingSigns = n \in setup.signers]]
    /\ msgs = [n \in Members |-> [p \in setup.peers[n] |-> <<>>]]
    /\ up = Links
    /\ stale = {} /\ faults = 0
-----------------------------------------------------------------------------
QuorumNodes(n) == {p \in setup.peers[n] : {n, p} \in up}

(* nodeStates[c] for any c, and the manager with another state for c.      *)
StateOf(m, c) == IF c \in DOMAIN m.nodeStates THEN m.nodeStates[c] ELSE NodeState
Put(m, c, s) ==
    [m EXCEPT !.nodeStates = [d \in DOMAIN @ \cup {c} |-> IF d = c THEN s ELSE @[d]]]

(* GetOrCreateSessionFromShare, GetOrCreateSessionFromAnn.                 *)
GetOrCreate(s) == IF s.session = None THEN Session ELSE s.session

RemoveSession_KeepsPointer(s) ==
    [s EXCEPT !.session = None, !.req = {}, !.old = {}, !.pending = {}]

(* CSigSharesNodeState::RemoveSession.                                     *)
RemoveSession(s) ==
    [s EXCEPT !.session = None, !.req = {}, !.old = {}, !.pending = {},
              !.byRecv = @ \ (IF s.session = None THEN {} ELSE {s.session.recv})]

RemoveSigSharesForSession(m) ==
    [m EXCEPT !.nodeStates = [c \in DOMAIN @ |-> RemoveSession(@[c])],
              !.requested = [k \in Nodes |-> None], !.queued = {}, !.sigShares = {},
              !.signed = None, !.timeSeen = FALSE]

(* What was requested from the nodes of C is requested from others.        *)
ForgetRequests(m, C) ==
    [m EXCEPT !.requested = [k \in Nodes |->
        IF \E c \in C \cap DOMAIN m.nodeStates : k \in m.nodeStates[c].req THEN None ELSE @[k]]]

DropNodeState(m, C) ==
    [ForgetRequests(m, C) EXCEPT !.nodeStates = [d \in DOMAIN @ \ C |-> @[d]]]

BanNode(m, C) ==
    [ForgetRequests(m, C) EXCEPT
        !.nodeStates = [c \in DOMAIN @ |->
            IF c \in C THEN [@[c] EXCEPT !.req = {}, !.old = {}, !.banned = TRUE] ELSE @[c]],
        !.misbehaved = @ \cup C]

(* ProcessRecoveredSig and HandleNewRecoveredSig.                          *)
Recovered(m) == [RemoveSigSharesForSession(m) EXCEPT !.recovered = TRUE]

(* The direct push of ProcessSigShare: the members one is connected to get *)
(* one's own share without an announcement.                                *)
Push(m, n) ==
    [m EXCEPT !.nodeStates = [c \in DOMAIN @ \cup QuorumNodes(n) |->
        IF c \notin QuorumNodes(n) THEN @[c]
        ELSE [StateOf(m, c) EXCEPT
                 !.session = [GetOrCreate(StateOf(m, c)) EXCEPT !.requested = @ \cup {n},
                                                                !.knows = @ \cup {n}]]]]

(* ProcessSigShare for the shares ks, and TryRecoverSig when there are     *)
(* enough of them; what a member recovers with a bad share of its own does *)
(* not verify.                                                             *)
ProcessSigShares(m, n, ks) ==
    LET new == ks \ m.sigShares
        m1 == [m EXCEPT !.sigShares = @ \cup ks, !.timeSeen = TRUE,
                        !.queued = IF setup.allConnected THEN @ ELSE @ \cup new]
        m2 == IF n \in new /\ ~setup.allConnected THEN Push(m1, n) ELSE m1
    IN  IF m.recovered \/ new = {} THEN m
        ELSE IF Cardinality(m2.sigShares) >= setup.threshold /\ n \notin setup.faulty THEN Recovered(m2)
        ELSE m2
-----------------------------------------------------------------------------
(* The message thread.                                                     *)

ProcessMessageSigSesAnn(m, c, msg) ==
    LET s == StateOf(m, c)
        t == GetOrCreate(s)
    IN  Put(m, c, [s EXCEPT !.byRecv = (@ \ {t.recv, msg.id}) \cup {msg.id},
                            !.session = [t EXCEPT !.recv = msg.id]])

ProcessMessageSigSharesInv(m, c, msg) ==
    LET s == StateOf(m, c)
    IN  IF msg.id \notin s.byRecv \/ m.recovered THEN m
        ELSE Put(m, c, [s EXCEPT !.session = [s.session EXCEPT !.announced = @ \cup msg.shares,
                                                              !.knows = @ \cup msg.shares]])

ProcessMessageGetSigShares(m, c, msg) ==
    LET s == StateOf(m, c)
    IN  IF msg.id \notin s.byRecv \/ m.recovered THEN m
        ELSE Put(m, c, [s EXCEPT !.session = [s.session EXCEPT !.requested = @ \cup msg.shares,
                                                              !.knows = @ \cup msg.shares]])

(* ProcessMessageBatchedSigShares up to where it releases cs.              *)
ProcessMessageBatchedSigShares(m, c, msg) ==
    LET s == StateOf(m, c)
    IN  IF msg.id \notin s.byRecv THEN m
        ELSE [Put(m, c, [s EXCEPT !.req = @ \ msg.shares, !.old = @ \ msg.shares])
                EXCEPT !.hand = IF m.recovered \/ msg.shares \subseteq m.sigShares THEN None
                                ELSE [from |-> c, shares |-> msg.shares \ m.sigShares]]

AddPending(m, c, ks) ==
    Put(m, c, [StateOf(m, c) EXCEPT !.pending = @ \cup ks])

ProcessMessageSigShare(m, c, msg) ==
    IF msg.shares \subseteq m.sigShares \/ m.recovered \/ ~setup.allConnected THEN m
    ELSE AddPending(m, c, msg.shares)

ProcessMessage(n, p) ==
    /\ mgr[n].hand = None
    /\ msgs[p][n] # <<>>
    /\ LET msg == Head(msgs[p][n])
           m == mgr[n]
       IN  mgr' = [mgr EXCEPT ![n] =
               CASE msg.type = "ann"   -> ProcessMessageSigSesAnn(m, p, msg)
                 [] msg.type = "inv"   -> ProcessMessageSigSharesInv(m, p, msg)
                 [] msg.type = "get"   -> ProcessMessageGetSigShares(m, p, msg)
                 [] msg.type = "batch" -> ProcessMessageBatchedSigShares(m, p, msg)
                 [] msg.type = "share" -> ProcessMessageSigShare(m, p, msg)]
    /\ msgs' = [msgs EXCEPT ![p][n] = Tail(@)]
    /\ UNCHANGED netVars

AddToPending(n) ==
    LET m == mgr[n]
    IN  /\ m.hand # None
        /\ mgr' = [mgr EXCEPT ![n] = [AddPending(m, m.hand.from, m.hand.shares) EXCEPT !.hand = None]]
        /\ UNCHANGED <<msgs, netVars>>
-----------------------------------------------------------------------------
(* The worker thread.                                                      *)

(* ProcessPendingSigShares: all pending shares are taken; a node that has  *)
(* sent a share that does not verify is banned and its shares dropped.     *)
ProcessPendingSigShares(n) ==
    LET m == mgr[n]
        taken == {y \in (DOMAIN m.nodeStates) \X Nodes :
                     y[2] \in m.nodeStates[y[1]].pending \ m.sigShares}
        bad == IF m.recovered THEN {} ELSE {x[1] : x \in {y \in taken : y[2] \in setup.faulty}}
        m1 == [m EXCEPT !.nodeStates = [c \in DOMAIN @ |-> [@[c] EXCEPT !.pending = {}]]]
    IN  /\ \E c \in DOMAIN m.nodeStates : m.nodeStates[c].pending # {}
        /\ mgr' = [mgr EXCEPT ![n] =
               ProcessSigShares(BanNode(m1, bad), n, {x[2] : x \in {y \in taken : y[1] \notin bad}})]
        /\ UNCHANGED <<msgs, netVars>>

(* SignPendingSigShares, with CreateSigShare.  The signed session is set   *)
(* up even if the signature has been recovered by then.                    *)
SignPendingSigShares(n) ==
    /\ mgr[n].pendingSigns
    /\ mgr' = [mgr EXCEPT ![n] =
           [ProcessSigShares([mgr[n] EXCEPT !.pendingSigns = FALSE], n, {n}) EXCEPT
               !.signed = IF setup.allConnected THEN 0 ELSE @]]
    /\ UNCHANGED <<msgs, netVars>>

(* The sessions that CollectSigSharesToRequest and CollectSigSharesToSend  *)
(* pass over.                                                              *)
Idle(m, s) == s.session = None \/ s.banned \/ m.recovered \/ setup.allConnected

(* <<c, k>>: node c has announced share k.                                 *)
Announcements(m) ==
    {a \in (DOMAIN m.nodeStates) \X Members :
        ~Idle(m, m.nodeStates[a[1]]) /\ a[2] \in m.nodeStates[a[1]].session.announced}

(* The nodes are visited in a random order, their announcements in that of *)
(* the members.                                                            *)
Visits(m) ==
    LET A == Announcements(m)
    IN  {v \in [1..Cardinality(A) -> A] : \A i, j \in DOMAIN v : i < j =>
            /\ v[i] # v[j]
            /\ v[i][1] = v[j][1] => v[i][2] < v[j][2] /\ \A l \in i..j : v[l][1] = v[i][1]}

(* requestedSigShares of a node after those that timed out were erased.    *)
Outstanding(s) == IF s.session = None \/ s.banned THEN s.req ELSE s.req \ s.old

RequestShare_FromEveryone(m, x, c, k) ==
    IF c \in x.full THEN x
    ELSE IF k \in m.sigShares THEN [x EXCEPT !.done = @ \cup {<<c, k>>}]
    ELSE IF Cardinality(Outstanding(m.nodeStates[c])) >= MaxRequests
    THEN [x EXCEPT !.full = @ \cup {c}]
    ELSE [x EXCEPT !.get = @ \cup {<<c, k>>}, !.done = @ \cup {<<c, k>>}]

RequestShare_DropsRest(m, x, c, k) ==
    LET r == m.requested[k] IN
    IF k \in m.sigShares \/ Cardinality(Outstanding(m.nodeStates[c])) >= MaxRequests
    THEN [x EXCEPT !.done = @ \cup {<<c, k>>}]
    ELSE IF (\E g \in x.get : g[2] = k) \/ (r # None /\ ~(r.old /\ r.from # c)) THEN x
    ELSE [x EXCEPT !.get = @ \cup {<<c, k>>}, !.done = @ \cup {<<c, k>>}]

(* The body of CollectSigSharesToRequest for one share announced by c.     *)
(* x.get are the requests made so far, x.done those and the announcements  *)
(* of shares we have, x.full the nodes with too many pending requests.     *)
RequestShare(m, x, c, k) ==
    LET s == m.nodeStates[c]
        r == m.requested[k]
    IN  IF c \in x.full THEN x
        ELSE IF k \in m.sigShares THEN [x EXCEPT !.done = @ \cup {<<c, k>>}]
        ELSE IF Cardinality(Outstanding(s)) + Cardinality({g \in x.get : g[1] = c}) >= MaxRequests
        THEN [x EXCEPT !.full = @ \cup {c}]
        ELSE IF (\E g \in x.get : g[2] = k) \/ (r # None /\ ~(r.old /\ r.from # c)) THEN x
        ELSE [x EXCEPT !.get = @ \cup {<<c, k>>}, !.done = @ \cup {<<c, k>>}]

(* CollectSigSharesToRequest, with the announcements in the given order.   *)
CollectSigSharesToRequest(m, visit) ==
    LET seen[i \in 0..Len(visit)] ==
            IF i = 0 THEN [get |-> {}, done |-> {}, full |-> {}]
            ELSE RequestShare(m, seen[i - 1], visit[i][1], visit[i][2])
    IN  seen[Len(visit)]

(* CollectSigSharesToSend, for one node: what it requested and we have.    *)
Batch(m, s) == IF Idle(m, s) THEN {} ELSE s.session.requested \cap m.sigShares

(* CollectSigSharesToAnnounce: the nodes to tell and, for one of them, the *)
(* queued shares that we have and it does not know of.                     *)
ToTell(m, n) ==
    IF m.queued \cap m.sigShares = {} THEN {}
    ELSE {c \in QuorumNodes(n) : ~StateOf(m, c).banned}
Inv(m, s) == (m.queued \cap m.sigShares) \ GetOrCreate(s).knows

(* CollectSigSharesToSendConcentrated: the member whose turn it is.        *)
Target(m, due) ==
    IF m.signed = None \/ ~due \/ m.signed >= Len(RecoveryOrder) THEN None
    ELSE RecoveryOrder[m.signed + 1]

(* What the state of node c becomes: get are the shares requested from it, *)
(* done the announcements dealt with, inv the shares it is told of.  With  *)
(* addSigSesAnnIfNeeded the session gets an id before it is referred to.   *)
NodeStateSent(m, s, get, done, inv) ==
    LET idle == Idle(m, s)
        t == GetOrCreate(s)
        needsId == get \cup Batch(m, s) \cup inv # {} /\ t.send = NoSession
    IN  [s EXCEPT
            !.req = Outstanding(s) \cup get,
            !.old = @ \cap Outstanding(s),
            !.nextSend = IF needsId THEN @ + 1 ELSE @,
            !.session = [t EXCEPT !.announced = @ \ done,
                                  !.requested = IF idle THEN @ ELSE {},
                                  !.knows = @ \cup inv,
                                  !.send = IF needsId THEN s.nextSend ELSE @]]

Message(type, id, ks) == IF ks = {} THEN <<>> ELSE <<[type |-> type, id |-> id, shares |-> ks]>>

(* Whether SendMessages has anything to do.                                *)
ToSend(m) ==
    \/ m.queued # {} \/ m.signed # None
    \/ \E s \in Range(m.nodeStates) :
           ~Idle(m, s) /\ s.session.announced \cup s.session.requested \cup s.old # {}

(* SendMessages.  The nodes are asked for shares in a random order; due:   *)
(* the time for the next attempt with a recovery member has come.          *)
SendMessages(n, due) ==
    /\ ToSend(mgr[n])
    /\ due \/ mgr[n].signed \notin {None, 0}
    /\ \E visit \in Visits(mgr[n]) :
        LET m == mgr[n]
            x == CollectSigSharesToRequest(m, visit)
            tell == ToTell(m, n)
            Get(c) == {k \in Nodes : <<c, k>> \in x.get}
            Told(c) == IF c \in tell THEN Inv(m, StateOf(m, c)) ELSE {}
            After(c) == NodeStateSent(m, StateOf(m, c), Get(c), {k \in Nodes : <<c, k>> \in x.done}, Told(c))
            target == Target(m, due)
            Out(p) ==
                LET s == StateOf(m, p)
                    id == After(p).session.send
                IN  (IF After(p).nextSend = s.nextSend THEN <<>>
                     ELSE <<[type |-> "ann", id |-> id, shares |-> {}]>>)
                    \o Message("get", id, Get(p))
                    \o Message("batch", id, Batch(m, s))
                    \o Message("inv", id, Told(p))
                    \o Message("share", NoSession, IF p = target THEN {n} ELSE {})
        IN  /\ mgr' = [mgr EXCEPT ![n] = [m EXCEPT
                   !.nodeStates = [c \in DOMAIN @ \cup tell |->
                       IF c \notin tell /\ @[c].session = None THEN @[c] ELSE After(c)],
                   !.requested = [k \in Nodes |->
                       IF \E g \in x.get : g[2] = k
                       THEN [from |-> (CHOOSE g \in x.get : g[2] = k)[1], old |-> FALSE] ELSE @[k]],
                   !.queued = {},
                   !.signed = IF target = None THEN @ ELSE @ + 1]]
            /\ msgs' = [msgs EXCEPT ![n] = [p \in setup.peers[n] |->
                   IF {n, p} \in up THEN @[p] \o Out(p) ELSE <<>>]]
            /\ UNCHANGED netVars

(* ProcessPendingRecoveredSigs: the signature comes from another member.   *)
ReceiveRecoveredSig(n) ==
    /\ ~mgr[n].recovered
    /\ \E p \in Members : mgr[p].recovered
    /\ mgr' = [mgr EXCEPT ![n] = Recovered(@)]
    /\ UNCHANGED <<msgs, netVars>>

(* Cleanup: the states of nodes that have disappeared from CConnman.  The  *)
(* NodeId of a request that had timed out will not be seen again (None).   *)
CleanupNodeStates(n) ==
    LET gone == DOMAIN mgr[n].nodeStates \ QuorumNodes(n)
        m == DropNodeState(mgr[n], gone)
    IN  /\ gone # {}
        /\ mgr' = [mgr EXCEPT ![n] = [m EXCEPT !.requested = [k \in Nodes |->
               IF @[k] # None /\ @[k].from \in gone THEN [@[k] EXCEPT !.from = None] ELSE @[k]]]]
        /\ UNCHANGED <<msgs, netVars>>

RemoveBannedNodeStates(n) ==
    LET banned == DOMAIN mgr[n].nodeStates \cap mgr[n].misbehaved
    IN  /\ banned # {}
        /\ mgr' = [mgr EXCEPT ![n] = DropNodeState(@, banned)]
        /\ UNCHANGED <<msgs, netVars>>
-----------------------------------------------------------------------------
(* The other threads, the clock and the network.                           *)

ForceReAnnouncement_KeepsId(m) ==
    IF setup.allConnected THEN m
    ELSE [m EXCEPT !.queued = @ \cup m.sigShares,
                   !.nodeStates = [c \in DOMAIN @ |->
                       IF @[c].session = None THEN @[c] ELSE [@[c] EXCEPT !.session.knows = {}]]]

(* ForceReAnnouncement.                                                    *)
ForceReAnnouncement(m) ==
    IF setup.allConnected THEN m
    ELSE [m EXCEPT !.queued = @ \cup m.sigShares,
                   !.nodeStates = [c \in DOMAIN @ |->
                       IF @[c].session = None THEN @[c]
                       ELSE [@[c] EXCEPT !.session.knows = {}, !.session.send = NoSession]]]

(* CSigningManager::AsyncSignIfMember with allowReSign: the member makes   *)
(* its share once more and announces everything again.                     *)
AsyncSignIfMember(n) ==
    /\ n \in stale
    /\ stale' = stale \ {n}
    /\ mgr' = [mgr EXCEPT ![n] = IF @.recovered THEN @
                                  ELSE [ForceReAnnouncement(@) EXCEPT !.pendingSigns = TRUE]]
    /\ UNCHANGED <<setup, msgs, up, faults>>

(* SIG_SHARE_REQUEST_TIMEOUT has passed since the requests n has made.     *)
RequestsTimeOut(n) ==
    LET m == mgr[n]
        late == [m EXCEPT !.nodeStates = [c \in DOMAIN @ |-> [@[c] EXCEPT !.old = m.nodeStates[c].req]],
                          !.requested = [k \in Nodes |-> IF @[k] = None THEN None
                                                          ELSE [@[k] EXCEPT !.old = TRUE]]]
    IN  /\ late # m
        /\ mgr' = [mgr EXCEPT ![n] = late]
        /\ UNCHANGED <<msgs, netVars>>

Fault == faults < setup.maxFaults /\ faults' = faults + 1 /\ UNCHANGED setup

(* Cleanup: no new share for SESSION_NEW_SHARES_TIMEOUT, a minute, in      *)
(* which what n has sent arrives.                                          *)
SessionTimesOut(n) ==
    /\ mgr[n].timeSeen
    /\ mgr[n].queued = {}
    /\ \A p \in setup.peers[n] : msgs[n][p] = <<>>
    /\ mgr' = [mgr EXCEPT ![n] = RemoveSigSharesForSession(@)]
    /\ stale' = setup.signers
    /\ Fault
    /\ UNCHANGED <<msgs, up>>

(* A connection breaks and what is under way is lost.                      *)
Break(l) ==
    /\ l \in up
    /\ up' = up \ {l}
    /\ msgs' = [n \in Members |-> [p \in setup.peers[n] |-> IF {n, p} = l THEN <<>> ELSE msgs[n][p]]]

Disconnect(l) == Break(l) /\ Fault /\ UNCHANGED <<mgr, stale>>

(* CConnman disconnects a node that misbehaved.                            *)
DisconnectBanned(n, p) ==
    /\ p \in mgr[n].misbehaved
    /\ Break({n, p})
    /\ UNCHANGED <<setup, mgr, stale, faults>>

(* ThreadOpenMasternodeConnections.                                        *)
Connect(n, p) ==
    /\ {n, p} \notin up
    /\ p \notin DOMAIN mgr[n].nodeStates \cup mgr[n].misbehaved
    /\ n \notin DOMAIN mgr[p].nodeStates \cup mgr[p].misbehaved
    /\ up' = up \cup {{n, p}}
    /\ stale' = setup.signers
    /\ UNCHANGED <<setup, mgr, msgs, faults>>

Step ==
    \E n \in Members :
        \/ \E p \in setup.peers[n] : ProcessMessage(n, p) \/ DisconnectBanned(n, p) \/ Connect(n, p)
        \/ AddToPending(n)
        \/ ProcessPendingSigShares(n)
        \/ SignPendingSigShares(n)
        \/ \E due \in BOOLEAN : SendMessages(n, due)
        \/ ReceiveRecoveredSig(n)
        \/ CleanupNodeStates(n)
        \/ RemoveBannedNodeStates(n)
        \/ AsyncSignIfMember(n)
        \/ RequestsTimeOut(n)

Next ==
    \/ Step
    \/ \E n \in Members : SessionTimesOut(n)
    \/ \E l \in Links : Disconnect(l)

Spec == Init /\ [][Next]_vars
-----------------------------------------------------------------------------
(* sigSharesRequested and requestedSigShares: a share is requested from    *)
(* one node at a time, whoever else announces it, times out, is banned or  *)
(* disappears ("don't request it from other nodes until a timeout          *)
(* happens").                                                              *)
OneRequestAtATime ==
    \A n \in Members : \A c \in DOMAIN mgr[n].nodeStates : \A k \in mgr[n].nodeStates[c].req :
        mgr[n].requested[k] # None /\ mgr[n].requested[k].from = c

(* sessionByRecvId holds raw pointers: it has one only to a session that   *)
(* exists, under the id that RemoveSession will erase.                     *)
NoDanglingSession ==
    \A n \in Members : \A s \in Range(mgr[n].nodeStates) :
        s.byRecv # {} => s.session # None /\ s.byRecv = {s.session.recv}

Sent(n, p, type, k) ==
    \E i \in DOMAIN msgs[n][p] : msgs[n][p][i].type = type /\ k \in msgs[n][p][i].shares

(* p has share k or will come to it: it has been told of it or it is on    *)
(* the way to p.                                                           *)
Reaches(k, n, p) ==
    LET m == mgr[p]
        s == StateOf(m, n)
        t == StateOf(mgr[n], p)
    IN  \/ m.recovered \/ k \in m.sigShares
        \/ \E d \in Range(m.nodeStates) : k \in d.pending \cup d.req
        \/ m.hand # None /\ k \in m.hand.shares
        \/ s.session # None /\ k \in s.session.announced
        \/ Sent(n, p, "inv", k) \/ Sent(n, p, "batch", k) \/ Sent(p, n, "get", k)
        \/ k \in t.session.requested

(* A node is told of a share at most once (knows): as long as no session   *)
(* times out and no connection breaks, what a node believes its peer to    *)
(* know has reached it or will.                                            *)
KnownReaches ==
    faults = 0 => \A n \in Members : \A p \in setup.peers[n] :
        LET s == StateOf(mgr[n], p)
        IN  {n, p} \in up /\ ~mgr[n].recovered /\ s.session # None /\ ~s.banned
            /\ n \notin mgr[p].misbehaved /\ p \notin mgr[n].misbehaved
            => \A k \in s.session.knows : Reaches(k, n, p)

(* Nobody waits for what will not come: when no thread has anything left   *)
(* to do and no request can time out any more, every member has recovered  *)
(* the signature or has all the shares there are, although sessions have   *)
(* timed out on one side and not on the other, requests were made of nodes *)
(* that are gone, and session ids that one side has forgotten stay in use  *)
(* on the other.                                                           *)
NobodyLeftWaiting ==
    LET good == setup.signers \ setup.faulty
        Served(m) == m.recovered \/ (good \subseteq m.sigShares /\ Cardinality(good) < setup.threshold)
    IN  (\A n \in Members \ setup.faulty : Served(mgr[n])) \/ ENABLED <<Step>>_vars
=============================================================================
