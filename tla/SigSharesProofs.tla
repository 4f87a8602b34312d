-------------------------- MODULE SigSharesProofs ---------------------------
(***************************************************************************)
(* Proofs about the exchange of signature shares, for any quorum, any      *)
(* connections between its members and any number of faults.               *)
(*                                                                         *)
(* IndInv is about each manager alone: a pointer to a session goes with    *)
(* the session, and a request that a node state holds is the one that      *)
(* sigSharesRequested has for the share, so there is never a second one    *)
(* and never a dangling one.                                               *)
(*                                                                         *)
(* FlowInv is about two managers and what is on its way between them:      *)
(* whatever one manager believes that the other has been told is there, in *)
(* a message on its way, or in a request that will bring it, and           *)
(* announcements are ahead of everything that uses their ids.              *)
(***************************************************************************)
EXTENDS SigShares, FiniteSetTheorems, WellFoundedInduction, NaturalsInduction, TLAPS

USE Zenon

Managers == [nodeStates : UNION {[D -> NodeStates] : D \in SUBSET Nodes}, sigShares : SUBSET Nodes,
             requested : [Nodes -> Requests \cup {None}], queued : SUBSET Nodes,
             timeSeen : BOOLEAN, signed : Nat \cup {None}, pendingSigns : BOOLEAN,
             recovered : BOOLEAN, hand : Hands \cup {None}, misbehaved : SUBSET Nodes]
Messages == [type : {"ann", "inv", "get", "batch", "share"}, id : Nat, shares : SUBSET Nodes]

(* The pointer to a session and the requests go with the session.          *)
Sound(s) ==
    /\ s.byRecv # {} => s.session # None /\ s.byRecv = {s.session.recv}
    /\ s.session = None \/ s.banned => s.req = {}

(* A request of a node is the one sigSharesRequested has, and times out    *)
(* with it.                                                                *)
Own(m, c, k) ==
    /\ m.requested[k] # None /\ m.requested[k].from = c
    /\ m.requested[k].old => k \in m.nodeStates[c].old

ManagerInv(m) ==
    /\ m \in Managers
    /\ \A c \in DOMAIN m.nodeStates :
        Sound(m.nodeStates[c]) /\ \A k \in m.nodeStates[c].req : Own(m, c, k)

NetInv ==
    /\ setup \in Setups
    /\ DOMAIN msgs = Members
    /\ \A n \in Members : msgs[n] \in [setup.peers[n] -> Seq(Messages)]

IndInv ==
    /\ NetInv
    /\ DOMAIN mgr = Members
    /\ \A n \in Members : ManagerInv(mgr[n])
-----------------------------------------------------------------------------
(* The node states of a manager are node states, by nodes.                 *)
LEMMA StatesType ==
    ASSUME NEW m \in Managers
    PROVE  /\ DOMAIN m.nodeStates \subseteq Nodes
           /\ \A c \in DOMAIN m.nodeStates : m.nodeStates[c] \in NodeStates
<1>1. m.nodeStates \in UNION {[D -> NodeStates] : D \in SUBSET Nodes}
  BY DEF Managers
<1>2. PICK D \in SUBSET Nodes : m.nodeStates \in [D -> NodeStates]
  BY <1>1
<1> QED
  BY <1>2

(* A manager with other node states is a manager.                          *)
LEMMA WithStates ==
    ASSUME NEW m \in Managers, NEW D \in SUBSET Nodes, NEW f \in [D -> NodeStates]
    PROVE  /\ [m EXCEPT !.nodeStates = f] \in Managers
           /\ [m EXCEPT !.nodeStates = f].nodeStates = f
           /\ [m EXCEPT !.nodeStates = f].requested = m.requested
<1>1. f \in UNION {[E -> NodeStates] : E \in SUBSET Nodes}
  OBVIOUS
<1> QED
  BY <1>1, SMT DEF Managers

(* A node without a state has an empty one.                                *)
LEMMA StateOfType ==
    ASSUME NEW m, ManagerInv(m), NEW c \in Nodes
    PROVE  StateOf(m, c) \in NodeStates /\ Sound(StateOf(m, c))
<1>1. NodeState \in NodeStates /\ Sound(NodeState)
  BY SMT DEF NodeState, NodeStates, Sound
<1> QED
  BY <1>1, StatesType DEF StateOf, ManagerInv

(* A handler that makes no request and forgets none that is not made again *)
(* keeps a manager right.                                                  *)
LEMMA StatesReplaced ==
    ASSUME NEW m, ManagerInv(m), NEW D \in SUBSET Nodes, NEW f \in [D -> NodeStates],
           \A d \in D : /\ Sound(f[d])
                        /\ f[d].req \subseteq StateOf(m, d).req
                        /\ StateOf(m, d).old \cap f[d].req \subseteq f[d].old
    PROVE  ManagerInv([m EXCEPT !.nodeStates = f])
<1> DEFINE w == [m EXCEPT !.nodeStates = f]
<1>1. w \in Managers /\ w.nodeStates = f /\ w.requested = m.requested
  BY WithStates DEF ManagerInv
<1>2. ASSUME NEW d \in D, NEW k \in f[d].req
      PROVE  Own(w, d, k)
  <2>1. k \in StateOf(m, d).req
    BY <1>2
  <2>2. d \in DOMAIN m.nodeStates /\ StateOf(m, d) = m.nodeStates[d]
    BY <2>1, SMT DEF StateOf, NodeState
  <2>3. Own(m, d, k)
    BY <2>1, <2>2 DEF ManagerInv
  <2>4. m.requested[k].old => k \in f[d].old
    BY <2>2, <2>3, <1>2 DEF Own
  <2> QED
    BY <1>1, <2>3, <2>4 DEF Own
<1>3. DOMAIN w.nodeStates = D
  BY <1>1
<1> QED
  BY <1>1, <1>2, <1>3 DEF ManagerInv

(* Other fields of the manager do not matter.                              *)
LEMMA SameStates ==
    ASSUME NEW m, ManagerInv(m), NEW w \in Managers,
           w.nodeStates = m.nodeStates, w.requested = m.requested
    PROVE  ManagerInv(w)
BY DEF ManagerInv, Own

(* Putting a state for a node.                                             *)
LEMMA PutRight ==
    ASSUME NEW m, ManagerInv(m), NEW c \in Nodes, NEW s \in NodeStates, Sound(s),
           s.req \subseteq StateOf(m, c).req,
           StateOf(m, c).old \cap s.req \subseteq s.old
    PROVE  ManagerInv(Put(m, c, s))
<1> DEFINE D == DOMAIN m.nodeStates \cup {c}
           f == [d \in D |-> IF d = c THEN s ELSE m.nodeStates[d]]
<1>1. D \in SUBSET Nodes /\ f \in [D -> NodeStates]
  BY StatesType DEF ManagerInv
<1>2. Put(m, c, s) = [m EXCEPT !.nodeStates = f]
  BY SMT DEF Put, ManagerInv, Managers
<1>3. ASSUME NEW d \in D
      PROVE  /\ Sound(f[d]) /\ f[d].req \subseteq StateOf(m, d).req
             /\ StateOf(m, d).old \cap f[d].req \subseteq f[d].old
  <2>1. CASE d = c
    BY <2>1
  <2>2. CASE d # c
    <3>1. d \in DOMAIN m.nodeStates /\ f[d] = m.nodeStates[d] /\ StateOf(m, d) = m.nodeStates[d]
      BY <2>2 DEF StateOf
    <3> QED
      BY <3>1 DEF ManagerInv
  <2> QED
    BY <2>1, <2>2
<1> HIDE DEF D, f
<1>4. ManagerInv([m EXCEPT !.nodeStates = f])
  BY <1>1, <1>3, StatesReplaced
<1> QED
  BY <1>2, <1>4

Remaining(m, C) ==
    [k \in Nodes |-> IF \E c \in C \cap DOMAIN m.nodeStates : k \in m.nodeStates[c].req
                     THEN None ELSE m.requested[k]]

(* Forgetting requests changes requested only.                             *)
LEMMA ForgetType ==
    ASSUME NEW m \in Managers, NEW C
    PROVE  /\ ForgetRequests(m, C) \in Managers
           /\ ForgetRequests(m, C).nodeStates = m.nodeStates
           /\ ForgetRequests(m, C).misbehaved = m.misbehaved
           /\ ForgetRequests(m, C).requested = Remaining(m, C)
<1>1. Remaining(m, C) \in [Nodes -> Requests \cup {None}]
  BY SMT DEF Managers, Remaining
<1>2. ForgetRequests(m, C) = [m EXCEPT !.requested = Remaining(m, C)]
  BY SMT DEF ForgetRequests, Managers, Remaining
<1> QED
  BY <1>1, <1>2, SMT DEF Managers

(* Node states without the requests to C are right once those are          *)
(* forgotten: nobody else's request is lost.                               *)
LEMMA ForgetRight ==
    ASSUME NEW m, ManagerInv(m), NEW C, NEW D \in SUBSET (DOMAIN m.nodeStates),
           NEW f \in [D -> NodeStates],
           \A d \in D : /\ Sound(f[d])
                        /\ f[d].req \subseteq m.nodeStates[d].req
                        /\ m.nodeStates[d].old \cap f[d].req \subseteq f[d].old
                        /\ d \in C => f[d].req = {}
    PROVE  ManagerInv([ForgetRequests(m, C) EXCEPT !.nodeStates = f])
<1> DEFINE g == ForgetRequests(m, C)
           w == [g EXCEPT !.nodeStates = f]
           r == Remaining(m, C)
<1>2. g \in Managers /\ g.requested = r
  BY ForgetType DEF ManagerInv
<1>3. D \in SUBSET Nodes
  BY StatesType DEF ManagerInv
<1> HIDE DEF g, r
<1>4. w \in Managers /\ w.nodeStates = f /\ w.requested = r
  <2>1. ASSUME NEW y \in Managers
        PROVE  /\ [y EXCEPT !.nodeStates = f] \in Managers
               /\ [y EXCEPT !.nodeStates = f].nodeStates = f
               /\ [y EXCEPT !.nodeStates = f].requested = y.requested
    BY <1>3, WithStates, SMT
  <2> QED
    BY <1>2, <2>1
<1>5. ASSUME NEW d \in D, NEW k \in f[d].req
      PROVE  Own(w, d, k)
  <2>1. d \in DOMAIN m.nodeStates /\ k \in m.nodeStates[d].req /\ d \notin C
    BY <1>5
  <2>2. Own(m, d, k)
    BY <2>1 DEF ManagerInv
  <2>3. \A c \in DOMAIN m.nodeStates : k \in m.nodeStates[c].req => c = d
    BY <2>2 DEF ManagerInv, Own
  <2>4. k \in Nodes
    BY <2>1, StatesType DEF ManagerInv, NodeStates
  <2>5. r[k] = m.requested[k]
    BY <2>1, <2>3, <2>4 DEF r, Remaining
  <2>6. k \in m.nodeStates[d].old => k \in f[d].old
    BY <1>5
  <2> HIDE DEF w
  <2> QED
    BY <1>4, <2>2, <2>5, <2>6 DEF Own
<1>6. DOMAIN w.nodeStates = D
  BY <1>4
<1> HIDE DEF w
<1>7. ManagerInv(w)
  BY <1>4, <1>5, <1>6 DEF ManagerInv
<1> QED
  BY <1>7 DEF w, g

(* Dropping the states of nodes.                                           *)
LEMMA DropRight ==
    ASSUME NEW m, ManagerInv(m), NEW C
    PROVE  ManagerInv(DropNodeState(m, C))
<1> DEFINE D == DOMAIN m.nodeStates \ C
           f == [d \in D |-> m.nodeStates[d]]
<1>1. D \in SUBSET (DOMAIN m.nodeStates) /\ f \in [D -> NodeStates]
  BY StatesType DEF ManagerInv
<1>2. DropNodeState(m, C) = [ForgetRequests(m, C) EXCEPT !.nodeStates = f]
  BY ForgetType, SMT DEF DropNodeState, ManagerInv, Managers
<1>3. \A d \in D : /\ Sound(f[d]) /\ f[d].req \subseteq m.nodeStates[d].req
                   /\ m.nodeStates[d].old \cap f[d].req \subseteq f[d].old
                   /\ d \in C => f[d].req = {}
  BY DEF ManagerInv
<1> HIDE DEF D, f
<1>4. ManagerInv([ForgetRequests(m, C) EXCEPT !.nodeStates = f])
  BY <1>1, <1>3, ForgetRight
<1> QED
  BY <1>2, <1>4

(* The state of a banned node.                                             *)
LEMMA BannedState ==
    ASSUME NEW s \in NodeStates, Sound(s)
    PROVE  /\ [s EXCEPT !.req = {}, !.old = {}, !.banned = TRUE] \in NodeStates
           /\ Sound([s EXCEPT !.req = {}, !.old = {}, !.banned = TRUE])
           /\ [s EXCEPT !.req = {}, !.old = {}, !.banned = TRUE].req = {}
<1> DEFINE t == [s EXCEPT !.req = {}, !.old = {}, !.banned = TRUE]
<1>1. t \in NodeStates
  BY DEF NodeStates
<1>2. t.byRecv = s.byRecv /\ t.session = s.session /\ t.req = {}
  BY SMT DEF NodeStates
<1> HIDE DEF t
<1>3. Sound(t)
  BY <1>2 DEF Sound
<1> QED
  BY <1>1, <1>2, <1>3 DEF t

(* Banning nodes.                                                          *)
LEMMA BanRight ==
    ASSUME NEW m, ManagerInv(m), NEW C \in SUBSET Nodes
    PROVE  ManagerInv(BanNode(m, C))
<1> DEFINE D == DOMAIN m.nodeStates
           f == [d \in D |->
                    IF d \in C
                    THEN [m.nodeStates[d] EXCEPT !.req = {}, !.old = {}, !.banned = TRUE]
                    ELSE m.nodeStates[d]]
           w == [ForgetRequests(m, C) EXCEPT !.nodeStates = f]
<1>1. \A d \in D : m.nodeStates[d] \in NodeStates /\ Sound(m.nodeStates[d])
  BY StatesType DEF ManagerInv
<1>3. \A d \in D : f[d] \in NodeStates /\ Sound(f[d])
  BY <1>1, BannedState
<1>4. \A d \in D : d \in C => f[d].req = {}
  BY <1>1, BannedState
<1>5. \A d \in D : /\ f[d].req \subseteq m.nodeStates[d].req
                   /\ m.nodeStates[d].old \cap f[d].req \subseteq f[d].old
  BY <1>4
<1>6. f \in [D -> NodeStates]
  BY <1>3
<1>7. BanNode(m, C) = [w EXCEPT !.misbehaved = m.misbehaved \cup C]
  <2> DEFINE g == ForgetRequests(m, C)
  <2>1. g \in Managers /\ g.nodeStates = m.nodeStates /\ g.misbehaved = m.misbehaved
    BY ForgetType DEF ManagerInv
  <2>2. BanNode(m, C) = [g EXCEPT !.nodeStates = f, !.misbehaved = m.misbehaved \cup C]
    BY <2>1 DEF BanNode
  <2> HIDE DEF f, g
  <2> QED
    BY <2>2 DEF g
<1> HIDE DEF f
<1>8. ManagerInv(w)
  BY <1>3, <1>4, <1>5, <1>6, ForgetRight
<1> HIDE DEF w, D
<1>9. /\ [w EXCEPT !.misbehaved = m.misbehaved \cup C] \in Managers
      /\ [w EXCEPT !.misbehaved = m.misbehaved \cup C].nodeStates = w.nodeStates
      /\ [w EXCEPT !.misbehaved = m.misbehaved \cup C].requested = w.requested
  BY <1>8, SMT DEF ManagerInv, Managers
<1> QED
  BY <1>7, <1>8, <1>9, SameStates

(* RemoveSession leaves neither a pointer nor a request.                   *)
LEMMA RemovedState ==
    ASSUME NEW s \in NodeStates, Sound(s)
    PROVE  /\ RemoveSession(s) \in NodeStates
           /\ Sound(RemoveSession(s))
           /\ RemoveSession(s).req = {}
<1> DEFINE b == s.byRecv \ (IF s.session = None THEN {} ELSE {s.session.recv})
           t == [s EXCEPT !.session = None, !.req = {}, !.old = {}, !.pending = {}, !.byRecv = b]
<1>1. b = {}
  BY DEF Sound
<1>2. RemoveSession(s) = t
  BY DEF RemoveSession
<1>3. b \in SUBSET Nat
  BY <1>1
<1> HIDE DEF b
<1>4. t \in NodeStates
  BY <1>3 DEF NodeStates
<1>5. t.req = {} /\ t.byRecv = {}
  BY <1>1 DEF NodeStates
<1> QED
  BY <1>2, <1>4, <1>5 DEF Sound

(* The end of a session.                                                   *)
LEMMA RemoveRight ==
    ASSUME NEW m, ManagerInv(m)
    PROVE  /\ ManagerInv(RemoveSigSharesForSession(m))
           /\ ManagerInv(Recovered(m))
<1> DEFINE D == DOMAIN m.nodeStates
           f == [c \in D |-> RemoveSession(m.nodeStates[c])]
           none == [k \in Nodes |-> None]
           v == [m EXCEPT !.nodeStates = f]
           w == RemoveSigSharesForSession(m)
<1>1. D \in SUBSET Nodes /\ \A c \in D : m.nodeStates[c] \in NodeStates /\ Sound(m.nodeStates[c])
  BY StatesType DEF ManagerInv
<1>2. \A c \in D : f[c] \in NodeStates /\ Sound(f[c]) /\ f[c].req = {}
  BY <1>1, RemovedState
<1>3. f \in [D -> NodeStates]
  BY <1>2
<1>4. none \in [Nodes -> Requests \cup {None}]
  OBVIOUS
<1>5. w = [v EXCEPT !.requested = none, !.queued = {}, !.sigShares = {}, !.signed = None,
                   !.timeSeen = FALSE]
  BY DEF RemoveSigSharesForSession
<1> HIDE DEF f, none
<1>6. v \in Managers /\ v.nodeStates = f
  BY <1>1, <1>3, WithStates DEF ManagerInv
<1> HIDE DEF v, w
<1>7. w \in Managers
  BY <1>4, <1>5, <1>6 DEF Managers
<1>8. w.nodeStates = f
  BY <1>5, <1>6 DEF Managers
<1>9. \A c \in DOMAIN w.nodeStates : Sound(w.nodeStates[c]) /\ w.nodeStates[c].req = {}
  BY <1>2, <1>3, <1>8
<1>10. ManagerInv(w)
  BY <1>7, <1>9 DEF ManagerInv
<1>11. /\ [w EXCEPT !.recovered = TRUE] \in Managers
       /\ [w EXCEPT !.recovered = TRUE].nodeStates = w.nodeStates
       /\ [w EXCEPT !.recovered = TRUE].requested = w.requested
  BY <1>7 DEF Managers
<1>12. Recovered(m) = [w EXCEPT !.recovered = TRUE]
  BY DEF Recovered, w
<1>13. ManagerInv([w EXCEPT !.recovered = TRUE])
  BY <1>10, <1>11, SameStates
<1> QED
  BY <1>10, <1>12, <1>13 DEF w

(* A session for a node is made out of nothing or is the one it has.       *)
LEMMA GetOrCreateType ==
    ASSUME NEW s \in NodeStates
    PROVE  GetOrCreate(s) \in Sessions
<1>1. Session \in Sessions
  BY SMT DEF Session, Sessions, NoSession
<1> QED
  BY <1>1 DEF GetOrCreate, NodeStates

(* A node state with another session in place of the one it has or lacks.  *)
LEMMA WithSession ==
    ASSUME NEW s \in NodeStates, Sound(s), NEW t \in Sessions, t.recv = GetOrCreate(s).recv
    PROVE  /\ [s EXCEPT !.session = t] \in NodeStates
           /\ Sound([s EXCEPT !.session = t])
           /\ [s EXCEPT !.session = t].req = s.req
           /\ [s EXCEPT !.session = t].old = s.old
<1> DEFINE u == [s EXCEPT !.session = t]
<1>1. u \in NodeStates
  BY DEF NodeStates
<1>2. /\ u.session = t /\ u.byRecv = s.byRecv /\ u.req = s.req /\ u.old = s.old
      /\ u.banned = s.banned
  BY DEF NodeStates
<1>3. t # None
  BY SetupAssumption
<1> HIDE DEF u
<1>4. Sound(u)
  BY <1>2, <1>3 DEF Sound, GetOrCreate
<1> QED
  BY <1>1, <1>2, <1>4 DEF u

(* The peers of a member are nodes.                                        *)
LEMMA PeersType ==
    ASSUME NetInv, NEW n \in Members
    PROVE  /\ n \in Nodes /\ setup.peers[n] \subseteq Members /\ setup.peers[n] \subseteq Nodes
           /\ n \notin setup.peers[n] /\ \A p \in setup.peers[n] : n \in setup.peers[p]
           /\ QuorumNodes(n) \subseteq Nodes
BY SetupAssumption DEF NetInv, Members, QuorumNodes

(* The direct push.                                                        *)
LEMMA PushRight ==
    ASSUME NetInv, NEW n \in Members, NEW m, ManagerInv(m)
    PROVE  ManagerInv(Push(m, n))
<1> DEFINE D == DOMAIN m.nodeStates \cup QuorumNodes(n)
           T(c) == [GetOrCreate(StateOf(m, c)) EXCEPT !.requested = @ \cup {n}, !.knows = @ \cup {n}]
           U(c) == [StateOf(m, c) EXCEPT !.session = T(c)]
           f == [c \in D |-> IF c \notin QuorumNodes(n) THEN m.nodeStates[c] ELSE U(c)]
<1>1. D \in SUBSET Nodes /\ n \in Nodes
  BY StatesType, PeersType DEF ManagerInv
<1>2. \A c \in DOMAIN m.nodeStates :
          /\ m.nodeStates[c] \in NodeStates /\ Sound(m.nodeStates[c])
          /\ StateOf(m, c) = m.nodeStates[c]
  BY StatesType DEF ManagerInv, StateOf
<1>3. ASSUME NEW c \in D
      PROVE  /\ U(c) \in NodeStates /\ Sound(U(c))
             /\ U(c).req = StateOf(m, c).req /\ U(c).old = StateOf(m, c).old
  <2>1. StateOf(m, c) \in NodeStates /\ Sound(StateOf(m, c))
    BY <1>1, StateOfType
  <2>2. GetOrCreate(StateOf(m, c)) \in Sessions
    BY <2>1, GetOrCreateType
  <2>3. T(c) \in Sessions /\ T(c).recv = GetOrCreate(StateOf(m, c)).recv
    BY <1>1, <2>2 DEF Sessions
  <2> HIDE DEF T
  <2> QED
    BY <2>1, <2>3, WithSession
<1>4. Push(m, n) = [m EXCEPT !.nodeStates = f]
  BY DEF Push
<1> HIDE DEF U
<1>5. f \in [D -> NodeStates]
  BY <1>2, <1>3
<1>6. \A c \in D : /\ Sound(f[c])
                   /\ f[c].req \subseteq StateOf(m, c).req
                   /\ StateOf(m, c).old \cap f[c].req \subseteq f[c].old
  BY <1>2, <1>3
<1> HIDE DEF f, D
<1>7. ManagerInv([m EXCEPT !.nodeStates = f])
  BY <1>1, <1>5, <1>6, StatesReplaced
<1> QED
  BY <1>4, <1>7

(* ProcessSigShare for any shares.                                         *)
LEMMA ProcessRight ==
    ASSUME NetInv, NEW n \in Members, NEW m, ManagerInv(m), NEW ks \in SUBSET Nodes
    PROVE  ManagerInv(ProcessSigShares(m, n, ks))
<1> DEFINE new == ks \ m.sigShares
           q == IF setup.allConnected THEN m.queued ELSE m.queued \cup new
           m1 == [m EXCEPT !.sigShares = @ \cup ks, !.timeSeen = TRUE, !.queued = q]
           m2 == IF n \in new /\ ~setup.allConnected THEN Push(m1, n) ELSE m1
<1>1. m \in Managers /\ m.queued \in SUBSET Nodes
  BY DEF ManagerInv, Managers
<1>2. q \in SUBSET Nodes
  BY <1>1
<1>3. ManagerInv(m1)
  <2> HIDE DEF q
  <2>1. m1 \in Managers /\ m1.nodeStates = m.nodeStates /\ m1.requested = m.requested
    BY <1>1, <1>2 DEF Managers
  <2> QED
    BY <2>1, SameStates
<1>4. ManagerInv(m2)
  BY <1>3, PushRight
<1>5. ManagerInv(Recovered(m2))
  BY <1>4, RemoveRight
<1>6. \/ ProcessSigShares(m, n, ks) = m
      \/ ProcessSigShares(m, n, ks) = Recovered(m2)
      \/ ProcessSigShares(m, n, ks) = m2
  BY DEF ProcessSigShares
<1> QED
  BY <1>4, <1>5, <1>6

(* A session announcement moves the pointer to the session.                *)
LEMMA SesAnnRight ==
    ASSUME NEW m, ManagerInv(m), NEW c \in Nodes, NEW msg \in Messages
    PROVE  ManagerInv(ProcessMessageSigSesAnn(m, c, msg))
<1> DEFINE s == StateOf(m, c)
           t == GetOrCreate(s)
           b == (s.byRecv \ {t.recv, msg.id}) \cup {msg.id}
           u == [t EXCEPT !.recv = msg.id]
           r == [s EXCEPT !.byRecv = b, !.session = u]
<1>1. s \in NodeStates /\ Sound(s)
  BY StateOfType
<1>2. t \in Sessions
  BY <1>1, GetOrCreateType
<1>3. u \in Sessions /\ u.recv = msg.id /\ msg.id \in Nat
  BY <1>2 DEF Sessions, Messages
<1>4. s.byRecv \ {t.recv, msg.id} = {}
  BY <1>1 DEF Sound, GetOrCreate
<1>5. b = {msg.id}
  BY <1>4
<1>6. u # None
  BY <1>3, SetupAssumption
<1> HIDE DEF s, t, b, u
<1>7. r \in NodeStates /\ r.byRecv = b /\ r.session = u /\ r.req = s.req /\ r.old = s.old
      /\ r.banned = s.banned
  BY <1>1, <1>3, <1>5 DEF NodeStates
<1> HIDE DEF r
<1>8. Sound(r)
  BY <1>1, <1>3, <1>5, <1>6, <1>7 DEF Sound, t, GetOrCreate
<1>9. ManagerInv(Put(m, c, r))
  BY <1>7, <1>8, PutRight DEF s
<1> QED
  BY <1>9 DEF ProcessMessageSigSesAnn, r, u, b, t, s

(* An announcement or a request of shares, for a session that exists.      *)
LEMMA InvRight ==
    ASSUME NEW m, ManagerInv(m), NEW c \in Nodes, NEW msg \in Messages
    PROVE  /\ ManagerInv(ProcessMessageSigSharesInv(m, c, msg))
           /\ ManagerInv(ProcessMessageGetSigShares(m, c, msg))
<1> DEFINE s == StateOf(m, c)
           t == s.session
           ta == [t EXCEPT !.announced = @ \cup msg.shares, !.knows = @ \cup msg.shares]
           tr == [t EXCEPT !.requested = @ \cup msg.shares, !.knows = @ \cup msg.shares]
<1>1. s \in NodeStates /\ Sound(s)
  BY StateOfType
<1>2. CASE msg.id \notin s.byRecv \/ m.recovered
  BY <1>2 DEF ProcessMessageSigSharesInv, ProcessMessageGetSigShares
<1>3. CASE ~(msg.id \notin s.byRecv \/ m.recovered)
  <2>1. t # None
    BY <1>1, <1>3 DEF Sound
  <2>2. t \in Sessions /\ GetOrCreate(s) = t
    BY <1>1, <2>1 DEF NodeStates, GetOrCreate
  <2> HIDE DEF t
  <2>3. /\ ta \in Sessions /\ ta.recv = t.recv
        /\ tr \in Sessions /\ tr.recv = t.recv
    BY <2>2 DEF Sessions, Messages
  <2> HIDE DEF s, ta, tr
  <2>4. /\ ManagerInv(Put(m, c, [s EXCEPT !.session = ta]))
        /\ ManagerInv(Put(m, c, [s EXCEPT !.session = tr]))
    <3>1. \A x \in Sessions : x.recv = t.recv =>
              /\ [s EXCEPT !.session = x] \in NodeStates /\ Sound([s EXCEPT !.session = x])
              /\ [s EXCEPT !.session = x].req = s.req /\ [s EXCEPT !.session = x].old = s.old
      BY <1>1, <2>2, WithSession
    <3>2. \A x \in Sessions : x.recv = t.recv => ManagerInv(Put(m, c, [s EXCEPT !.session = x]))
      <4> TAKE x \in Sessions
      <4> HAVE x.recv = t.recv
      <4> DEFINE u == [s EXCEPT !.session = x]
      <4>1. u \in NodeStates /\ Sound(u) /\ u.req = s.req /\ u.old = s.old
        BY <3>1
      <4> HIDE DEF u
      <4>2. ManagerInv(Put(m, c, u))
        BY <4>1, PutRight DEF s
      <4> QED
        BY <4>2 DEF u
    <3> QED
      BY <2>3, <3>2
  <2>5. /\ ProcessMessageSigSharesInv(m, c, msg) = Put(m, c, [s EXCEPT !.session = ta])
        /\ ProcessMessageGetSigShares(m, c, msg) = Put(m, c, [s EXCEPT !.session = tr])
    BY <1>3 DEF ProcessMessageSigSharesInv, ProcessMessageGetSigShares, s, t, ta, tr
  <2> QED
    BY <2>4, <2>5
<1> QED
  BY <1>2, <1>3

(* Shares to be verified.                                                  *)
LEMMA PendingRight ==
    ASSUME NEW m, ManagerInv(m), NEW c \in Nodes, NEW ks \in SUBSET Nodes
    PROVE  ManagerInv(AddPending(m, c, ks))
<1> DEFINE s == StateOf(m, c)
           r == [s EXCEPT !.pending = @ \cup ks]
<1>1. s \in NodeStates /\ Sound(s)
  BY StateOfType
<1> HIDE DEF s
<1>2. /\ r \in NodeStates /\ r.byRecv = s.byRecv /\ r.session = s.session
      /\ r.req = s.req /\ r.old = s.old /\ r.banned = s.banned
  BY <1>1 DEF NodeStates
<1> HIDE DEF r
<1>3. Sound(r)
  BY <1>1, <1>2 DEF Sound
<1>4. ManagerInv(Put(m, c, r))
  BY <1>2, <1>3, PutRight DEF s
<1> QED
  BY <1>4 DEF AddPending, r, s

(* A batch of shares: what was requested is no longer.                     *)
LEMMA BatchedRight ==
    ASSUME NEW m, ManagerInv(m), NEW c \in Nodes, NEW msg \in Messages
    PROVE  ManagerInv(ProcessMessageBatchedSigShares(m, c, msg))
<1> DEFINE s == StateOf(m, c)
           r == [s EXCEPT !.req = @ \ msg.shares, !.old = @ \ msg.shares]
           h == IF m.recovered \/ msg.shares \subseteq m.sigShares THEN None
                ELSE [from |-> c, shares |-> msg.shares \ m.sigShares]
           p == Put(m, c, r)
           w == [p EXCEPT !.hand = h]
<1>1. s \in NodeStates /\ Sound(s)
  BY StateOfType
<1> HIDE DEF s
<1>2. /\ r \in NodeStates /\ r.byRecv = s.byRecv /\ r.session = s.session
      /\ r.req = s.req \ msg.shares /\ r.old = s.old \ msg.shares /\ r.banned = s.banned
  BY <1>1 DEF NodeStates
<1> HIDE DEF r
<1>3. Sound(r)
  BY <1>1, <1>2 DEF Sound
<1>4. ManagerInv(p)
  BY <1>2, <1>3, PutRight DEF s
<1>5. h \in Hands \cup {None}
  BY DEF Hands, Messages
<1> HIDE DEF p, h
<1>6. w \in Managers /\ w.nodeStates = p.nodeStates /\ w.requested = p.requested
  BY <1>4, <1>5 DEF ManagerInv, Managers
<1> HIDE DEF w
<1>7. ManagerInv(w)
  BY <1>4, <1>6, SameStates
<1>8. ProcessMessageBatchedSigShares(m, c, msg) \in {m, w}
  BY DEF ProcessMessageBatchedSigShares, w, h, p, r, s
<1> QED
  BY <1>7, <1>8

(* A step changes one manager, which stays right, and leaves right         *)
(* messages on the way.                                                    *)
LEMMA OneManager ==
    ASSUME IndInv, NEW n \in Members, NEW w, ManagerInv(w), mgr' = [mgr EXCEPT ![n] = w],
           setup' = setup, NetInv'
    PROVE  IndInv'
BY DEF IndInv, Members

(* The messages are unchanged.                                             *)
LEMMA SameNet ==
    ASSUME NetInv, UNCHANGED <<setup, msgs>>
    PROVE  NetInv'
BY DEF NetInv, Members

(* Any message.                                                            *)
LEMMA MessageKeeps ==
    ASSUME IndInv, NEW n \in Members, NEW p \in setup.peers[n], ProcessMessage(n, p)
    PROVE  IndInv'
<1> DEFINE msg == Head(msgs[p][n])
           m == mgr[n]
           w == CASE msg.type = "ann"   -> ProcessMessageSigSesAnn(m, p, msg)
                  [] msg.type = "inv"   -> ProcessMessageSigSharesInv(m, p, msg)
                  [] msg.type = "get"   -> ProcessMessageGetSigShares(m, p, msg)
                  [] msg.type = "batch" -> ProcessMessageBatchedSigShares(m, p, msg)
                  [] msg.type = "share" -> ProcessMessageSigShare(m, p, msg)
<1>1. NetInv /\ ManagerInv(m) /\ p \in Members /\ p \in Nodes /\ n \in setup.peers[p]
  BY PeersType DEF IndInv
<1>2. msgs[p] \in [setup.peers[p] -> Seq(Messages)] /\ msgs[p][n] \in Seq(Messages)
  BY <1>1 DEF NetInv
<1>3. msg \in Messages /\ Tail(msgs[p][n]) \in Seq(Messages)
  BY <1>2, SMT DEF ProcessMessage
<1>4. msgs' = [msgs EXCEPT ![p][n] = Tail(@)] /\ setup' = setup
  BY DEF ProcessMessage, netVars
<1>5. NetInv'
  <2>1. DOMAIN msgs' = Members' /\ Members' = Members
    BY <1>1, <1>4 DEF NetInv, Members
  <2>2. ASSUME NEW x \in Members
        PROVE  msgs'[x] \in [setup.peers[x] -> Seq(Messages)]
    <3>1. CASE x = p
      <4>1. msgs'[p] = [msgs[p] EXCEPT ![n] = Tail(@)]
        BY <1>1, <1>4 DEF NetInv
      <4> QED
        BY <1>2, <1>3, <3>1, <4>1
    <3>2. CASE x # p
      BY <1>1, <1>4, <3>2 DEF NetInv
    <3> QED
      BY <3>1, <3>2
  <2> QED
    BY <1>1, <1>4, <2>1, <2>2 DEF NetInv
<1>6. ManagerInv(w)
  <2>1. msg.type \in {"ann", "inv", "get", "batch", "share"} /\ msg.shares \in SUBSET Nodes
    BY <1>3 DEF Messages
  <2>2. ManagerInv(ProcessMessageSigShare(m, p, msg))
    BY <1>1, <2>1, PendingRight DEF ProcessMessageSigShare
  <2> HIDE DEF m, msg
  <2>3. CASE msg.type = "ann"
    BY <1>1, <1>3, <2>3, SesAnnRight
  <2>4. CASE msg.type = "inv"
    BY <1>1, <1>3, <2>4, InvRight
  <2>5. CASE msg.type = "get"
    BY <1>1, <1>3, <2>5, InvRight
  <2>6. CASE msg.type = "batch"
    BY <1>1, <1>3, <2>6, BatchedRight
  <2>7. CASE msg.type = "share"
    BY <2>2, <2>7
  <2> QED
    BY <2>1, <2>3, <2>4, <2>5, <2>6, <2>7
<1>7. mgr' = [mgr EXCEPT ![n] = w]
  BY DEF ProcessMessage
<1> HIDE DEF w
<1> QED
  BY <1>4, <1>5, <1>6, <1>7, OneManager

(* The shares of a batch reach pendingIncomingSigShares.                   *)
LEMMA AddToPendingKeeps ==
    ASSUME IndInv, NEW n \in Members, AddToPending(n)
    PROVE  IndInv'
<1> DEFINE m == mgr[n]
           a == AddPending(m, m.hand.from, m.hand.shares)
           w == [a EXCEPT !.hand = None]
<1>1. NetInv /\ ManagerInv(m)
  BY DEF IndInv
<1>2. m.hand.from \in Nodes /\ m.hand.shares \in SUBSET Nodes
  BY <1>1 DEF AddToPending, ManagerInv, Managers, Hands
<1>3. ManagerInv(a)
  BY <1>1, <1>2, PendingRight
<1> HIDE DEF a
<1>4. w \in Managers /\ w.nodeStates = a.nodeStates /\ w.requested = a.requested
  BY <1>3 DEF ManagerInv, Managers
<1> HIDE DEF w
<1>5. ManagerInv(w)
  BY <1>3, <1>4, SameStates
<1>6. mgr' = [mgr EXCEPT ![n] = w] /\ UNCHANGED <<setup, msgs>>
  BY DEF AddToPending, netVars, w, a
<1> QED
  BY <1>1, <1>5, <1>6, OneManager, SameNet

(* The pending shares are taken; nodes that sent bad ones are banned.      *)
LEMMA PendingKeeps ==
    ASSUME IndInv, NEW n \in Members, ProcessPendingSigShares(n)
    PROVE  IndInv'
<1> DEFINE m == mgr[n]
           D == DOMAIN m.nodeStates
           taken == {y \in D \X Nodes : y[2] \in m.nodeStates[y[1]].pending \ m.sigShares}
           bad == IF m.recovered THEN {} ELSE {x[1] : x \in {y \in taken : y[2] \in setup.faulty}}
           f == [c \in D |-> [m.nodeStates[c] EXCEPT !.pending = {}]]
           m1 == [m EXCEPT !.nodeStates = f]
           ks == {x[2] : x \in {y \in taken : y[1] \notin bad}}
           w == ProcessSigShares(BanNode(m1, bad), n, ks)
<1>1. NetInv /\ ManagerInv(m)
  BY DEF IndInv
<1>2. D \in SUBSET Nodes
  BY <1>1, StatesType DEF ManagerInv
<1>3. ks \in SUBSET Nodes
  OBVIOUS
<1>4. bad \in SUBSET Nodes
  BY <1>2
<1>5. ASSUME NEW c \in D
      PROVE  /\ f[c] \in NodeStates /\ Sound(f[c])
             /\ f[c].req = StateOf(m, c).req /\ f[c].old = StateOf(m, c).old
  <2> DEFINE s == m.nodeStates[c]
             r == [s EXCEPT !.pending = {}]
  <2>1. s \in NodeStates /\ Sound(s) /\ StateOf(m, c) = s
    BY <1>1, StatesType DEF ManagerInv, StateOf
  <2> HIDE DEF s
  <2>2. /\ r \in NodeStates /\ r.byRecv = s.byRecv /\ r.session = s.session
        /\ r.req = s.req /\ r.old = s.old /\ r.banned = s.banned
    BY <2>1 DEF NodeStates
  <2> HIDE DEF r
  <2>3. Sound(r)
    BY <2>1, <2>2 DEF Sound
  <2>4. f[c] = r
    BY DEF r, s
  <2> QED
    BY <2>1, <2>2, <2>3, <2>4
<1>6. f \in [D -> NodeStates]
  BY <1>5
<1> HIDE DEF f, bad, ks
<1>7. ManagerInv(m1)
  BY <1>1, <1>2, <1>5, <1>6, StatesReplaced
<1> HIDE DEF m1
<1>8. ManagerInv(w)
  BY <1>1, <1>3, <1>4, <1>7, BanRight, ProcessRight
<1> HIDE DEF w
<1>9. mgr' = [mgr EXCEPT ![n] = w] /\ UNCHANGED <<setup, msgs>>
  BY DEF ProcessPendingSigShares, netVars, w, m1, bad, ks, f
<1> QED
  BY <1>1, <1>8, <1>9, OneManager, SameNet

(* A member makes its own share.                                           *)
LEMMA SignKeeps ==
    ASSUME IndInv, NEW n \in Members, SignPendingSigShares(n)
    PROVE  IndInv'
<1> DEFINE m == mgr[n]
           m1 == [m EXCEPT !.pendingSigns = FALSE]
           a == ProcessSigShares(m1, n, {n})
           g == IF setup.allConnected THEN 0 ELSE a.signed
           w == [a EXCEPT !.signed = g]
<1>1. NetInv /\ ManagerInv(m) /\ {n} \in SUBSET Nodes
  BY PeersType DEF IndInv
<1>2. m1 \in Managers /\ m1.nodeStates = m.nodeStates /\ m1.requested = m.requested
  BY <1>1 DEF ManagerInv, Managers
<1> HIDE DEF m1
<1>3. ManagerInv(m1)
  BY <1>1, <1>2, SameStates
<1>4. ManagerInv(a)
  BY <1>1, <1>3, ProcessRight
<1> HIDE DEF a
<1>5. g \in Nat \cup {None}
  BY <1>4, SMT DEF ManagerInv, Managers
<1> HIDE DEF g
<1>6. w \in Managers /\ w.nodeStates = a.nodeStates /\ w.requested = a.requested
  BY <1>4, <1>5 DEF ManagerInv, Managers
<1> HIDE DEF w
<1>7. ManagerInv(w)
  BY <1>4, <1>6, SameStates
<1>8. mgr' = [mgr EXCEPT ![n] = w] /\ UNCHANGED <<setup, msgs>>
  BY DEF SignPendingSigShares, netVars, w, g, a, m1
<1> QED
  BY <1>1, <1>7, <1>8, OneManager, SameNet

(* The recovered signature arrives, or the session times out.              *)
LEMMA RemoveKeeps ==
    ASSUME IndInv, NEW n \in Members, ReceiveRecoveredSig(n) \/ SessionTimesOut(n)
    PROVE  IndInv'
<1>1. NetInv /\ ManagerInv(mgr[n])
  BY DEF IndInv
<1>2. \E w \in {RemoveSigSharesForSession(mgr[n]), Recovered(mgr[n])} : mgr' = [mgr EXCEPT ![n] = w]
  BY DEF ReceiveRecoveredSig, SessionTimesOut
<1>3. UNCHANGED <<setup, msgs>>
  BY DEF ReceiveRecoveredSig, SessionTimesOut, netVars, Fault
<1> QED
  BY <1>1, <1>2, <1>3, RemoveRight, OneManager, SameNet

(* Nodes disappear, and the node of a request that timed out with them.    *)
LEMMA CleanupKeeps ==
    ASSUME IndInv, NEW n \in Members, CleanupNodeStates(n)
    PROVE  IndInv'
<1> DEFINE gone == DOMAIN mgr[n].nodeStates \ QuorumNodes(n)
           m == DropNodeState(mgr[n], gone)
           r == [k \in Nodes |->
                    IF m.requested[k] # None /\ m.requested[k].from \in gone
                    THEN [m.requested[k] EXCEPT !.from = None] ELSE m.requested[k]]
           w == [m EXCEPT !.requested = r]
<1>1. NetInv /\ ManagerInv(mgr[n])
  BY DEF IndInv
<1>2. ManagerInv(m)
  BY <1>1, DropRight
<1>3. DOMAIN m.nodeStates \cap gone = {}
  <2> DEFINE g == ForgetRequests(mgr[n], gone)
  <2>1. g \in Managers
    BY <1>1, ForgetType DEF ManagerInv
  <2>2. m = [g EXCEPT !.nodeStates = [d \in DOMAIN g.nodeStates \ gone |-> g.nodeStates[d]]]
    BY DEF DropNodeState
  <2> HIDE DEF m, g, gone
  <2>3. m.nodeStates = [d \in DOMAIN g.nodeStates \ gone |-> g.nodeStates[d]]
    BY <2>1, <2>2 DEF Managers
  <2> QED
    BY <2>3
<1>4. mgr' = [mgr EXCEPT ![n] = w] /\ UNCHANGED <<setup, msgs>>
  BY DEF CleanupNodeStates, netVars
<1> HIDE DEF m, gone
<1>5. r \in [Nodes -> Requests \cup {None}]
  <2> SUFFICES ASSUME NEW k \in Nodes PROVE r[k] \in Requests \cup {None}
    OBVIOUS
  <2>1. m.requested[k] \in Requests \cup {None}
    BY <1>2 DEF ManagerInv, Managers
  <2> QED
    BY <2>1 DEF Requests
<1>6. w \in Managers /\ w.nodeStates = m.nodeStates /\ w.requested = r
  <2> HIDE DEF r
  <2> QED
    BY <1>2, <1>5 DEF ManagerInv, Managers
<1> HIDE DEF w
<1>7. ASSUME NEW c \in DOMAIN m.nodeStates, NEW k \in m.nodeStates[c].req
      PROVE  Own(w, c, k)
  <2>1. Own(m, c, k) /\ k \in Nodes
    BY <1>2, StatesType DEF ManagerInv, NodeStates
  <2>2. r[k] = m.requested[k]
    BY <1>3, <2>1 DEF Own
  <2> HIDE DEF r
  <2> QED
    BY <1>6, <2>1, <2>2 DEF Own
<1>8. ManagerInv(w)
  <2> HIDE DEF r
  <2> QED
    BY <1>2, <1>6, <1>7 DEF ManagerInv
<1> QED
  BY <1>1, <1>4, <1>8, OneManager, SameNet

(* The states of banned nodes are dropped.                                 *)
LEMMA BannedKeeps ==
    ASSUME IndInv, NEW n \in Members, RemoveBannedNodeStates(n)
    PROVE  IndInv'
<1>1. NetInv /\ ManagerInv(mgr[n])
  BY DEF IndInv
<1>2. /\ mgr' = [mgr EXCEPT ![n] =
             DropNodeState(mgr[n], DOMAIN mgr[n].nodeStates \cap mgr[n].misbehaved)]
      /\ UNCHANGED <<setup, msgs>>
  BY DEF RemoveBannedNodeStates, netVars
<1>3. ManagerInv(DropNodeState(mgr[n], DOMAIN mgr[n].nodeStates \cap mgr[n].misbehaved))
  BY <1>1, DropRight
<1> QED
  BY <1>1, <1>2, <1>3, OneManager, SameNet

(* ForceReAnnouncement touches no request and no pointer.                  *)
LEMMA ForceRight ==
    ASSUME NEW m, ManagerInv(m)
    PROVE  ManagerInv(ForceReAnnouncement(m)) /\ ForceReAnnouncement(m).recovered = m.recovered
<1> DEFINE D == DOMAIN m.nodeStates
           f == [c \in D |-> IF m.nodeStates[c].session = None THEN m.nodeStates[c]
                             ELSE [m.nodeStates[c] EXCEPT !.session.knows = {},
                                                          !.session.send = NoSession]]
           q == m.queued \cup m.sigShares
           m1 == [m EXCEPT !.queued = q]
           w == [m1 EXCEPT !.nodeStates = f]
<1>1. q \in SUBSET Nodes /\ D \in SUBSET Nodes
  BY StatesType DEF ManagerInv, Managers
<1>2. ASSUME NEW c \in D
      PROVE  /\ f[c] \in NodeStates /\ Sound(f[c])
             /\ f[c].req = m.nodeStates[c].req /\ f[c].old = m.nodeStates[c].old
  <2> DEFINE s == m.nodeStates[c]
             t == [s.session EXCEPT !.knows = {}, !.send = NoSession]
             r == [s EXCEPT !.session = t]
  <2>1. s \in NodeStates /\ Sound(s)
    BY StatesType DEF ManagerInv
  <2>2. CASE s.session = None
    BY <2>1, <2>2
  <2>3. CASE s.session # None
    <3>1. f[c] = [s EXCEPT !.session.knows = {}, !.session.send = NoSession]
      BY <2>3
    <3> HIDE DEF s
    <3>2. s.session \in Sessions
      BY <2>1, <2>3 DEF NodeStates
    <3>3. 0 \in Nat
      BY SMT
    <3>4. t \in Sessions /\ t.recv = s.session.recv
      BY <3>2, <3>3 DEF Sessions, NoSession
    <3>5. [s EXCEPT !.session.knows = {}, !.session.send = NoSession] = r
      BY <2>1, <3>2 DEF NodeStates, Sessions
    <3>6. GetOrCreate(s).recv = s.session.recv
      BY <2>3 DEF GetOrCreate
    <3> HIDE DEF t
    <3>7. r \in NodeStates /\ Sound(r) /\ r.req = s.req /\ r.old = s.old
      BY <2>1, <3>4, <3>6, WithSession
    <3> HIDE DEF r, f
    <3> QED
      BY <3>1, <3>5, <3>7 DEF s
  <2> QED
    BY <2>2, <2>3
<1>3. f \in [D -> NodeStates]
  BY <1>2
<1>4. ForceReAnnouncement(m) \in {m, w}
  BY DEF ForceReAnnouncement
<1> HIDE DEF f, q
<1>5. /\ m1 \in Managers /\ m1.nodeStates = m.nodeStates /\ m1.requested = m.requested
      /\ m1.recovered = m.recovered
  BY <1>1 DEF ManagerInv, Managers
<1> HIDE DEF m1
<1>6. ManagerInv(m1)
  BY <1>5, SameStates
<1>7. \A c \in D : /\ Sound(f[c]) /\ f[c].req \subseteq StateOf(m1, c).req
                   /\ StateOf(m1, c).old \cap f[c].req \subseteq f[c].old
  BY <1>2, <1>5 DEF StateOf
<1> HIDE DEF D
<1>8. ManagerInv(w)
  BY <1>1, <1>3, <1>6, <1>7, StatesReplaced
<1>9. w.recovered = m.recovered
  BY <1>5 DEF Managers
<1> QED
  BY <1>4, <1>8, <1>9

(* A member is asked to sign again.                                        *)
LEMMA AsyncSignKeeps ==
    ASSUME IndInv, NEW n \in Members, AsyncSignIfMember(n)
    PROVE  IndInv'
<1> DEFINE m == mgr[n]
           a == ForceReAnnouncement(m)
           b == [a EXCEPT !.pendingSigns = TRUE]
           w == IF m.recovered THEN m ELSE b
<1>1. NetInv /\ ManagerInv(m)
  BY DEF IndInv
<1>2. ManagerInv(a)
  BY <1>1, ForceRight
<1>3. mgr' = [mgr EXCEPT ![n] = w] /\ UNCHANGED <<setup, msgs>>
  BY DEF AsyncSignIfMember
<1> HIDE DEF a
<1>4. b \in Managers /\ b.nodeStates = a.nodeStates /\ b.requested = a.requested
  BY <1>2 DEF ManagerInv, Managers
<1> HIDE DEF b
<1>5. ManagerInv(w)
  BY <1>1, <1>2, <1>4, SameStates
<1> HIDE DEF w
<1> QED
  BY <1>1, <1>3, <1>5, OneManager, SameNet

(* All requests time out together.                                         *)
LEMMA TimeOutKeeps ==
    ASSUME IndInv, NEW n \in Members, RequestsTimeOut(n)
    PROVE  IndInv'
<1> DEFINE m == mgr[n]
           D == DOMAIN m.nodeStates
           f == [c \in D |-> [m.nodeStates[c] EXCEPT !.old = m.nodeStates[c].req]]
           r == [k \in Nodes |-> IF m.requested[k] = None THEN None
                                 ELSE [m.requested[k] EXCEPT !.old = TRUE]]
           v == [m EXCEPT !.nodeStates = f]
           w == [v EXCEPT !.requested = r]
<1>1. NetInv /\ ManagerInv(m) /\ m \in Managers
  BY DEF IndInv, ManagerInv
<1>2. D \in SUBSET Nodes /\ \A c \in D : m.nodeStates[c] \in NodeStates /\ Sound(m.nodeStates[c])
  BY <1>1, StatesType DEF ManagerInv
<1>3. ASSUME NEW c \in D
      PROVE  /\ f[c] \in NodeStates /\ Sound(f[c])
             /\ f[c].req = m.nodeStates[c].req /\ f[c].old = m.nodeStates[c].req
  <2> DEFINE s == m.nodeStates[c]
             x == [s EXCEPT !.old = s.req]
  <2>1. s \in NodeStates /\ Sound(s)
    BY <1>2
  <2>2. f[c] = x
    OBVIOUS
  <2> HIDE DEF s
  <2>3. /\ x \in NodeStates /\ x.byRecv = s.byRecv /\ x.session = s.session
        /\ x.req = s.req /\ x.old = s.req /\ x.banned = s.banned
    BY <2>1 DEF NodeStates
  <2> HIDE DEF x, f
  <2>4. Sound(x)
    BY <2>1, <2>3 DEF Sound
  <2> QED
    BY <2>2, <2>3, <2>4 DEF s
<1>4. f \in [D -> NodeStates]
  BY <1>3
<1>5. ASSUME NEW k \in Nodes
      PROVE  /\ r[k] \in Requests \cup {None}
             /\ m.requested[k] # None => r[k] # None /\ r[k].from = m.requested[k].from
  <2> DEFINE q == m.requested[k]
             x == [q EXCEPT !.old = TRUE]
  <2>1. q \in Requests \cup {None}
    BY <1>1 DEF Managers
  <2>2. r[k] = IF q = None THEN None ELSE x
    OBVIOUS
  <2> HIDE DEF q, r
  <2>3. q # None => x \in Requests /\ x.from = q.from
    BY <2>1 DEF Requests
  <2>4. None \notin Requests
    BY SetupAssumption
  <2> HIDE DEF x
  <2> QED
    BY <2>1, <2>2, <2>3, <2>4 DEF q
<1>6. r \in [Nodes -> Requests \cup {None}]
  BY <1>5
<1>7. mgr' = [mgr EXCEPT ![n] = w] /\ UNCHANGED <<setup, msgs>>
  BY DEF RequestsTimeOut, netVars
<1> HIDE DEF f, r
<1>8. v \in Managers /\ v.nodeStates = f
  BY <1>1, <1>2, <1>4, WithStates
<1> HIDE DEF v
<1>9. w \in Managers /\ w.nodeStates = f /\ w.requested = r
  BY <1>6, <1>8 DEF Managers
<1> HIDE DEF w
<1>10. ASSUME NEW c \in D, NEW k \in f[c].req
       PROVE  Own(w, c, k)
  <2>1. k \in m.nodeStates[c].req /\ k \in f[c].old
    BY <1>3, <1>10
  <2>2. k \in Nodes
    BY <1>2, <2>1 DEF NodeStates
  <2>3. m.requested[k] # None /\ m.requested[k].from = c
    BY <1>1, <2>1 DEF ManagerInv, Own
  <2> QED
    BY <1>5, <1>9, <2>1, <2>2, <2>3 DEF Own
<1>11. DOMAIN w.nodeStates = D
  BY <1>4, <1>9
<1>12. ManagerInv(w)
  BY <1>3, <1>9, <1>10, <1>11 DEF ManagerInv
<1> QED
  BY <1>1, <1>7, <1>12, OneManager, SameNet

(* A connection breaks or is made again.                                   *)
LEMMA LinksKeep ==
    ASSUME IndInv, UNCHANGED <<setup, mgr>>, NEW l, Break(l) \/ UNCHANGED msgs
    PROVE  IndInv'
<1>1. Members' = Members
  BY DEF Members
<1>2. NetInv'
  <2>1. CASE UNCHANGED msgs
    BY <2>1, SameNet DEF IndInv
  <2>2. CASE Break(l)
    <3>1. msgs' = [n \in Members |-> [p \in setup.peers[n] |-> IF {n, p} = l THEN <<>> ELSE msgs[n][p]]]
      BY <2>2 DEF Break
    <3>2. <<>> \in Seq(Messages)
      BY SMT
    <3>3. \A n \in Members : \A p \in setup.peers[n] : msgs[n][p] \in Seq(Messages)
      BY DEF IndInv, NetInv
    <3>4. \A n \in Members : msgs'[n] \in [setup.peers[n] -> Seq(Messages)]
      BY <3>1, <3>2, <3>3
    <3> QED
      BY <1>1, <3>1, <3>4 DEF IndInv, NetInv
  <2> QED
    BY <2>1, <2>2
<1> QED
  BY <1>1, <1>2 DEF IndInv
-----------------------------------------------------------------------------
(* A set of numbers has a least one.                                       *)
LEMMA LeastNumber ==
    ASSUME NEW S \in SUBSET Nat, S # {}
    PROVE  \E m \in S : \A n \in S : m <= n
<1>1. IsWellFoundedOn(OpToRel(<, Nat), Nat)
    BY NatLessThanWellFounded
<1>2. PICK m \in S : \A n \in S : ~(<<n, m>> \in OpToRel(<, Nat))
    BY <1>1, WFMin
<1>3. ASSUME NEW n \in S PROVE m <= n
    <2>1. n < m => <<n, m>> \in {p \in Nat \X Nat : p[1] < p[2]}
        OBVIOUS
    <2> QED BY SMT, <1>2, <2>1 DEF OpToRel
<1> QED BY <1>3

(* The requests after each of the announcements of a visit: g[i] after the *)
(* first i.                                                                *)
Nothing == [get |-> {}, done |-> {}, full |-> {}]
IsRun(g, m, v, j) ==
    /\ g = [i \in 0..j |-> g[i]]
    /\ g[0] = Nothing
    /\ \A i \in 1..j : g[i] = RequestShare(m, g[i - 1], v[i][1], v[i][2])

(* There is such a run for every visit.                                    *)
LEMMA RunExists ==
    ASSUME NEW m, NEW v, NEW j \in Nat
    PROVE  \E g : IsRun(g, m, v, j)
<1> DEFINE Bad == {x \in Nat : ~ \E g : IsRun(g, m, v, x)}
<1>1. SUFFICES ASSUME Bad # {} PROVE FALSE
  OBVIOUS
<1>2. PICK x \in Bad : \A y \in Bad : x <= y
  BY <1>1, LeastNumber
<1>3. CASE x = 0
  <2> DEFINE g == [i \in 0..0 |-> Nothing]
  <2>1. IsRun(g, m, v, 0)
    <3> HIDE DEF Nothing
    <3>1. 0 \in 0..0 /\ 1..0 = {}
      BY SMT
    <3> QED
      BY <3>1 DEF IsRun
  <2> QED
    BY <1>3, <2>1
<1>4. CASE x # 0
  <2>1. x \in Nat /\ x - 1 \in Nat /\ ~(x <= x - 1)
    BY <1>4, SMT
  <2>2. PICK g : IsRun(g, m, v, x - 1)
    BY <1>2, <2>1
  <2> DEFINE next == RequestShare(m, g[x - 1], v[x][1], v[x][2])
             h == [i \in 0..x |-> IF i = x THEN next ELSE g[i]]
  <2> HIDE DEF next
  <2>3. /\ 0 \in 0..x /\ 0 # x /\ x \in 0..x
        /\ \A i \in 1..x : i \in 0..x /\ i - 1 \in 0..x /\ i - 1 # x
        /\ \A i \in 1..x : i # x => i \in 1..(x - 1)
    BY <1>4, <2>1, SMT
  <2>4. h[0] = Nothing
    BY <2>2, <2>3 DEF IsRun
  <2>5. ASSUME NEW i \in 1..x
        PROVE  h[i] = RequestShare(m, h[i - 1], v[i][1], v[i][2])
    <3>1. h[i - 1] = g[i - 1]
      BY <2>3
    <3>2. CASE i = x
      BY <2>3, <3>1, <3>2 DEF next
    <3>3. CASE i # x
      BY <2>2, <2>3, <3>1, <3>3 DEF IsRun
    <3> QED
      BY <3>2, <3>3
  <2>6. h = [i \in 0..x |-> h[i]]
    OBVIOUS
  <2> HIDE DEF h
  <2>7. IsRun(h, m, v, x)
    BY <2>4, <2>5, <2>6 DEF IsRun
  <2> QED
    BY <2>7
<1> QED
  BY <1>3, <1>4

(* CollectSigSharesToRequest ends with such a run.                         *)
LEMMA CollectRuns ==
    ASSUME NEW m, NEW v, Len(v) \in Nat
    PROVE  \E g : IsRun(g, m, v, Len(v)) /\ CollectSigSharesToRequest(m, v) = g[Len(v)]
<1> DEFINE n == Len(v)
           F(g) == [i \in 0..n |-> IF i = 0 THEN [get |-> {}, done |-> {}, full |-> {}]
                                   ELSE RequestShare(m, g[i - 1], v[i][1], v[i][2])]
           seen == CHOOSE g : g = F(g)
<1>1. CollectSigSharesToRequest(m, v) = seen[n]
  BY DEF CollectSigSharesToRequest
<1>2. PICK g : IsRun(g, m, v, n)
  BY RunExists
<1>3. 0 \in 0..n /\ \A i \in 0..n : i # 0 => i \in 1..n
  BY SMT
<1>4. \A i \in 0..n : g[i] = F(g)[i]
  BY <1>2, <1>3 DEF IsRun, Nothing
<1>5. g = F(g)
  BY <1>2, <1>4 DEF IsRun
<1>6. seen = F(seen)
  BY <1>5
<1> HIDE DEF seen
<1>7. \A i \in 1..n : i \in 0..n /\ i # 0
  BY SMT
<1>8. IsRun(seen, m, v, n)
  <2>1. seen = [i \in 0..n |-> seen[i]]
    BY <1>6
  <2>2. seen[0] = Nothing
    BY <1>3, <1>6 DEF Nothing
  <2>3. \A i \in 1..n : seen[i] = RequestShare(m, seen[i - 1], v[i][1], v[i][2])
    BY <1>6, <1>7
  <2> QED
    BY <2>1, <2>2, <2>3 DEF IsRun
<1> QED
  BY <1>1, <1>8

(* x.get are announced shares, one request for each, and only of shares    *)
(* that are not requested or whose request to another node is old; x.done  *)
(* are those and announcements of shares that m has.                       *)
Fresh(m, g) ==
    LET r == m.requested[g[2]] IN r = None \/ (r.old /\ r.from # g[1])
Chosen(m, x) ==
    /\ x \in [get : SUBSET Announcements(m), done : SUBSET Announcements(m), full : SUBSET Nodes]
    /\ \A g \in x.get : Fresh(m, g)
    /\ \A g, h \in x.get : g[2] = h[2] => g = h
    /\ \A d \in x.done : d \in x.get \/ d[2] \in m.sigShares

(* One share more.                                                         *)
LEMMA RequestOne ==
    ASSUME NEW m \in Managers, NEW x, Chosen(m, x), NEW a \in Announcements(m)
    PROVE  Chosen(m, RequestShare(m, x, a[1], a[2]))
<1> DEFINE c == a[1]
           k == a[2]
           A == Announcements(m)
           X == [get : SUBSET A, done : SUBSET A, full : SUBSET Nodes]
           r == m.requested[k]
           x1 == [x EXCEPT !.done = @ \cup {<<c, k>>}]
           x2 == [x EXCEPT !.full = @ \cup {c}]
           x3 == [x EXCEPT !.get = @ \cup {<<c, k>>}, !.done = @ \cup {<<c, k>>}]
           met == (\E g \in x.get : g[2] = k) \/ (r # None /\ ~(r.old /\ r.from # c))
<1>1. a = <<c, k>> /\ c \in Nodes
  <2>1. a \in (DOMAIN m.nodeStates) \X Members
    BY DEF Announcements
  <2>2. a = <<a[1], a[2]>> /\ a[1] \in DOMAIN m.nodeStates
    BY <2>1, SMT
  <2> QED
    BY <2>2, StatesType
<1> DEFINE y == RequestShare(m, x, c, k)
<1>2. y = x \/ (y = x1 /\ k \in m.sigShares) \/ y = x2 \/ (y = x3 /\ ~met)
  BY DEF RequestShare
<1>3. x \in X /\ a \in A
  BY DEF Chosen
<1> HIDE DEF A, c, k, y, met
<1>4. /\ x1 \in X /\ x1.get = x.get /\ x1.done = x.done \cup {a}
      /\ x2 \in X /\ x2.get = x.get /\ x2.done = x.done
      /\ x3 \in X /\ x3.get = x.get \cup {a} /\ x3.done = x.done \cup {a}
  <2> DEFINE p == <<c, k>>
  <2>1. p = a /\ p \in A
    BY <1>1, <1>3
  <2> HIDE DEF p
  <2>2. /\ [x EXCEPT !.done = @ \cup {p}] \in X /\ [x EXCEPT !.done = @ \cup {p}].get = x.get
        /\ [x EXCEPT !.done = @ \cup {p}].done = x.done \cup {p}
    BY <1>3, <2>1
  <2>3. x2 \in X /\ x2.get = x.get /\ x2.done = x.done
    BY <1>1, <1>3
  <2>4. [x EXCEPT !.get = @ \cup {p}, !.done = @ \cup {p}] \in X
    BY <1>3, <2>1
  <2>5. /\ [x EXCEPT !.get = @ \cup {p}, !.done = @ \cup {p}].get = x.get \cup {p}
        /\ [x EXCEPT !.get = @ \cup {p}, !.done = @ \cup {p}].done = x.done \cup {p}
    BY <1>3
  <2> QED
    BY <2>1, <2>2, <2>3, <2>4, <2>5 DEF p
<1>5. ~met => Fresh(m, a) /\ \A g \in x.get : g[2] # k
  BY DEF met, Fresh, c, k
<1> HIDE DEF x1, x2, x3
<1>6. (k \in m.sigShares => Chosen(m, x1)) /\ Chosen(m, x2)
  BY <1>4 DEF Chosen, A, k
<1>7. ~met => Chosen(m, x3)
  BY <1>4, <1>5 DEF Chosen, A, k
<1>8. Chosen(m, y)
  BY <1>2, <1>6, <1>7
<1> QED
  BY <1>8 DEF y, c, k

(* So it is after all of them.                                             *)
LEMMA CollectRight ==
    ASSUME NetInv, NEW m \in Managers, NEW v \in Visits(m)
    PROVE  Chosen(m, CollectSigSharesToRequest(m, v))
<1> DEFINE A == Announcements(m)
           n == Len(v)
<1>1. n \in Nat /\ v \in [1..n -> A]
  <2>1. v \in [1..Cardinality(A) -> A]
    BY DEF Visits
  <2>2. IsFiniteSet(A)
    <3>1. IsFiniteSet(Nodes) /\ Members \subseteq Nodes
      BY SetupAssumption DEF NetInv, Members
    <3>2. IsFiniteSet(Nodes \X Nodes)
      BY <3>1, FS_Product
    <3>3. A \subseteq Nodes \X Nodes
      BY <3>1, StatesType DEF Announcements
    <3> QED
      BY <3>2, <3>3, FS_Subset
  <2>3. Cardinality(A) \in Nat
    BY <2>2, FS_CardinalityType
  <2> HIDE DEF A
  <2> QED
    BY <2>1, <2>3, SMT
<1>2. PICK g : IsRun(g, m, v, n) /\ CollectSigSharesToRequest(m, v) = g[n]
  BY <1>1, CollectRuns
<1> DEFINE Bad == {i \in 0..n : ~Chosen(m, g[i])}
<1>3. SUFFICES ASSUME Bad # {} PROVE FALSE
  <2>1. n \in 0..n
    BY <1>1, SMT
  <2> QED
    BY <1>2, <2>1
<1>4. Bad \in SUBSET Nat
  BY <1>1, SMT
<1>5. PICK i \in Bad : \A j \in Bad : i <= j
  BY <1>3, <1>4, LeastNumber
<1>6. i # 0
  <2>1. Chosen(m, Nothing)
    BY DEF Chosen, Nothing
  <2> QED
    BY <1>2, <1>5, <2>1 DEF IsRun
<1>7. i \in 1..n /\ i - 1 \in 0..n /\ ~(i <= i - 1)
  BY <1>1, <1>5, <1>6, SMT
<1>8. Chosen(m, g[i - 1])
  BY <1>5, <1>7
<1>9. g[i] = RequestShare(m, g[i - 1], v[i][1], v[i][2])
  BY <1>2, <1>7 DEF IsRun
<1>10. v[i] \in Announcements(m)
  BY <1>1, <1>7
<1> QED
  BY <1>5, <1>8, <1>9, <1>10, RequestOne

(* The state of a node that was sent messages.                             *)
LEMMA SentState ==
    ASSUME NEW m, NEW s \in NodeStates, Sound(s), NEW get \in SUBSET Nodes, NEW done,
           NEW inv \in SUBSET Nodes, s.banned => get = {}
    PROVE  LET r == NodeStateSent(m, s, get, done, inv)
           IN  /\ r \in NodeStates /\ Sound(r)
               /\ r.req = Outstanding(s) \cup get
               /\ r.old = s.old \cap Outstanding(s)
               /\ r.session \in Sessions
<1> DEFINE t == GetOrCreate(s)
           needsId == get \cup Batch(m, s) \cup inv # {} /\ t.send = NoSession
           out == Outstanding(s)
           next == IF needsId THEN s.nextSend + 1 ELSE s.nextSend
           id == IF needsId THEN s.nextSend ELSE t.send
           ask == IF Idle(m, s) THEN t.requested ELSE {}
           u == [t EXCEPT !.announced = @ \ done, !.requested = ask, !.knows = @ \cup inv, !.send = id]
           r == [s EXCEPT !.req = out \cup get, !.old = @ \cap out, !.nextSend = next, !.session = u]
<1>1. NodeStateSent(m, s, get, done, inv) = r
  BY DEF NodeStateSent
<1>2. t \in Sessions /\ t \in Sessions \cup {None}
  BY GetOrCreateType
<1>3. s.nextSend \in Nat /\ s.nextSend + 1 \in Nat /\ t.send \in Nat
  BY <1>2, SMT DEF NodeStates, Sessions
<1>4. next \in Nat /\ id \in Nat
  BY <1>3
<1>5. ask \in SUBSET Nodes
  BY <1>2 DEF Sessions
<1>6. out \in SUBSET Nodes
  BY DEF Outstanding, NodeStates
<1>7. s.banned => out = {}
  BY DEF Sound, Outstanding
<1>8. s.byRecv # {} => s.session = t /\ s.byRecv = {t.recv}
  BY DEF Sound, GetOrCreate
<1> HIDE DEF t, needsId, next, id, ask, out
<1>9. u \in Sessions /\ u.recv = t.recv
  BY <1>2, <1>4, <1>5 DEF Sessions
<1>10. u # None
  BY <1>9, SetupAssumption
<1> HIDE DEF u
<1>11. /\ r \in NodeStates
       /\ r.req = out \cup get /\ r.old = s.old \cap out
  BY <1>4, <1>6, <1>9 DEF NodeStates
<1>12. r.byRecv = s.byRecv /\ r.session = u /\ r.banned = s.banned
  BY DEF NodeStates
<1> HIDE DEF r
<1>13. Sound(r)
  BY <1>7, <1>8, <1>9, <1>10, <1>11, <1>12 DEF Sound
<1> QED
  BY <1>1, <1>9, <1>11, <1>12, <1>13 DEF out

(* What SendMessages makes of a manager.                                   *)
GetFrom(x, c) == {k \in Nodes : <<c, k>> \in x.get}
ToldTo(m, n, c) == IF c \in ToTell(m, n) THEN Inv(m, StateOf(m, c)) ELSE {}
SentTo(m, n, x, c) ==
    NodeStateSent(m, StateOf(m, c), GetFrom(x, c), {k \in Nodes : <<c, k>> \in x.done}, ToldTo(m, n, c))

(* Each node state it leaves.                                              *)
LEMMA SentRight ==
    ASSUME NetInv, NEW n \in Members, NEW m, ManagerInv(m), NEW x, Chosen(m, x), NEW c \in Nodes
    PROVE  LET r == SentTo(m, n, x, c)
           IN  /\ r \in NodeStates /\ Sound(r)
               /\ r.req = Outstanding(StateOf(m, c)) \cup GetFrom(x, c)
               /\ r.old = StateOf(m, c).old \cap Outstanding(StateOf(m, c))
               /\ r.session \in Sessions
               /\ ToldTo(m, n, c) \in SUBSET Nodes
<1> DEFINE s == StateOf(m, c)
<1>1. s \in NodeStates /\ Sound(s)
  BY StateOfType
<1>2. GetFrom(x, c) \in SUBSET Nodes
  BY DEF GetFrom
<1>3. m.queued \in SUBSET Nodes
  BY DEF ManagerInv, Managers
<1>4. ToldTo(m, n, c) \in SUBSET Nodes
  BY <1>3 DEF ToldTo, Inv
<1>5. s.banned => GetFrom(x, c) = {}
  <2> SUFFICES ASSUME s.banned, NEW k \in Nodes, <<c, k>> \in x.get PROVE FALSE
    BY DEF GetFrom
  <2>1. <<c, k>> \in Announcements(m)
    BY DEF Chosen
  <2>2. <<c, k>>[1] = c
    BY SMT
  <2>3. c \in DOMAIN m.nodeStates /\ ~Idle(m, m.nodeStates[c])
    BY <2>1, <2>2 DEF Announcements
  <2> QED
    BY <2>3 DEF Idle, StateOf
<1> HIDE DEF s
<1> DEFINE get == GetFrom(x, c)
           done == {k \in Nodes : <<c, k>> \in x.done}
           inv == ToldTo(m, n, c)
           r == NodeStateSent(m, s, get, done, inv)
<1>6. r = SentTo(m, n, x, c)
  BY DEF SentTo, s
<1> HIDE DEF get, done, inv
<1>7. /\ r \in NodeStates /\ Sound(r)
      /\ r.req = Outstanding(s) \cup get
      /\ r.old = s.old \cap Outstanding(s)
      /\ r.session \in Sessions
  BY <1>1, <1>2, <1>4, <1>5, SentState DEF get, inv
<1> HIDE DEF r
<1> QED
  BY <1>4, <1>6, <1>7 DEF s, get

(* A request just made.                                                    *)
LEMMA NewRequest ==
    ASSUME NEW c \in Nodes
    PROVE  /\ [from |-> c, old |-> FALSE] \in Requests /\ [from |-> c, old |-> FALSE] # None
           /\ [from |-> c, old |-> FALSE].from = c /\ ~[from |-> c, old |-> FALSE].old
<1>1. [from |-> c, old |-> FALSE] \in Requests
  BY DEF Requests
<1>2. [from |-> c, old |-> FALSE].from = c /\ ~[from |-> c, old |-> FALSE].old
  BY SMT
<1> QED
  BY <1>1, <1>2, SetupAssumption

(* sigSharesRequested and the node states after a round of sending.        *)
Asked(m, x) ==
    [k \in Nodes |-> IF \E g \in x.get : g[2] = k
                     THEN [from |-> (CHOOSE g \in x.get : g[2] = k)[1], old |-> FALSE]
                     ELSE m.requested[k]]
StatesSent(m, n, x) ==
    [c \in DOMAIN m.nodeStates \cup ToTell(m, n) |->
        IF c \notin ToTell(m, n) /\ m.nodeStates[c].session = None
        THEN m.nodeStates[c] ELSE SentTo(m, n, x, c)]

(* The manager it leaves: whoever asks for a share that a request has      *)
(* timed out for asks alone.                                               *)
LEMMA SendRight ==
    ASSUME NetInv, NEW n \in Members, NEW m, ManagerInv(m), NEW x, Chosen(m, x),
           NEW g \in Nat \cup {None}
    PROVE  ManagerInv([m EXCEPT !.nodeStates = StatesSent(m, n, x), !.requested = Asked(m, x),
                                !.queued = {}, !.signed = g])
<1> DEFINE D == DOMAIN m.nodeStates \cup ToTell(m, n)
           f == StatesSent(m, n, x)
           r == Asked(m, x)
           v == [m EXCEPT !.nodeStates = f]
           w == [v EXCEPT !.requested = r, !.queued = {}, !.signed = g]
<1>1. D \in SUBSET Nodes
  BY StatesType, PeersType DEF ManagerInv, ToTell
<1>2. \A a \in x.get : a = <<a[1], a[2]>> /\ a[1] \in DOMAIN m.nodeStates /\ a[2] \in Nodes
  <2>1. x.get \subseteq (DOMAIN m.nodeStates) \X Members
    BY DEF Chosen, Announcements
  <2>2. \A a \in x.get : a = <<a[1], a[2]>> /\ a[1] \in DOMAIN m.nodeStates /\ a[2] \in Members
    BY <2>1, SMT
  <2> QED
    BY <2>2, PeersType
<1>3. \A k \in Nodes : r[k] \in Requests \cup {None}
  <2> SUFFICES ASSUME NEW k \in Nodes PROVE r[k] \in Requests \cup {None}
    OBVIOUS
  <2>1. CASE \E a \in x.get : a[2] = k
    <3> DEFINE a == CHOOSE b \in x.get : b[2] = k
    <3>1. a \in x.get
      BY <2>1
    <3>2. r[k] = [from |-> a[1], old |-> FALSE]
      BY <2>1 DEF Asked
    <3> HIDE DEF a
    <3>3. a[1] \in Nodes
      BY <1>1, <1>2, <3>1
    <3> QED
      BY <3>2, <3>3, NewRequest
  <2>2. CASE ~ \E a \in x.get : a[2] = k
    BY <2>2 DEF Asked, ManagerInv, Managers
  <2> QED
    BY <2>1, <2>2
<1>4. r \in [Nodes -> Requests \cup {None}]
  BY <1>3 DEF Asked
<1>5. ASSUME NEW c \in D
      PROVE  /\ f[c] \in NodeStates /\ Sound(f[c])
             /\ f[c].req \subseteq Outstanding(StateOf(m, c)) \cup GetFrom(x, c)
             /\ StateOf(m, c).old \cap Outstanding(StateOf(m, c)) \subseteq f[c].old
  <2>1. CASE c \notin ToTell(m, n) /\ m.nodeStates[c].session = None
    <3>1. c \in DOMAIN m.nodeStates /\ StateOf(m, c) = m.nodeStates[c] /\ f[c] = m.nodeStates[c]
      BY <2>1 DEF StateOf, StatesSent
    <3>2. m.nodeStates[c] \in NodeStates /\ Sound(m.nodeStates[c])
      BY <3>1, StatesType DEF ManagerInv
    <3>3. m.nodeStates[c].req = {}
      BY <2>1, <3>2 DEF Sound
    <3> QED
      BY <3>1, <3>2, <3>3
  <2>2. CASE ~(c \notin ToTell(m, n) /\ m.nodeStates[c].session = None)
    <3>1. f[c] = SentTo(m, n, x, c)
      BY <2>2 DEF StatesSent
    <3> DEFINE u == SentTo(m, n, x, c)
    <3>2. c \in Nodes
      BY <1>1
    <3>3. /\ u \in NodeStates /\ Sound(u)
          /\ u.req = Outstanding(StateOf(m, c)) \cup GetFrom(x, c)
          /\ u.old = StateOf(m, c).old \cap Outstanding(StateOf(m, c))
      BY <3>2, SentRight, SMT
    <3> HIDE DEF u, f
    <3> QED
      BY <3>1, <3>3 DEF u
  <2> QED
    BY <2>1, <2>2
<1>6. f \in [D -> NodeStates]
  BY <1>5 DEF StatesSent
<1> HIDE DEF f, r
<1>7. v \in Managers /\ v.nodeStates = f
  BY <1>1, <1>6, WithStates DEF ManagerInv
<1> HIDE DEF v
<1>8. w \in Managers /\ w.nodeStates = f /\ w.requested = r
  BY <1>4, <1>7 DEF Managers
<1> HIDE DEF w
<1>9. ASSUME NEW c \in D, NEW k \in f[c].req
      PROVE  Own(w, c, k)
  <2>1. k \in Nodes /\ c \in Nodes
    BY <1>1, <1>5 DEF NodeStates
  <2>2. CASE k \in GetFrom(x, c)
    <3> DEFINE a == CHOOSE b \in x.get : b[2] = k
    <3>1. <<c, k>> \in x.get /\ <<c, k>>[1] = c /\ <<c, k>>[2] = k
      BY <2>2, SMT DEF GetFrom
    <3>2. a \in x.get /\ a[2] = k
      BY <3>1
    <3>3. r[k] = [from |-> a[1], old |-> FALSE]
      BY <2>1, <3>1 DEF Asked, r
    <3> HIDE DEF a
    <3>4. a[1] = c
      BY <3>1, <3>2 DEF Chosen
    <3>5. r[k] # None /\ r[k].from = c /\ ~r[k].old
      BY <2>1, <3>3, <3>4, NewRequest
    <3> QED
      BY <1>8, <3>5 DEF Own
  <2>3. CASE k \notin GetFrom(x, c)
    <3> DEFINE s == StateOf(m, c)
    <3>1. k \in Outstanding(s)
      BY <1>5, <1>9, <2>3
    <3>2. k \in s.req
      BY <3>1 DEF Outstanding
    <3>3. c \in DOMAIN m.nodeStates /\ s = m.nodeStates[c]
      BY <3>2, SMT DEF StateOf, NodeState
    <3>4. Own(m, c, k) /\ Sound(s)
      BY <3>2, <3>3 DEF ManagerInv
    <3>5. ~m.requested[k].old
      BY <3>1, <3>2, <3>3, <3>4 DEF Own, Outstanding, Sound
    <3>6. ASSUME NEW a \in x.get PROVE a[2] # k
      BY <3>4, <3>5 DEF Own, Chosen, Fresh
    <3>7. r[k] = m.requested[k]
      BY <2>1, <3>6 DEF Asked, r
    <3> QED
      BY <1>8, <3>4, <3>5, <3>7 DEF Own
  <2> QED
    BY <2>2, <2>3
<1>10. DOMAIN w.nodeStates = D
  BY <1>6, <1>8
<1>11. ManagerInv(w)
  BY <1>5, <1>8, <1>9, <1>10 DEF ManagerInv
<1> QED
  BY <1>11 DEF w, v, f, r

(* What SendMessages sends to one node.                                    *)
SentMessages(m, n, x, p, target) ==
    LET s == StateOf(m, p)
        id == SentTo(m, n, x, p).session.send
    IN  (IF SentTo(m, n, x, p).nextSend = s.nextSend THEN <<>>
         ELSE <<[type |-> "ann", id |-> id, shares |-> {}]>>)
        \o Message("get", id, GetFrom(x, p))
        \o Message("batch", id, Batch(m, s))
        \o Message("inv", id, ToldTo(m, n, p))
        \o Message("share", NoSession, IF p = target THEN {n} ELSE {})

(* A message, if there is something to say.                                *)
LEMMA MessageType ==
    ASSUME NEW ty \in {"ann", "inv", "get", "batch", "share"}, NEW id \in Nat,
           NEW ks \in SUBSET Nodes
    PROVE  Message(ty, id, ks) \in Seq(Messages)
<1>1. [type |-> ty, id |-> id, shares |-> ks] \in Messages
  BY DEF Messages
<1> DEFINE x == [type |-> ty, id |-> id, shares |-> ks]
<1> HIDE DEF x
<1>2. <<x>> \in Seq(Messages) /\ <<>> \in Seq(Messages)
  BY <1>1, SMT DEF x
<1> QED
  BY <1>2 DEF Message, x

(* They are messages.                                                      *)
LEMMA SentType ==
    ASSUME NetInv, NEW n \in Members, NEW m, ManagerInv(m), NEW x, Chosen(m, x), NEW p \in Nodes,
           NEW target
    PROVE  SentMessages(m, n, x, p, target) \in Seq(Messages)
<1> DEFINE s == StateOf(m, p)
           u == SentTo(m, n, x, p)
           id == u.session.send
           own == IF p = target THEN {n} ELSE {}
           ann == IF u.nextSend = s.nextSend THEN <<>>
                  ELSE <<[type |-> "ann", id |-> id, shares |-> {}]>>
           a == Message("get", id, GetFrom(x, p))
           b == Message("batch", id, Batch(m, s))
           c == Message("inv", id, ToldTo(m, n, p))
           d == Message("share", NoSession, own)
<1>1. u.session \in Sessions /\ ToldTo(m, n, p) \in SUBSET Nodes
  BY SentRight, SMT
<1>2. id \in Nat
  BY <1>1 DEF Sessions
<1>3. GetFrom(x, p) \in SUBSET Nodes
  BY DEF GetFrom
<1>4. Batch(m, s) \in SUBSET Nodes
  <2>1. m.sigShares \in SUBSET Nodes
    BY DEF ManagerInv, Managers
  <2> QED
    BY <2>1 DEF Batch
<1>5. own \in SUBSET Nodes
  BY PeersType
<1>6. SentMessages(m, n, x, p, target) = ann \o a \o b \o c \o d
  BY DEF SentMessages
<1> HIDE DEF s, u, id, own
<1>7. a \in Seq(Messages) /\ b \in Seq(Messages) /\ c \in Seq(Messages)
  BY <1>1, <1>2, <1>3, <1>4, MessageType
<1>8. d \in Seq(Messages)
  <2>1. NoSession \in Nat
    BY SMT DEF NoSession
  <2> QED
    BY <1>5, <2>1, MessageType
<1>9. ann \in Seq(Messages)
  <2> DEFINE y == [type |-> "ann", id |-> id, shares |-> {}]
  <2>1. y \in Messages
    BY <1>2 DEF Messages
  <2> HIDE DEF y
  <2>2. <<y>> \in Seq(Messages) /\ <<>> \in Seq(Messages)
    BY <2>1, SMT
  <2> QED
    BY <2>2 DEF y
<1> HIDE DEF ann, a, b, c, d
<1>10. ann \o a \o b \o c \o d \in Seq(Messages)
  BY <1>7, <1>8, <1>9, SMT
<1> QED
  BY <1>6, <1>10

(* SendMessages, for one visit of the nodes.                               *)
LEMMA SendMeans ==
    ASSUME NEW n, NEW due, SendMessages(n, due)
    PROVE  \E visit \in Visits(mgr[n]) :
             LET m == mgr[n]
                 x == CollectSigSharesToRequest(m, visit)
                 target == Target(m, due)
             IN  /\ mgr' = [mgr EXCEPT ![n] =
                        [m EXCEPT !.nodeStates = StatesSent(m, n, x), !.requested = Asked(m, x),
                                  !.queued = {},
                                  !.signed = IF target = None THEN m.signed ELSE m.signed + 1]]
                 /\ msgs' = [msgs EXCEPT ![n] = [p \in setup.peers[n] |->
                        IF {n, p} \in up THEN msgs[n][p] \o SentMessages(m, n, x, p, target)
                        ELSE <<>>]]
                 /\ UNCHANGED netVars
BY DEF SendMessages, StatesSent, Asked, SentMessages, SentTo, GetFrom, ToldTo

(* SendMessages.                                                           *)
LEMMA SendKeeps ==
    ASSUME IndInv, NEW n \in Members, NEW due, SendMessages(n, due)
    PROVE  IndInv'
<1> DEFINE m == mgr[n]
           target == Target(m, due)
           g == IF target = None THEN m.signed ELSE m.signed + 1
           X(v) == CollectSigSharesToRequest(m, v)
           W(x) == [m EXCEPT !.nodeStates = StatesSent(m, n, x), !.requested = Asked(m, x),
                             !.queued = {}, !.signed = g]
           Line(x) == [p \in setup.peers[n] |->
                          IF {n, p} \in up THEN msgs[n][p] \o SentMessages(m, n, x, p, target)
                          ELSE <<>>]
<1>1. NetInv /\ ManagerInv(m) /\ m \in Managers
  BY DEF IndInv, ManagerInv
<1>2. PICK v \in Visits(m) : /\ mgr' = [mgr EXCEPT ![n] = W(X(v))]
                             /\ msgs' = [msgs EXCEPT ![n] = Line(X(v))]
                             /\ UNCHANGED netVars
  BY SendMeans
<1>3. Chosen(m, X(v))
  BY <1>1, CollectRight
<1>4. g \in Nat \cup {None}
  <2>1. m.signed \in Nat \cup {None}
    BY <1>1 DEF Managers
  <2>2. target # None => m.signed # None
    BY DEF Target
  <2>3. \A i \in Nat : i + 1 \in Nat
    BY SMT
  <2> QED
    BY <2>1, <2>2, <2>3
<1> DEFINE x == X(v)
<1> HIDE DEF g, X, x
<1>5. ManagerInv(W(x))
  BY <1>1, <1>3, <1>4, SendRight DEF x
<1>6. \A p \in setup.peers[n] : Line(x)[p] \in Seq(Messages)
  <2> SUFFICES ASSUME NEW p \in setup.peers[n] PROVE Line(x)[p] \in Seq(Messages)
    OBVIOUS
  <2>1. msgs[n][p] \in Seq(Messages) /\ p \in Nodes
    BY <1>1, PeersType DEF NetInv
  <2> DEFINE sent == SentMessages(m, n, x, p, target)
  <2>2. sent \in Seq(Messages)
    BY <1>1, <1>3, <2>1, SentType DEF x
  <2> HIDE DEF sent
  <2>3. msgs[n][p] \o sent \in Seq(Messages) /\ <<>> \in Seq(Messages)
    BY <2>1, <2>2, SMT
  <2> QED
    BY <2>3 DEF sent
<1>7. Line(x) \in [setup.peers[n] -> Seq(Messages)]
  BY <1>6
<1>8. msgs' = [msgs EXCEPT ![n] = Line(x)] /\ setup' = setup
  BY <1>2 DEF netVars, x
<1> HIDE DEF Line, W
<1>9. NetInv'
  <2>1. Members' = Members
    BY <1>8 DEF Members
  <2>2. DOMAIN msgs' = Members
    BY <1>1, <1>8 DEF NetInv
  <2>3. \A q \in Members : msgs'[q] \in [setup.peers[q] -> Seq(Messages)]
    BY <1>1, <1>7, <1>8 DEF NetInv
  <2> QED
    BY <1>1, <1>8, <2>1, <2>2, <2>3 DEF NetInv
<1> QED
  BY <1>2, <1>5, <1>8, <1>9, OneManager DEF x

(* A manager that has just been made, whether it is to sign or not.        *)
LEMMA FirstManager ==
    ASSUME NEW n
    PROVE  LET w == [Manager EXCEPT !.pendingSigns = n \in setup.signers]
           IN  /\ w \in Managers /\ DOMAIN w.nodeStates = {}
               /\ w.queued = {} /\ ~w.recovered /\ w.hand = None
<1>1. /\ Manager \in Managers /\ DOMAIN Manager.nodeStates = {}
      /\ Manager.queued = {} /\ Manager.recovered = FALSE /\ Manager.hand = None
  <2>1. <<>> \in UNION {[D -> NodeStates] : D \in SUBSET Nodes} /\ DOMAIN <<>> = {}
    <3>1. <<>> \in [{} -> NodeStates]
      BY SMT
    <3>2. DOMAIN <<>> = {}
      BY SMT
    <3> QED
      BY <3>1, <3>2
  <2> DEFINE none == [k \in Nodes |-> None]
             e == <<>>
  <2>2. none \in [Nodes -> Requests \cup {None}]
    OBVIOUS
  <2>3. Manager = [nodeStates |-> e, sigShares |-> {}, requested |-> none,
            queued |-> {}, timeSeen |-> FALSE, signed |-> None, pendingSigns |-> FALSE,
            recovered |-> FALSE, hand |-> None, misbehaved |-> {}]
    BY DEF Manager
  <2>4. e \in UNION {[D -> NodeStates] : D \in SUBSET Nodes}
    BY <2>1
  <2> HIDE DEF none, e
  <2>5. Manager \in Managers
    BY <2>2, <2>3, <2>4 DEF Managers
  <2>6. /\ Manager.nodeStates = e /\ Manager.queued = {} /\ Manager.recovered = FALSE
        /\ Manager.hand = None
    BY <2>3
  <2> QED
    BY <2>1, <2>5, <2>6 DEF e
<1> HIDE DEF Manager
<1>2. ASSUME NEW b \in BOOLEAN
      PROVE  LET w == [Manager EXCEPT !.pendingSigns = b]
             IN  /\ w \in Managers /\ w.nodeStates = Manager.nodeStates
                 /\ w.queued = {} /\ w.recovered = FALSE /\ w.hand = None
  BY <1>1 DEF Managers
<1>3. (n \in setup.signers) \in BOOLEAN
  BY SMT
<1> QED
  BY <1>1, <1>2, <1>3

(* The first state.                                                        *)
LEMMA InitRight ==
    ASSUME Init
    PROVE  IndInv
<1> DEFINE one(n) == [Manager EXCEPT !.pendingSigns = n \in setup.signers]
<1>2. \A n \in Members : one(n) \in Managers /\ DOMAIN one(n).nodeStates = {}
  BY FirstManager
<1>3. mgr = [n \in Members |-> one(n)]
  BY DEF Init
<1> HIDE DEF one
<1>4. \A n \in Members : ManagerInv(mgr[n])
  BY <1>2, <1>3 DEF ManagerInv
<1>5. NetInv
  <2>1. <<>> \in Seq(Messages)
    BY SMT
  <2> QED
    BY <2>1 DEF Init, NetInv
<1> QED
  BY <1>3, <1>4, <1>5 DEF IndInv

(* Every step.                                                             *)
LEMMA StepKeeps ==
    ASSUME IndInv, [Next]_vars
    PROVE  IndInv'
<1>1. CASE UNCHANGED vars
  BY <1>1, LinksKeep DEF vars
<1>2. ASSUME NEW n \in Members, NEW p \in setup.peers[n], ProcessMessage(n, p)
      PROVE  IndInv'
  BY <1>2, MessageKeeps
<1>3. ASSUME NEW n \in Members, NEW p \in setup.peers[n], DisconnectBanned(n, p) \/ Connect(n, p)
      PROVE  IndInv'
  BY <1>3, LinksKeep DEF DisconnectBanned, Connect
<1>4. ASSUME NEW n \in Members,
             \/ AddToPending(n) \/ ProcessPendingSigShares(n) \/ SignPendingSigShares(n)
             \/ ReceiveRecoveredSig(n) \/ SessionTimesOut(n)
             \/ CleanupNodeStates(n) \/ RemoveBannedNodeStates(n)
             \/ AsyncSignIfMember(n) \/ RequestsTimeOut(n)
      PROVE  IndInv'
  BY <1>4, AddToPendingKeeps, PendingKeeps, SignKeeps, RemoveKeeps, CleanupKeeps, BannedKeeps,
     AsyncSignKeeps, TimeOutKeeps
<1>5. ASSUME NEW n \in Members, NEW due, SendMessages(n, due)
      PROVE  IndInv'
  BY <1>5, SendKeeps
<1>6. ASSUME NEW l, Disconnect(l)
      PROVE  IndInv'
  BY <1>6, LinksKeep DEF Disconnect, Fault
<1> QED
  BY <1>1, <1>2, <1>3, <1>4, <1>5, <1>6 DEF Next, Step

(* The invariant holds in every run.                                       *)
LEMMA IndInvHolds == Spec => []IndInv
<1>1. Init => IndInv
  BY InitRight
<1>2. IndInv /\ [Next]_vars => IndInv'
  BY StepKeeps
<1> QED
  BY <1>1, <1>2, PTL DEF Spec

(* A share is requested from one node at a time.                           *)
THEOREM OneRequestAtATimeHolds == Spec => []OneRequestAtATime
<1>1. ASSUME IndInv, NEW n \in Members, NEW c \in DOMAIN mgr[n].nodeStates,
             NEW k \in mgr[n].nodeStates[c].req
      PROVE  mgr[n].requested[k] # None /\ mgr[n].requested[k].from = c
  <2>1. Own(mgr[n], c, k)
    BY <1>1 DEF IndInv, ManagerInv
  <2> QED
    BY <2>1 DEF Own
<1>2. IndInv => OneRequestAtATime
  BY <1>1 DEF OneRequestAtATime
<1> QED
  BY <1>2, IndInvHolds, PTL

(* sessionByRecvId never points to a session that is gone.                 *)
THEOREM NoDanglingSessionHolds == Spec => []NoDanglingSession
<1>1. ASSUME IndInv, NEW n \in Members, NEW s \in Range(mgr[n].nodeStates)
      PROVE  s.byRecv # {} => s.session # None /\ s.byRecv = {s.session.recv}
  <2>1. PICK c \in DOMAIN mgr[n].nodeStates : s = mgr[n].nodeStates[c]
    BY DEF Range
  <2>2. Sound(mgr[n].nodeStates[c])
    BY <1>1 DEF IndInv, ManagerInv
  <2> QED
    BY <2>1, <2>2 DEF Sound
<1>2. IndInv => NoDanglingSession
  BY <1>1 DEF NoDanglingSession
<1> QED
  BY <1>2, IndInvHolds, PTL
-----------------------------------------------------------------------------
(* As long as there is no fault, the members of a pair that do not ban     *)
(* each other stay connected, nobody is asked to sign again, and a session *)
(* keeps the id 1.  What n believes p to know is then somewhere between    *)
(* n and p: requested by p, under way, announced, or about to be verified. *)

SessionOf(m, c) == GetOrCreate(StateOf(m, c))
Known(m, c) == 1 \in StateOf(m, c).byRecv
Incoming(m, c) ==
    StateOf(m, c).pending \cup
    {k \in Nodes : m.hand # None /\ m.hand.from = c /\ k \in m.hand.shares}

Has(q, type, k) == \E i \in DOMAIN q : q[i].type = type /\ k \in q[i].shares
HasAnn(q) == \E i \in DOMAIN q : q[i].type = "ann"

(* No message of q, from c, refers to the session before an announcement,  *)
(* unless the receiver knows the id already.                               *)
AnnFirst(q, m, c) ==
    \A i \in DOMAIN q :
        /\ q[i].type = "ann" => q[i].id = 1
        /\ q[i].type \in {"inv", "get", "batch"} =>
               q[i].id = 1 /\ (Known(m, c) \/ \E j \in DOMAIN q : j < i /\ q[j].type = "ann")

IdInv(m, c) ==
    \/ StateOf(m, c).nextSend = 1 /\ SessionOf(m, c).send = 0
    \/ StateOf(m, c).nextSend = 2 /\ SessionOf(m, c).send = 1

(* For n with manager a and p with manager b; out are the messages from n  *)
(* to p, inn those from p to n.                                            *)
Offered(k, a, b, n, p, out, inn) ==
    \/ Has(out, "inv", k) \/ Has(inn, "get", k)
    \/ k \in SessionOf(b, n).announced \/ k \in SessionOf(a, p).requested
Via(k, a, b, n, p, out, inn) ==
    \/ k \in b.sigShares \/ k \in Incoming(b, n) \/ k \in SessionOf(b, n).announced
    \/ Has(out, "inv", k) \/ Has(out, "batch", k) \/ Has(inn, "get", k)
    \/ k \in SessionOf(a, p).requested
Flow(a, b, n, p, out, inn) ==
    /\ IdInv(a, p)
    /\ SessionOf(a, p).send = 1 => Known(b, n) \/ HasAnn(out)
    /\ \A k \in Nodes : Offered(k, a, b, n, p, out, inn) => k \in a.sigShares
    /\ \A k \in Nodes : k \in SessionOf(a, p).knows => Via(k, a, b, n, p, out, inn)
Pair(a, b, n, p, out, inn) ==
    ~b.recovered => /\ AnnFirst(out, b, n)
                    /\ ~a.recovered => Flow(a, b, n, p, out, inn)

Apart(n, p) == p \in mgr[n].misbehaved \/ n \in mgr[p].misbehaved

PairsInv ==
    \A n \in Members : \A p \in setup.peers[n] :
        Apart(n, p) \/ ({n, p} \in up /\ Pair(mgr[n], mgr[p], n, p, msgs[n][p], msgs[p][n]))
FlowInv ==
    /\ faults \in Nat
    /\ \A n \in Members : mgr[n].recovered => mgr[n].queued = {}
    /\ faults = 0 => stale = {} /\ PairsInv

(* What a step that neither sends nor receives may change about node c:    *)
(* the session, and what is about to be verified.                          *)
SessionKept(m, w, c) ==
    /\ m.recovered => w.recovered
    /\ ~w.recovered =>
        /\ m.sigShares \subseteq w.sigShares
        /\ StateOf(w, c).byRecv = StateOf(m, c).byRecv
        /\ StateOf(w, c).nextSend = StateOf(m, c).nextSend
        /\ SessionOf(w, c).send = SessionOf(m, c).send
        /\ SessionOf(w, c).announced = SessionOf(m, c).announced
        /\ SessionOf(m, c).requested \subseteq SessionOf(w, c).requested
        /\ SessionOf(w, c).requested \subseteq SessionOf(m, c).requested \cup w.sigShares
        /\ SessionOf(w, c).knows \subseteq SessionOf(m, c).knows \cup SessionOf(w, c).requested
Kept(m, w, c) ==
    /\ SessionKept(m, w, c)
    /\ ~w.recovered => Incoming(m, c) \subseteq Incoming(w, c) \cup w.sigShares

(* Such a step of n.                                                       *)
LEMMA QuietSender ==
    ASSUME NEW a, NEW b, NEW n, NEW p, NEW out, NEW inn, Pair(a, b, n, p, out, inn),
           NEW w, Kept(a, w, p)
    PROVE  Pair(w, b, n, p, out, inn)
<1> SUFFICES ASSUME ~b.recovered, ~w.recovered PROVE Flow(w, b, n, p, out, inn)
  BY DEF Pair
<1>1. Flow(a, b, n, p, out, inn)
  BY DEF Pair, Kept, SessionKept
<1>2. IdInv(w, p)
  BY <1>1 DEF Flow, IdInv, Kept, SessionKept
<1>3. SessionOf(w, p).send = 1 => Known(b, n) \/ HasAnn(out)
  BY <1>1 DEF Flow, Kept, SessionKept
<1>4. \A k \in Nodes : Offered(k, w, b, n, p, out, inn) => k \in w.sigShares
  BY <1>1 DEF Flow, Kept, SessionKept, Offered
<1>5. \A k \in Nodes : k \in SessionOf(w, p).knows => Via(k, w, b, n, p, out, inn)
  BY <1>1 DEF Flow, Kept, SessionKept, Via
<1> QED
  BY <1>2, <1>3, <1>4, <1>5 DEF Flow

(* Such a step of p.                                                       *)
LEMMA QuietReceiver ==
    ASSUME NEW a, NEW b, NEW n, NEW p, NEW out, NEW inn, Pair(a, b, n, p, out, inn),
           NEW w, Kept(b, w, n)
    PROVE  Pair(a, w, n, p, out, inn)
<1> SUFFICES ASSUME ~w.recovered
             PROVE  AnnFirst(out, w, n) /\ (~a.recovered => Flow(a, w, n, p, out, inn))
  BY DEF Pair
<1>1. ~b.recovered /\ Known(w, n) = Known(b, n)
  BY DEF Kept, SessionKept, Known
<1>2. AnnFirst(out, w, n)
  BY <1>1 DEF Pair, AnnFirst
<1>3. ASSUME ~a.recovered PROVE Flow(a, w, n, p, out, inn)
  <2>1. Flow(a, b, n, p, out, inn)
    BY <1>1, <1>3 DEF Pair
  <2>2. IdInv(a, p) /\ (SessionOf(a, p).send = 1 => Known(w, n) \/ HasAnn(out))
    BY <1>1, <2>1 DEF Flow
  <2>3. \A k \in Nodes : Offered(k, a, w, n, p, out, inn) => k \in a.sigShares
    BY <2>1 DEF Flow, Kept, SessionKept, Offered
  <2>4. \A k \in Nodes : k \in SessionOf(a, p).knows => Via(k, a, w, n, p, out, inn)
    BY <2>1 DEF Flow, Kept, SessionKept, Via
  <2> QED
    BY <2>2, <2>3, <2>4 DEF Flow
<1> QED
  BY <1>2, <1>3

(* What the handler of msg, from node c, does about that node.             *)
Of(msg, types) == IF msg.type \in types THEN msg.shares ELSE {}
Received(m, w, c, msg) ==
    /\ w.recovered = m.recovered
    /\ ~m.recovered =>
        /\ w.sigShares = m.sigShares
        /\ StateOf(w, c).byRecv = IF msg.type = "ann" THEN {msg.id} ELSE StateOf(m, c).byRecv
        /\ StateOf(w, c).nextSend = StateOf(m, c).nextSend
        /\ SessionOf(w, c).send = SessionOf(m, c).send
        /\ SessionOf(w, c).announced = SessionOf(m, c).announced \cup Of(msg, {"inv"})
        /\ SessionOf(w, c).requested = SessionOf(m, c).requested \cup Of(msg, {"get"})
        /\ SessionOf(w, c).knows = SessionOf(m, c).knows \cup Of(msg, {"inv", "get"})
        /\ Incoming(m, c) \cup Of(msg, {"batch"}) \subseteq Incoming(w, c) \cup m.sigShares

(* The messages that are left.                                             *)
LEMMA TailOf ==
    ASSUME NEW q \in Seq(Messages), q # <<>>
    PROVE  /\ \A ty, k : Has(Tail(q), ty, k) => Has(q, ty, k)
           /\ \A ty, k : Has(q, ty, k) =>
                  Has(Tail(q), ty, k) \/ (Head(q).type = ty /\ k \in Head(q).shares)
           /\ HasAnn(q) => HasAnn(Tail(q)) \/ Head(q).type = "ann"
           /\ \A m, c : AnnFirst(q, m, c) =>
                  /\ \A w : (Known(m, c) \/ Head(q).type = "ann" => Known(w, c)) =>
                         AnnFirst(Tail(q), w, c)
                  /\ Head(q).type = "ann" => Head(q).id = 1
                  /\ Head(q).type \in {"inv", "get", "batch"} => Head(q).id = 1 /\ Known(m, c)
<1> DEFINE t == Tail(q)
<1>1. /\ \A i \in DOMAIN t : i \in Nat /\ i + 1 \in DOMAIN q /\ t[i] = q[i + 1]
      /\ \A i \in DOMAIN q : i \in Nat /\ i >= 1 /\ (i # 1 => i - 1 \in DOMAIN t /\ t[i - 1] = q[i])
      /\ 1 \in DOMAIN q /\ Head(q) = q[1]
  BY SMT
<1> HIDE DEF t
<1>2. \A ty, k : Has(t, ty, k) => Has(q, ty, k)
  <2> SUFFICES ASSUME NEW ty, NEW k, NEW i \in DOMAIN t, t[i].type = ty, k \in t[i].shares
               PROVE  Has(q, ty, k)
    BY DEF Has
  <2>1. i + 1 \in DOMAIN q /\ q[i + 1] = t[i]
    BY <1>1
  <2> QED
    BY <2>1 DEF Has
<1>3. \A ty, k : Has(q, ty, k) => Has(t, ty, k) \/ (Head(q).type = ty /\ k \in Head(q).shares)
  BY <1>1 DEF Has
<1>4. HasAnn(q) => HasAnn(t) \/ Head(q).type = "ann"
  <2>1. ASSUME NEW i \in DOMAIN q, q[i].type = "ann", i # 1
        PROVE  HasAnn(t)
    <3>1. i - 1 \in DOMAIN t /\ t[i - 1] = q[i]
      BY <1>1, <2>1
    <3> QED
      BY <2>1, <3>1 DEF HasAnn
  <2> QED
    BY <1>1, <2>1 DEF HasAnn
<1>5. ASSUME NEW m, NEW c, AnnFirst(q, m, c)
      PROVE  /\ \A w : (Known(m, c) \/ Head(q).type = "ann" => Known(w, c)) => AnnFirst(t, w, c)
             /\ Head(q).type = "ann" => Head(q).id = 1
             /\ Head(q).type \in {"inv", "get", "batch"} => Head(q).id = 1 /\ Known(m, c)
  <2>1. \A j \in DOMAIN q : ~(j < 1)
    BY <1>1, SMT
  <2>2. /\ Head(q).type = "ann" => Head(q).id = 1
        /\ Head(q).type \in {"inv", "get", "batch"} => Head(q).id = 1 /\ Known(m, c)
    BY <1>1, <1>5, <2>1 DEF AnnFirst
  <2>3. ASSUME NEW i \in DOMAIN t, t[i].type \in {"inv", "get", "batch"}
        PROVE  /\ t[i].id = 1
               /\ (Known(m, c) \/ Head(q).type = "ann") \/ \E j \in DOMAIN t : j < i /\ t[j].type = "ann"
    <3>1. i + 1 \in DOMAIN q /\ t[i] = q[i + 1]
      BY <1>1
    <3>2. /\ q[i + 1].id = 1
          /\ Known(m, c) \/ \E j \in DOMAIN q : j < i + 1 /\ q[j].type = "ann"
      BY <1>5, <2>3, <3>1 DEF AnnFirst
    <3>3. ASSUME NEW j \in DOMAIN q, j < i + 1, q[j].type = "ann"
          PROVE  Head(q).type = "ann" \/ \E l \in DOMAIN t : l < i /\ t[l].type = "ann"
      <4>1. CASE j = 1
        BY <1>1, <3>3, <4>1
      <4>2. CASE j # 1
        <5>1. j - 1 \in DOMAIN t /\ t[j - 1] = q[j]
          BY <1>1, <4>2
        <5>2. j - 1 < i
          BY <1>1, <3>3, SMT
        <5> QED
          BY <3>3, <5>1, <5>2
      <4> QED
        BY <4>1, <4>2
    <3> QED
      BY <3>1, <3>2, <3>3
  <2>4. ASSUME NEW i \in DOMAIN t, t[i].type = "ann" PROVE t[i].id = 1
    <3>1. i + 1 \in DOMAIN q /\ t[i] = q[i + 1]
      BY <1>1
    <3> QED
      BY <1>5, <2>4, <3>1 DEF AnnFirst
  <2> QED
    BY <2>2, <2>3, <2>4 DEF AnnFirst
<1> QED
  BY <1>2, <1>3, <1>4, <1>5 DEF t

(* n takes the first of the messages from p.                               *)
LEMMA ReceiveSender ==
    ASSUME NEW a, NEW b, NEW n, NEW p, NEW out, NEW inn \in Seq(Messages), inn # <<>>,
           Pair(a, b, n, p, out, inn), Pair(b, a, p, n, inn, out),
           NEW w, Received(a, w, p, Head(inn))
    PROVE  Pair(w, b, n, p, out, Tail(inn))
<1> DEFINE msg == Head(inn)
           q == Tail(inn)
<1> SUFFICES ASSUME ~b.recovered, ~w.recovered PROVE Flow(w, b, n, p, out, q)
  BY DEF Pair
<1>1. ~a.recovered
  BY DEF Received
<1>2. Flow(a, b, n, p, out, inn) /\ Flow(b, a, p, n, inn, out)
  BY <1>1 DEF Pair
<1>3. msg \in Messages
  BY SMT
<1>4. /\ \A ty, k : Has(q, ty, k) => Has(inn, ty, k)
      /\ \A ty, k : Has(inn, ty, k) => Has(q, ty, k) \/ (msg.type = ty /\ k \in msg.shares)
      /\ \A ty, k : msg.type = ty /\ k \in msg.shares => Has(inn, ty, k)
  <2>1. 1 \in DOMAIN inn /\ msg = inn[1]
    BY SMT
  <2>2. \A ty, k : msg.type = ty /\ k \in msg.shares => Has(inn, ty, k)
    BY <2>1 DEF Has
  <2> QED
    BY <2>2, TailOf
<1>5. msg.shares \subseteq Nodes
  BY <1>3 DEF Messages
<1>6. \A k \in Of(msg, {"inv"}) : Has(inn, "inv", k) /\ k \in Nodes
  BY <1>4, <1>5 DEF Of
<1>7. \A k \in Of(msg, {"get"}) : Has(inn, "get", k) /\ k \in Nodes
  BY <1>4, <1>5 DEF Of
<1>8. Of(msg, {"inv", "get"}) \subseteq Of(msg, {"inv"}) \cup Of(msg, {"get"})
  BY DEF Of
<1>9. \A k : Has(inn, "get", k) => Has(q, "get", k) \/ k \in Of(msg, {"get"})
  BY <1>4 DEF Of
<1>10. IdInv(w, p) /\ (SessionOf(w, p).send = 1 => Known(b, n) \/ HasAnn(out))
  BY <1>1, <1>2 DEF Flow, IdInv, Received
<1>11. /\ SessionOf(w, p).requested = SessionOf(a, p).requested \cup Of(msg, {"get"})
       /\ SessionOf(w, p).knows = SessionOf(a, p).knows \cup Of(msg, {"inv", "get"})
       /\ w.sigShares = a.sigShares
  BY <1>1 DEF Received
<1> HIDE DEF msg, q
<1>12. ASSUME NEW k \in Nodes, Offered(k, w, b, n, p, out, q) PROVE k \in w.sigShares
  BY <1>2, <1>4, <1>7, <1>11, <1>12 DEF Flow, Offered
<1>13. \A k \in Of(msg, {"inv"}) : k \in b.sigShares
  BY <1>2, <1>6 DEF Flow, Offered
<1>14. ASSUME NEW k \in Nodes, k \in SessionOf(w, p).knows PROVE Via(k, w, b, n, p, out, q)
  <2>1. CASE k \in SessionOf(a, p).knows
    BY <1>2, <1>9, <1>11, <2>1 DEF Flow, Via
  <2>2. CASE k \notin SessionOf(a, p).knows
    BY <1>8, <1>11, <1>13, <1>14, <2>2 DEF Via
  <2> QED
    BY <2>1, <2>2
<1> QED
  BY <1>10, <1>12, <1>14 DEF Flow, q

(* p takes the first of the messages from n.                               *)
LEMMA ReceiveReceiver ==
    ASSUME NEW a, NEW b, NEW n, NEW p, NEW out \in Seq(Messages), out # <<>>, NEW inn,
           Pair(a, b, n, p, out, inn),
           NEW w, Received(b, w, n, Head(out))
    PROVE  Pair(a, w, n, p, Tail(out), inn)
<1> DEFINE msg == Head(out)
           q == Tail(out)
<1> SUFFICES ASSUME ~w.recovered
             PROVE  AnnFirst(q, w, n) /\ (~a.recovered => Flow(a, w, n, p, q, inn))
  BY DEF Pair
<1>1. ~b.recovered
  BY DEF Received
<1>2. msg \in Messages /\ 1 \in DOMAIN out /\ msg = out[1]
  BY SMT
<1>3. AnnFirst(out, b, n)
  BY <1>1 DEF Pair
<1>4. Known(b, n) \/ msg.type = "ann" => Known(w, n)
  <2>1. msg.type = "ann" => msg.id = 1
    BY <1>3, TailOf
  <2> QED
    BY <1>1, <2>1 DEF Known, Received
<1>5. AnnFirst(q, w, n)
  BY <1>3, <1>4, TailOf
<1>6. ASSUME ~a.recovered PROVE Flow(a, w, n, p, q, inn)
  <2>1. Flow(a, b, n, p, out, inn)
    BY <1>1, <1>6 DEF Pair
  <2>2. /\ \A ty, k : Has(q, ty, k) => Has(out, ty, k)
        /\ \A ty, k : Has(out, ty, k) => Has(q, ty, k) \/ (msg.type = ty /\ k \in msg.shares)
        /\ \A ty, k : msg.type = ty /\ k \in msg.shares => Has(out, ty, k)
    <3>1. \A ty, k : msg.type = ty /\ k \in msg.shares => Has(out, ty, k)
      BY <1>2 DEF Has
    <3> QED
      BY <3>1, TailOf
  <2>3. HasAnn(out) => HasAnn(q) \/ msg.type = "ann"
    BY TailOf
  <2>4. IdInv(a, p) /\ (SessionOf(a, p).send = 1 => Known(w, n) \/ HasAnn(q))
    BY <1>4, <2>1, <2>3 DEF Flow
  <2>5. \A k \in Of(msg, {"inv"}) : Has(out, "inv", k)
    BY <2>2 DEF Of
  <2>6. /\ \A k : Has(out, "inv", k) => Has(q, "inv", k) \/ k \in Of(msg, {"inv"})
        /\ \A k : Has(out, "batch", k) => Has(q, "batch", k) \/ k \in Of(msg, {"batch"})
    BY <2>2 DEF Of
  <2>7. /\ SessionOf(w, n).announced = SessionOf(b, n).announced \cup Of(msg, {"inv"})
        /\ w.sigShares = b.sigShares
        /\ Incoming(b, n) \cup Of(msg, {"batch"}) \subseteq Incoming(w, n) \cup w.sigShares
    BY <1>1 DEF Received
  <2> HIDE DEF msg, q
  <2>8. ASSUME NEW k \in Nodes, Offered(k, a, w, n, p, q, inn) PROVE k \in a.sigShares
    BY <2>1, <2>2, <2>5, <2>7, <2>8 DEF Flow, Offered
  <2>9. ASSUME NEW k \in Nodes, k \in SessionOf(a, p).knows PROVE Via(k, a, w, n, p, q, inn)
    <3>1. Via(k, a, b, n, p, out, inn)
      BY <2>1, <2>9 DEF Flow
    <3> QED
      BY <2>6, <2>7, <3>1 DEF Via
  <2> QED
    BY <2>4, <2>8, <2>9 DEF Flow, q
<1> QED
  BY <1>5, <1>6

(* What a member that sends the messages of q to node c does about it.     *)
SentBy(m, w, c, q) ==
    /\ w.recovered = m.recovered
    /\ w.sigShares = m.sigShares /\ Incoming(w, c) = Incoming(m, c)
    /\ StateOf(w, c).byRecv = StateOf(m, c).byRecv
    /\ ~m.recovered /\ IdInv(m, c) =>
        /\ IdInv(w, c)
        /\ SessionOf(w, c).send = 1 => SessionOf(m, c).send = 1 \/ HasAnn(q)
    /\ m.recovered \/ IdInv(m, c) => \A i \in DOMAIN q :
        /\ q[i].type = "ann" => q[i].id = 1
        /\ q[i].type \in {"inv", "get", "batch"} =>
            /\ q[i].id = 1
            /\ \/ ~m.recovered /\ SessionOf(m, c).send = 1
               \/ \E j \in DOMAIN q : j < i /\ q[j].type = "ann"
    /\ SessionOf(w, c).announced \subseteq SessionOf(m, c).announced
    /\ \A k \in SessionOf(m, c).announced :
           k \in SessionOf(w, c).announced \/ k \in m.sigShares \/ Has(q, "get", k)
    /\ \A k : Has(q, "get", k) => k \in SessionOf(m, c).announced
    /\ SessionOf(w, c).requested \subseteq SessionOf(m, c).requested
    /\ \A k \in SessionOf(m, c).requested \cap m.sigShares :
           k \in SessionOf(w, c).requested \/ Has(q, "batch", k)
    /\ \A k \in SessionOf(w, c).knows : k \in SessionOf(m, c).knows \/ Has(q, "inv", k)
    /\ \A k : Has(q, "inv", k) => k \in m.sigShares

(* Messages after messages.                                                *)
LEMMA Concat ==
    ASSUME NEW q \in Seq(Messages), NEW r \in Seq(Messages)
    PROVE  /\ \A i \in DOMAIN q : i \in Nat /\ i \in DOMAIN (q \o r) /\ (q \o r)[i] = q[i]
           /\ \A i \in DOMAIN r : /\ i \in Nat /\ Len(q) + i \in DOMAIN (q \o r)
                                  /\ (q \o r)[Len(q) + i] = r[i]
                                  /\ \A j \in DOMAIN q : j < Len(q) + i
           /\ \A i \in DOMAIN (q \o r) :
                  i \in DOMAIN q \/ \E j \in DOMAIN r : i = Len(q) + j
           /\ \A i, j \in DOMAIN r : i < j => Len(q) + i < Len(q) + j
<1> DEFINE s == q \o r
<1>1. /\ Len(q) \in Nat /\ Len(r) \in Nat /\ Len(s) = Len(q) + Len(r)
      /\ DOMAIN q = 1..Len(q) /\ DOMAIN r = 1..Len(r) /\ DOMAIN s = 1..Len(s)
  BY SMT
<1>2. /\ \A i \in 1..Len(s) : i <= Len(q) => s[i] = q[i]
      /\ \A i \in 1..Len(s) : ~(i <= Len(q)) => s[i] = r[i - Len(q)]
  BY SMT
<1> HIDE DEF s
<1>3. \A i \in DOMAIN q : i \in Nat /\ i \in DOMAIN s /\ s[i] = q[i]
  BY <1>1, <1>2, SMT
<1>4. ASSUME NEW i \in DOMAIN r
      PROVE  /\ i \in Nat /\ Len(q) + i \in DOMAIN s /\ s[Len(q) + i] = r[i]
             /\ \A j \in DOMAIN q : j < Len(q) + i
             /\ \A j \in DOMAIN r : i < j => Len(q) + i < Len(q) + j
  <2>1. /\ i \in Nat /\ Len(q) + i \in 1..Len(s) /\ ~(Len(q) + i <= Len(q))
        /\ Len(q) + i - Len(q) = i
    BY <1>1, SMT
  <2>2. s[Len(q) + i] = r[i]
    BY <1>2, <2>1, SMT
  <2>3. /\ \A j \in DOMAIN q : j < Len(q) + i
        /\ \A j \in DOMAIN r : i < j => Len(q) + i < Len(q) + j
    BY <1>1, SMT
  <2> QED
    BY <1>1, <2>1, <2>2, <2>3
<1>5. ASSUME NEW i \in DOMAIN s PROVE i \in DOMAIN q \/ \E j \in DOMAIN r : i = Len(q) + j
  <2>1. i \in DOMAIN q \/ (i - Len(q) \in DOMAIN r /\ i = Len(q) + (i - Len(q)))
    BY <1>1, SMT
  <2> QED
    BY <2>1
<1> QED
  BY <1>3, <1>4, <1>5 DEF s

(* So they say what both say.                                              *)
LEMMA ConcatHas ==
    ASSUME NEW q \in Seq(Messages), NEW r \in Seq(Messages)
    PROVE  /\ \A ty, k : Has(q \o r, ty, k) <=> Has(q, ty, k) \/ Has(r, ty, k)
           /\ HasAnn(q \o r) <=> HasAnn(q) \/ HasAnn(r)
<1> DEFINE s == q \o r
<1>1. /\ \A i \in DOMAIN q : i \in DOMAIN s /\ s[i] = q[i]
      /\ \A i \in DOMAIN r : Len(q) + i \in DOMAIN s /\ s[Len(q) + i] = r[i]
      /\ \A i \in DOMAIN s : i \in DOMAIN q \/ \E j \in DOMAIN r : i = Len(q) + j
  BY Concat
<1> HIDE DEF s
<1>2. \A i \in DOMAIN s : (\E j \in DOMAIN q : s[i] = q[j]) \/ (\E j \in DOMAIN r : s[i] = r[j])
  BY <1>1
<1>3. ASSUME NEW ty, NEW k PROVE Has(s, ty, k) <=> Has(q, ty, k) \/ Has(r, ty, k)
  <2>1. Has(s, ty, k) => Has(q, ty, k) \/ Has(r, ty, k)
    BY <1>2 DEF Has
  <2>2. Has(q, ty, k) => Has(s, ty, k)
    BY <1>1 DEF Has
  <2>3. Has(r, ty, k) => Has(s, ty, k)
    BY <1>1 DEF Has
  <2> QED
    BY <2>1, <2>2, <2>3
<1>4. HasAnn(s) <=> HasAnn(q) \/ HasAnn(r)
  <2>1. HasAnn(s) => HasAnn(q) \/ HasAnn(r)
    BY <1>2 DEF HasAnn
  <2>2. HasAnn(q) => HasAnn(s)
    BY <1>1 DEF HasAnn
  <2>3. HasAnn(r) => HasAnn(s)
    BY <1>1 DEF HasAnn
  <2> QED
    BY <2>1, <2>2, <2>3
<1> QED
  BY <1>3, <1>4 DEF s

(* n sends the messages of q to p.                                         *)
LEMMA SendSender ==
    ASSUME NEW a, NEW b, NEW n, NEW p, NEW out \in Seq(Messages), NEW inn,
           Pair(a, b, n, p, out, inn), NEW q \in Seq(Messages),
           NEW w, SentBy(a, w, p, q)
    PROVE  Pair(w, b, n, p, out \o q, inn)
<1> DEFINE s == out \o q
<1> SUFFICES ASSUME ~b.recovered
             PROVE  AnnFirst(s, b, n) /\ (~w.recovered => Flow(w, b, n, p, s, inn))
  BY DEF Pair
<1>1. AnnFirst(out, b, n) /\ (~a.recovered => Flow(a, b, n, p, out, inn))
  BY DEF Pair
<1>2. /\ \A ty, k : Has(s, ty, k) <=> Has(out, ty, k) \/ Has(q, ty, k)
      /\ HasAnn(s) <=> HasAnn(out) \/ HasAnn(q)
  BY ConcatHas
<1>3. /\ \A i \in DOMAIN out : i \in DOMAIN s /\ s[i] = out[i]
      /\ \A i \in DOMAIN q : /\ Len(out) + i \in DOMAIN s /\ s[Len(out) + i] = q[i]
                             /\ \A j \in DOMAIN out : j < Len(out) + i
      /\ \A i \in DOMAIN s : i \in DOMAIN out \/ \E j \in DOMAIN q : i = Len(out) + j
      /\ \A i, j \in DOMAIN q : i < j => Len(out) + i < Len(out) + j
  BY Concat
<1>4. ASSUME NEW i \in DOMAIN q
      PROVE  /\ q[i].type = "ann" => q[i].id = 1
             /\ q[i].type \in {"inv", "get", "batch"} =>
                    /\ q[i].id = 1
                    /\ \/ Known(b, n) \/ HasAnn(out)
                       \/ \E j \in DOMAIN q : j < i /\ q[j].type = "ann"
  <2>1. a.recovered \/ IdInv(a, p)
    BY <1>1 DEF Flow
  <2>2. ~a.recovered /\ SessionOf(a, p).send = 1 => Known(b, n) \/ HasAnn(out)
    BY <1>1 DEF Flow
  <2> QED
    BY <2>1, <2>2 DEF SentBy
<1> HIDE DEF s
<1>5. ASSUME NEW i \in DOMAIN s
      PROVE  /\ s[i].type = "ann" => s[i].id = 1
             /\ s[i].type \in {"inv", "get", "batch"} =>
                    s[i].id = 1 /\ (Known(b, n) \/ \E j \in DOMAIN s : j < i /\ s[j].type = "ann")
  <2>1. CASE i \in DOMAIN out
    <3>1. /\ out[i].type = "ann" => out[i].id = 1
          /\ out[i].type \in {"inv", "get", "batch"} =>
                 out[i].id = 1 /\ (Known(b, n) \/ \E j \in DOMAIN out : j < i /\ out[j].type = "ann")
      BY <1>1, <2>1 DEF AnnFirst
    <3>2. s[i] = out[i] /\ \A j \in DOMAIN out : j \in DOMAIN s /\ s[j] = out[j]
      BY <1>3, <2>1
    <3> QED
      BY <3>1, <3>2
  <2>2. ASSUME NEW l \in DOMAIN q, i = Len(out) + l
        PROVE  /\ s[i].type = "ann" => s[i].id = 1
               /\ s[i].type \in {"inv", "get", "batch"} =>
                      s[i].id = 1 /\ (Known(b, n) \/ \E j \in DOMAIN s : j < i /\ s[j].type = "ann")
    <3>1. s[i] = q[l]
      BY <1>3, <2>2
    <3>2. HasAnn(out) => \E j \in DOMAIN s : j < i /\ s[j].type = "ann"
      BY <1>3, <2>2 DEF HasAnn
    <3>3. (\E j \in DOMAIN q : j < l /\ q[j].type = "ann") =>
              \E j \in DOMAIN s : j < i /\ s[j].type = "ann"
      BY <1>3, <2>2
    <3> QED
      BY <1>4, <3>1, <3>2, <3>3
  <2> QED
    BY <1>3, <2>1, <2>2
<1>6. AnnFirst(s, b, n)
  BY <1>5 DEF AnnFirst
<1>7. ASSUME ~w.recovered PROVE Flow(w, b, n, p, s, inn)
  <2>1. ~a.recovered /\ Flow(a, b, n, p, out, inn)
    BY <1>1, <1>7 DEF SentBy
  <2>2. IdInv(w, p) /\ (SessionOf(w, p).send = 1 => Known(b, n) \/ HasAnn(s))
    BY <1>2, <2>1 DEF Flow, SentBy
  <2>3. ASSUME NEW k \in Nodes, Offered(k, w, b, n, p, s, inn) PROVE k \in w.sigShares
    <3>1. Offered(k, a, b, n, p, out, inn) \/ Has(q, "inv", k)
      BY <1>2, <2>3 DEF Offered, SentBy
    <3> QED
      BY <2>1, <3>1 DEF Flow, SentBy
  <2>4. SessionOf(a, p).requested \cap Nodes \subseteq a.sigShares
    BY <2>1 DEF Flow, Offered
  <2>5. ASSUME NEW k \in Nodes, k \in SessionOf(w, p).knows PROVE Via(k, w, b, n, p, s, inn)
    <3>1. CASE Has(q, "inv", k)
      BY <1>2, <3>1 DEF Via
    <3>2. CASE k \in SessionOf(a, p).knows
      <4>1. Via(k, a, b, n, p, out, inn)
        BY <2>1, <3>2 DEF Flow
      <4>2. k \in SessionOf(a, p).requested => k \in SessionOf(w, p).requested \/ Has(q, "batch", k)
        BY <2>4, <2>5 DEF SentBy
      <4> QED
        BY <1>2, <4>1, <4>2 DEF Via
    <3> QED
      BY <2>5, <3>1, <3>2 DEF SentBy
  <2> QED
    BY <2>2, <2>3, <2>5 DEF Flow
<1> QED
  BY <1>6, <1>7

(* p sends the messages of q to n.                                         *)
LEMMA SendReceiver ==
    ASSUME NEW a, NEW b, NEW n, NEW p, NEW out, NEW inn \in Seq(Messages),
           Pair(a, b, n, p, out, inn), NEW q \in Seq(Messages),
           NEW w, SentBy(b, w, n, q)
    PROVE  Pair(a, w, n, p, out, inn \o q)
<1> DEFINE s == inn \o q
<1> SUFFICES ASSUME ~w.recovered
             PROVE  AnnFirst(out, w, n) /\ (~a.recovered => Flow(a, w, n, p, out, s))
  BY DEF Pair
<1>1. ~b.recovered /\ Known(w, n) = Known(b, n)
  BY DEF SentBy, Known
<1>2. AnnFirst(out, w, n)
  BY <1>1 DEF Pair, AnnFirst
<1>3. \A ty, k : Has(s, ty, k) <=> Has(inn, ty, k) \/ Has(q, ty, k)
  BY ConcatHas
<1> HIDE DEF s
<1>4. ASSUME ~a.recovered PROVE Flow(a, w, n, p, out, s)
  <2>1. Flow(a, b, n, p, out, inn)
    BY <1>1, <1>4 DEF Pair
  <2>2. IdInv(a, p) /\ (SessionOf(a, p).send = 1 => Known(w, n) \/ HasAnn(out))
    BY <1>1, <2>1 DEF Flow
  <2>3. ASSUME NEW k \in Nodes, Offered(k, a, w, n, p, out, s) PROVE k \in a.sigShares
    <3>1. Offered(k, a, b, n, p, out, inn)
      BY <1>3, <2>3 DEF Offered, SentBy
    <3> QED
      BY <2>1, <3>1 DEF Flow
  <2>4. ASSUME NEW k \in Nodes, k \in SessionOf(a, p).knows PROVE Via(k, a, w, n, p, out, s)
    <3>1. Via(k, a, b, n, p, out, inn)
      BY <2>1, <2>4 DEF Flow
    <3> QED
      BY <1>3, <3>1 DEF Via, SentBy
  <2> QED
    BY <2>2, <2>3, <2>4 DEF Flow
<1> QED
  BY <1>2, <1>4
-----------------------------------------------------------------------------
(* Of the states of nodes, Put changes one.                                *)
LEMMA PutFields ==
    ASSUME NEW m \in Managers, NEW c, NEW s
    PROVE  /\ Put(m, c, s).recovered = m.recovered /\ Put(m, c, s).sigShares = m.sigShares
           /\ Put(m, c, s).hand = m.hand /\ Put(m, c, s).misbehaved = m.misbehaved
           /\ Put(m, c, s).queued = m.queued
           /\ StateOf(Put(m, c, s), c) = s
           /\ \A d : d # c => StateOf(Put(m, c, s), d) = StateOf(m, d)
<1> DEFINE f == [d \in DOMAIN m.nodeStates \cup {c} |-> IF d = c THEN s ELSE m.nodeStates[d]]
           w == [m EXCEPT !.nodeStates = f]
<1>1. Put(m, c, s) = w
  BY DEF Put
<1>2. /\ DOMAIN f = DOMAIN m.nodeStates \cup {c} /\ f[c] = s
      /\ \A d \in DOMAIN m.nodeStates : d # c => f[d] = m.nodeStates[d]
  OBVIOUS
<1> HIDE DEF f
<1>3. /\ w.nodeStates = f /\ w.recovered = m.recovered /\ w.sigShares = m.sigShares
      /\ w.hand = m.hand /\ w.misbehaved = m.misbehaved /\ w.queued = m.queued
  BY DEF Managers
<1> HIDE DEF w
<1>4. StateOf(w, c) = s /\ \A d : d # c => StateOf(w, d) = StateOf(m, d)
  BY <1>2, <1>3 DEF StateOf
<1> QED
  BY <1>1, <1>3, <1>4

(* A step that leaves a node's state alone, or changes only what does not  *)
(* matter, and may add shares.                                             *)
LEMMA SameState ==
    ASSUME NEW m, NEW w, NEW c, m.recovered => w.recovered,
           m.sigShares \subseteq w.sigShares, StateOf(w, c) = StateOf(m, c),
           w.hand = m.hand \/ m.hand = None
    PROVE  Kept(m, w, c)
BY DEF Kept, SessionKept, SessionOf, Incoming

(* A node state with some session.                                         *)
LEMMA HasSession ==
    ASSUME NEW s, s.session \in Sessions
    PROVE  GetOrCreate(s) = s.session
BY SetupAssumption DEF GetOrCreate

(* What is incoming depends on pending and hand.                           *)
LEMMA SameIncoming ==
    ASSUME NEW m, NEW w, NEW c, w.hand = m.hand, StateOf(w, c).pending = StateOf(m, c).pending
    PROVE  Incoming(w, c) = Incoming(m, c)
BY DEF Incoming

(* The announcement of a session.                                          *)
LEMMA SesAnnReceived ==
    ASSUME NEW m, ManagerInv(m), m.hand = None, NEW c \in Nodes,
           NEW msg \in Messages, msg.type = "ann"
    PROVE  LET w == ProcessMessageSigSesAnn(m, c, msg)
           IN  /\ Received(m, w, c, msg)
               /\ \A d : d # c => Kept(m, w, d)
               /\ w.misbehaved = m.misbehaved /\ w.queued = m.queued
<1> DEFINE s == StateOf(m, c)
           t == GetOrCreate(s)
           b == (s.byRecv \ {t.recv, msg.id}) \cup {msg.id}
           u == [t EXCEPT !.recv = msg.id]
           r == [s EXCEPT !.byRecv = b, !.session = u]
           w == Put(m, c, r)
<1>1. s \in NodeStates /\ Sound(s) /\ m \in Managers
  BY StateOfType DEF ManagerInv
<1>2. t \in Sessions
  BY <1>1, GetOrCreateType
<1>3. /\ u \in Sessions /\ u.send = t.send /\ u.announced = t.announced
      /\ u.requested = t.requested /\ u.knows = t.knows
  BY <1>2 DEF Sessions, Messages
<1>4. s.byRecv \ {t.recv, msg.id} = {}
  BY <1>1 DEF Sound, GetOrCreate
<1>5. b = {msg.id}
  BY <1>4
<1>6. ProcessMessageSigSesAnn(m, c, msg) = w
  BY DEF ProcessMessageSigSesAnn
<1> HIDE DEF b, u
<1>7. r.byRecv = b /\ r.session = u /\ r.nextSend = s.nextSend /\ r.pending = s.pending
  BY <1>1 DEF NodeStates
<1> HIDE DEF r
<1>8. /\ w.recovered = m.recovered /\ w.sigShares = m.sigShares /\ w.hand = m.hand
      /\ w.misbehaved = m.misbehaved /\ w.queued = m.queued
      /\ StateOf(w, c) = r /\ \A d : d # c => StateOf(w, d) = StateOf(m, d)
  BY <1>1, PutFields, SMT
<1> HIDE DEF w
<1>9. SessionOf(w, c) = u /\ SessionOf(m, c) = t
  BY <1>3, <1>7, <1>8, HasSession DEF SessionOf
<1>10. Incoming(w, c) = Incoming(m, c)
  BY <1>7, <1>8, SameIncoming
<1>11. Of(msg, {"inv"}) = {} /\ Of(msg, {"get"}) = {} /\ Of(msg, {"inv", "get"}) = {}
       /\ Of(msg, {"batch"}) = {}
  BY DEF Of
<1>12. Received(m, w, c, msg)
  BY <1>3, <1>5, <1>7, <1>8, <1>9, <1>10, <1>11 DEF Received
<1>13. \A d : d # c => Kept(m, w, d)
  BY <1>8, SameState
<1> QED
  BY <1>6, <1>8, <1>12, <1>13

(* The announcement or the request of shares.                              *)
LEMMA InvReceived ==
    ASSUME NEW m, ManagerInv(m), m.hand = None, NEW c \in Nodes,
           NEW msg \in Messages, msg.type \in {"inv", "get"}, msg.id \in StateOf(m, c).byRecv,
           NEW w, w = IF msg.type = "inv" THEN ProcessMessageSigSharesInv(m, c, msg)
                      ELSE ProcessMessageGetSigShares(m, c, msg)
    PROVE  /\ Received(m, w, c, msg)
           /\ \A d : d # c => Kept(m, w, d)
           /\ w.misbehaved = m.misbehaved /\ w.queued = m.queued
<1> DEFINE s == StateOf(m, c)
           t == s.session
           ta == [t EXCEPT !.announced = @ \cup msg.shares, !.knows = @ \cup msg.shares]
           tr == [t EXCEPT !.requested = @ \cup msg.shares, !.knows = @ \cup msg.shares]
           u == IF msg.type = "inv" THEN ta ELSE tr
           r == [s EXCEPT !.session = u]
           p == Put(m, c, r)
<1>1. s \in NodeStates /\ Sound(s) /\ m \in Managers
  BY StateOfType DEF ManagerInv
<1>2. CASE m.recovered
  <2>1. w = m
    BY <1>2 DEF ProcessMessageSigSharesInv, ProcessMessageGetSigShares
  <2> QED
    BY <1>2, <2>1, SameState DEF Received
<1>3. CASE ~m.recovered
  <2>1. t # None
    BY <1>1 DEF Sound
  <2>2. t \in Sessions /\ GetOrCreate(s) = t
    BY <1>1, <2>1 DEF NodeStates, GetOrCreate
  <2>3. w = p
    BY <1>3 DEF ProcessMessageSigSharesInv, ProcessMessageGetSigShares
  <2> HIDE DEF t
  <2>4. /\ ta \in Sessions /\ ta.send = t.send /\ ta.announced = t.announced \cup msg.shares
        /\ ta.requested = t.requested /\ ta.knows = t.knows \cup msg.shares
    BY <2>2 DEF Sessions, Messages
  <2>5. /\ tr \in Sessions /\ tr.send = t.send /\ tr.announced = t.announced
        /\ tr.requested = t.requested \cup msg.shares /\ tr.knows = t.knows \cup msg.shares
    BY <2>2 DEF Sessions, Messages
  <2> HIDE DEF ta, tr
  <2>6. /\ u \in Sessions /\ u.send = t.send /\ u.announced = t.announced \cup Of(msg, {"inv"})
        /\ u.requested = t.requested \cup Of(msg, {"get"})
        /\ u.knows = t.knows \cup Of(msg, {"inv", "get"}) /\ Of(msg, {"batch"}) = {}
    BY <2>4, <2>5 DEF Of
  <2> HIDE DEF u
  <2>7. r.byRecv = s.byRecv /\ r.session = u /\ r.nextSend = s.nextSend /\ r.pending = s.pending
    BY <1>1 DEF NodeStates
  <2> HIDE DEF r
  <2>8. /\ w.recovered = m.recovered /\ w.sigShares = m.sigShares /\ w.hand = m.hand
        /\ w.misbehaved = m.misbehaved /\ w.queued = m.queued
        /\ StateOf(w, c) = r /\ \A d : d # c => StateOf(w, d) = StateOf(m, d)
    BY <1>1, <2>3, PutFields, SMT
  <2>9. SessionOf(w, c) = u /\ SessionOf(m, c) = t
    BY <2>2, <2>6, <2>7, <2>8, HasSession DEF SessionOf
  <2>10. Incoming(w, c) = Incoming(m, c)
    BY <2>7, <2>8, SameIncoming
  <2>11. msg.type # "ann"
    OBVIOUS
  <2>12. Received(m, w, c, msg)
    BY <2>6, <2>7, <2>8, <2>9, <2>10, <2>11 DEF Received
  <2>13. \A d : d # c => Kept(m, w, d)
    BY <2>8, SameState
  <2> QED
    BY <2>8, <2>12, <2>13
<1> QED
  BY <1>2, <1>3

(* A batch of shares: those that n lacks are about to be verified.         *)
LEMMA BatchReceived ==
    ASSUME NEW m, ManagerInv(m), m.hand = None, NEW c \in Nodes,
           NEW msg \in Messages, msg.type = "batch", msg.id \in StateOf(m, c).byRecv
    PROVE  LET w == ProcessMessageBatchedSigShares(m, c, msg)
           IN  /\ Received(m, w, c, msg)
               /\ \A d : d # c => Kept(m, w, d)
               /\ w.misbehaved = m.misbehaved /\ w.queued = m.queued
<1> DEFINE s == StateOf(m, c)
           r == [s EXCEPT !.req = @ \ msg.shares, !.old = @ \ msg.shares]
           h == IF m.recovered \/ msg.shares \subseteq m.sigShares THEN None
                ELSE [from |-> c, shares |-> msg.shares \ m.sigShares]
           p == Put(m, c, r)
           w == [p EXCEPT !.hand = h]
<1>1. s \in NodeStates /\ Sound(s) /\ m \in Managers
  BY StateOfType DEF ManagerInv
<1>2. w = ProcessMessageBatchedSigShares(m, c, msg)
  BY DEF ProcessMessageBatchedSigShares
<1>3. /\ r \in NodeStates /\ r.byRecv = s.byRecv /\ r.session = s.session
      /\ r.nextSend = s.nextSend /\ r.pending = s.pending
  BY <1>1 DEF NodeStates
<1>4. r.req \subseteq s.req /\ s.old \cap r.req \subseteq r.old /\ r.banned = s.banned
  BY <1>1 DEF NodeStates
<1> HIDE DEF r
<1>5. Sound(r)
  BY <1>1, <1>3, <1>4 DEF Sound
<1>6. p \in Managers
  BY <1>3, <1>4, <1>5, PutRight DEF ManagerInv
<1>7. /\ p.recovered = m.recovered /\ p.sigShares = m.sigShares /\ p.hand = m.hand
      /\ p.misbehaved = m.misbehaved /\ p.queued = m.queued
      /\ StateOf(p, c) = r /\ \A d : d # c => StateOf(p, d) = StateOf(m, d)
  BY <1>1, PutFields, SMT
<1>8. ~m.recovered => msg.shares \subseteq m.sigShares \/
          (h # None /\ h.from = c /\ h.shares = msg.shares \ m.sigShares)
  <2> DEFINE x == [from |-> c, shares |-> msg.shares \ m.sigShares]
  <2>1. x \in Hands /\ x.from = c /\ x.shares = msg.shares \ m.sigShares
    BY DEF Hands, Messages
  <2>2. x # None
    BY <2>1, SetupAssumption
  <2> HIDE DEF x
  <2>3. h = IF m.recovered \/ msg.shares \subseteq m.sigShares THEN None ELSE x
    BY DEF x
  <2> HIDE DEF h
  <2> QED
    BY <2>1, <2>2, <2>3
<1> HIDE DEF p, h
<1>9. /\ w.nodeStates = p.nodeStates /\ w.recovered = p.recovered /\ w.sigShares = p.sigShares
      /\ w.misbehaved = p.misbehaved /\ w.queued = p.queued /\ w.hand = h
  BY <1>6 DEF Managers
<1> HIDE DEF w
<1>10. \A d : StateOf(w, d) = StateOf(p, d)
  BY <1>9 DEF StateOf
<1>11. SessionOf(w, c) = SessionOf(m, c)
  BY <1>3, <1>7, <1>10 DEF SessionOf, GetOrCreate
<1>12. ~m.recovered => Incoming(m, c) \cup msg.shares \subseteq Incoming(w, c) \cup m.sigShares
  <2>1. msg.shares \subseteq Nodes
    BY DEF Messages
  <2>2. Incoming(m, c) = s.pending /\ StateOf(w, c).pending = s.pending
    BY <1>3, <1>7, <1>10 DEF Incoming
  <2>3. StateOf(w, c).pending \subseteq Incoming(w, c)
    BY DEF Incoming
  <2>4. ~m.recovered => msg.shares \subseteq Incoming(w, c) \cup m.sigShares
    BY <1>8, <1>9, <2>1 DEF Incoming
  <2> QED
    BY <2>2, <2>3, <2>4
<1>13. Of(msg, {"inv"}) = {} /\ Of(msg, {"get"}) = {} /\ Of(msg, {"inv", "get"}) = {}
       /\ Of(msg, {"batch"}) = msg.shares
  BY DEF Of
<1>14. Received(m, w, c, msg)
  BY <1>3, <1>7, <1>9, <1>10, <1>11, <1>12, <1>13 DEF Received
<1>15. \A d : d # c => Kept(m, w, d)
  BY <1>7, <1>9, <1>10, SameState
<1> QED
  BY <1>2, <1>7, <1>9, <1>14, <1>15

(* More shares are to be verified.                                         *)
LEMMA PendingFields ==
    ASSUME NEW m, ManagerInv(m), NEW c \in Nodes, NEW ks
    PROVE  LET w == AddPending(m, c, ks)
           IN  /\ w.recovered = m.recovered /\ w.sigShares = m.sigShares /\ w.hand = m.hand
               /\ w.misbehaved = m.misbehaved /\ w.queued = m.queued
               /\ \A d : /\ SessionOf(w, d) = SessionOf(m, d)
                         /\ StateOf(w, d).byRecv = StateOf(m, d).byRecv
                         /\ StateOf(w, d).nextSend = StateOf(m, d).nextSend
                         /\ StateOf(m, d).pending \subseteq StateOf(w, d).pending
               /\ StateOf(w, c).pending = StateOf(m, c).pending \cup ks
<1> DEFINE s == StateOf(m, c)
           r == [s EXCEPT !.pending = @ \cup ks]
           w == Put(m, c, r)
<1>1. s \in NodeStates /\ m \in Managers
  BY StateOfType DEF ManagerInv
<1>2. w = AddPending(m, c, ks)
  BY DEF AddPending
<1>3. /\ r.byRecv = s.byRecv /\ r.session = s.session
      /\ r.nextSend = s.nextSend /\ r.pending = s.pending \cup ks
  BY <1>1 DEF NodeStates
<1> HIDE DEF r
<1>4. /\ w.recovered = m.recovered /\ w.sigShares = m.sigShares /\ w.hand = m.hand
      /\ w.misbehaved = m.misbehaved /\ w.queued = m.queued
      /\ StateOf(w, c) = r /\ \A d : d # c => StateOf(w, d) = StateOf(m, d)
  BY <1>1, PutFields, SMT
<1> HIDE DEF w
<1>5. GetOrCreate(r) = GetOrCreate(s)
  BY <1>3 DEF GetOrCreate
<1>6. ASSUME NEW d
      PROVE  /\ SessionOf(w, d) = SessionOf(m, d)
             /\ StateOf(w, d).byRecv = StateOf(m, d).byRecv
             /\ StateOf(w, d).nextSend = StateOf(m, d).nextSend
             /\ StateOf(m, d).pending \subseteq StateOf(w, d).pending
  <2>1. CASE d = c
    BY <1>3, <1>4, <1>5, <2>1 DEF SessionOf
  <2>2. CASE d # c
    BY <1>4, <2>2 DEF SessionOf
  <2> QED
    BY <2>1, <2>2
<1> QED
  BY <1>2, <1>3, <1>4, <1>6

(* A share sent to a recovery member.                                      *)
LEMMA ShareReceived ==
    ASSUME NEW m, ManagerInv(m), NEW c \in Nodes, NEW msg \in Messages, msg.type = "share"
    PROVE  LET w == ProcessMessageSigShare(m, c, msg)
           IN  /\ Received(m, w, c, msg)
               /\ \A d : d # c => Kept(m, w, d)
               /\ w.misbehaved = m.misbehaved /\ w.queued = m.queued
<1> DEFINE w == ProcessMessageSigShare(m, c, msg)
           p == AddPending(m, c, msg.shares)
<1>1. w \in {m, p}
  BY DEF ProcessMessageSigShare
<1>2. /\ p.recovered = m.recovered /\ p.sigShares = m.sigShares /\ p.hand = m.hand
      /\ p.misbehaved = m.misbehaved /\ p.queued = m.queued
      /\ \A d : /\ SessionOf(p, d) = SessionOf(m, d)
                /\ StateOf(p, d).byRecv = StateOf(m, d).byRecv
                /\ StateOf(p, d).nextSend = StateOf(m, d).nextSend
                /\ StateOf(m, d).pending \subseteq StateOf(p, d).pending
  BY PendingFields, SMT
<1> HIDE DEF p, w
<1>3. /\ w.recovered = m.recovered /\ w.sigShares = m.sigShares /\ w.hand = m.hand
      /\ w.misbehaved = m.misbehaved /\ w.queued = m.queued
      /\ \A d : /\ SessionOf(w, d) = SessionOf(m, d)
                /\ StateOf(w, d).byRecv = StateOf(m, d).byRecv
                /\ StateOf(w, d).nextSend = StateOf(m, d).nextSend
                /\ StateOf(m, d).pending \subseteq StateOf(w, d).pending
  BY <1>1, <1>2
<1>4. \A d : Incoming(m, d) \subseteq Incoming(w, d)
  BY <1>3 DEF Incoming
<1>5. Of(msg, {"inv"}) = {} /\ Of(msg, {"get"}) = {} /\ Of(msg, {"inv", "get"}) = {}
      /\ Of(msg, {"batch"}) = {}
  BY DEF Of
<1>6. Received(m, w, c, msg)
  BY <1>3, <1>4, <1>5 DEF Received
<1>7. \A d : d # c => Kept(m, w, d)
  BY <1>3, <1>4 DEF Kept, SessionKept
<1> QED
  BY <1>3, <1>6, <1>7 DEF w
-----------------------------------------------------------------------------
(* One change after another.                                               *)
LEMMA SessionKeptTwice ==
    ASSUME NEW m, NEW v, NEW w, NEW c, SessionKept(m, v, c), SessionKept(v, w, c)
    PROVE  SessionKept(m, w, c)
BY DEF SessionKept

(* A change of nothing but the shares.                                     *)
LEMMA SessionSame ==
    ASSUME NEW m, NEW w, NEW c, m.recovered => w.recovered, m.sigShares \subseteq w.sigShares,
           StateOf(w, c).session = StateOf(m, c).session,
           StateOf(w, c).byRecv = StateOf(m, c).byRecv,
           StateOf(w, c).nextSend = StateOf(m, c).nextSend
    PROVE  SessionKept(m, w, c)
<1>1. SessionOf(w, c) = SessionOf(m, c)
  BY DEF SessionOf, GetOrCreate
<1> QED
  BY <1>1 DEF SessionKept

(* The direct push: n's own share is known and requested.                  *)
LEMMA PushFields ==
    ASSUME NetInv, NEW n \in Members, NEW m, ManagerInv(m), n \in m.sigShares
    PROVE  LET w == Push(m, n)
           IN  /\ w.recovered = m.recovered /\ w.sigShares = m.sigShares /\ w.hand = m.hand
               /\ w.misbehaved = m.misbehaved /\ w.queued = m.queued
               /\ \A c \in Nodes : /\ StateOf(w, c).pending = StateOf(m, c).pending
                                   /\ SessionKept(m, w, c)
<1> DEFINE D == DOMAIN m.nodeStates \cup QuorumNodes(n)
           T(c) == [GetOrCreate(StateOf(m, c)) EXCEPT !.requested = @ \cup {n}, !.knows = @ \cup {n}]
           U(c) == [StateOf(m, c) EXCEPT !.session = T(c)]
           f == [c \in D |-> IF c \notin QuorumNodes(n) THEN m.nodeStates[c] ELSE U(c)]
           w == [m EXCEPT !.nodeStates = f]
<1>1. Push(m, n) = w
  BY DEF Push
<1>2. /\ DOMAIN f = D
      /\ \A c \in D : c \notin QuorumNodes(n) => f[c] = m.nodeStates[c]
      /\ \A c \in D : c \in QuorumNodes(n) => f[c] = U(c)
  OBVIOUS
<1> HIDE DEF f
<1>3. /\ w.nodeStates = f /\ w.recovered = m.recovered /\ w.sigShares = m.sigShares
      /\ w.hand = m.hand /\ w.misbehaved = m.misbehaved /\ w.queued = m.queued
  BY DEF ManagerInv, Managers
<1> HIDE DEF w
<1>4. ASSUME NEW c \in Nodes
      PROVE  StateOf(w, c).pending = StateOf(m, c).pending /\ SessionKept(m, w, c)
  <2>1. CASE c \notin QuorumNodes(n)
    <3>1. StateOf(w, c) = StateOf(m, c)
      BY <1>2, <1>3, <2>1 DEF StateOf
    <3> QED
      BY <1>3, <3>1, SessionSame
  <2>2. CASE c \in QuorumNodes(n)
    <3> DEFINE s == StateOf(m, c)
               t == GetOrCreate(s)
    <3>1. s \in NodeStates
      BY StateOfType
    <3>2. t \in Sessions /\ SessionOf(m, c) = t
      BY <3>1, GetOrCreateType DEF SessionOf
    <3>3. StateOf(w, c) = U(c)
      BY <1>2, <1>3, <2>2 DEF StateOf
    <3> HIDE DEF s, t
    <3> DEFINE u == [t EXCEPT !.requested = @ \cup {n}, !.knows = @ \cup {n}]
               r == [s EXCEPT !.session = u]
    <3>4. n \in Nodes
      BY PeersType
    <3>5. /\ u \in Sessions /\ u.send = t.send /\ u.announced = t.announced
          /\ u.requested = t.requested \cup {n} /\ u.knows = t.knows \cup {n}
      BY <3>2, <3>4 DEF Sessions
    <3>6. StateOf(w, c) = r
      BY <3>3 DEF s, t
    <3> HIDE DEF u
    <3>7. r.session = u /\ r.byRecv = s.byRecv /\ r.nextSend = s.nextSend /\ r.pending = s.pending
      BY <3>1 DEF NodeStates
    <3> HIDE DEF r
    <3>8. SessionOf(w, c) = u
      BY <3>5, <3>6, <3>7, HasSession DEF SessionOf
    <3>9. SessionKept(m, w, c)
      BY <1>3, <3>2, <3>5, <3>6, <3>7, <3>8 DEF SessionKept, s
    <3> QED
      BY <3>6, <3>7, <3>9 DEF s
  <2> QED
    BY <2>1, <2>2
<1> QED
  BY <1>1, <1>3, <1>4

(* What ended sessions leave.                                              *)
LEMMA RecoveredFields ==
    ASSUME NEW m, ManagerInv(m)
    PROVE  /\ Recovered(m).recovered /\ Recovered(m).queued = {}
           /\ Recovered(m).misbehaved = m.misbehaved
<1> DEFINE f == [c \in DOMAIN m.nodeStates |-> RemoveSession(m.nodeStates[c])]
           r == [k \in Nodes |-> None]
           w == [m EXCEPT !.nodeStates = f, !.requested = r, !.queued = {}, !.sigShares = {},
                          !.signed = None, !.timeSeen = FALSE]
<1>1. Recovered(m) = [w EXCEPT !.recovered = TRUE]
  BY DEF Recovered, RemoveSigSharesForSession
<1> HIDE DEF f, r
<1> QED
  BY <1>1 DEF ManagerInv, Managers

(* ProcessSigShare for any shares.                                         *)
LEMMA ProcessFields ==
    ASSUME NetInv, NEW n \in Members, NEW m, ManagerInv(m), NEW ks \in SUBSET Nodes,
           m.recovered => m.queued = {}
    PROVE  LET w == ProcessSigShares(m, n, ks)
           IN  /\ w.misbehaved = m.misbehaved
               /\ w.recovered => w.queued = {}
               /\ \A c \in Nodes : SessionKept(m, w, c)
               /\ ~w.recovered => /\ m.sigShares \cup ks \subseteq w.sigShares
                                  /\ w.hand = m.hand
                                  /\ \A c \in Nodes : StateOf(w, c).pending = StateOf(m, c).pending
<1> DEFINE new == ks \ m.sigShares
           q == IF setup.allConnected THEN m.queued ELSE m.queued \cup new
           m1 == [m EXCEPT !.sigShares = @ \cup ks, !.timeSeen = TRUE, !.queued = q]
           m2 == IF n \in new /\ ~setup.allConnected THEN Push(m1, n) ELSE m1
           w == ProcessSigShares(m, n, ks)
<1>1. m \in Managers /\ m.queued \in SUBSET Nodes
  BY DEF ManagerInv, Managers
<1>2. q \in SUBSET Nodes
  BY <1>1
<1>3. \/ w = m /\ (m.recovered \/ new = {})
      \/ w = Recovered(m2)
      \/ w = m2 /\ ~m.recovered
  BY DEF ProcessSigShares
<1> HIDE DEF q, w
<1>4. /\ m1 \in Managers /\ m1.nodeStates = m.nodeStates /\ m1.requested = m.requested
      /\ m1.recovered = m.recovered /\ m1.sigShares = m.sigShares \cup ks /\ m1.hand = m.hand
      /\ m1.misbehaved = m.misbehaved
  BY <1>1, <1>2 DEF Managers
<1> HIDE DEF m1
<1>5. ManagerInv(m1)
  BY <1>4, SameStates
<1>6. \A c \in Nodes : SessionKept(m, m1, c) /\ StateOf(m1, c) = StateOf(m, c)
  <2>1. \A c \in Nodes : StateOf(m1, c) = StateOf(m, c)
    BY <1>4 DEF StateOf
  <2> QED
    BY <1>4, <2>1, SessionSame
<1>7. /\ m2.recovered = m1.recovered /\ m2.sigShares = m1.sigShares /\ m2.hand = m1.hand
      /\ m2.misbehaved = m1.misbehaved
      /\ \A c \in Nodes : StateOf(m2, c).pending = StateOf(m1, c).pending /\ SessionKept(m1, m2, c)
  <2>1. CASE n \in new /\ ~setup.allConnected
    <3>1. n \in m1.sigShares
      BY <1>4, <2>1
    <3> DEFINE x == Push(m1, n)
    <3>2. /\ x.recovered = m1.recovered /\ x.sigShares = m1.sigShares /\ x.hand = m1.hand
          /\ x.misbehaved = m1.misbehaved
          /\ \A c \in Nodes : StateOf(x, c).pending = StateOf(m1, c).pending /\ SessionKept(m1, x, c)
      BY <1>5, <3>1, PushFields, SMT
    <3> QED
      BY <2>1, <3>2
  <2>2. CASE ~(n \in new /\ ~setup.allConnected)
    <3>1. m2 = m1
      BY <2>2
    <3>2. \A c \in Nodes : SessionKept(m1, m1, c)
      BY SessionSame
    <3> QED
      BY <3>1, <3>2
  <2> QED
    BY <2>1, <2>2
<1>8. ManagerInv(m2)
  BY <1>5, PushRight
<1> HIDE DEF m2
<1>9. \A c \in Nodes : SessionKept(m, m2, c)
  BY <1>6, <1>7, SessionKeptTwice
<1>10. CASE w = m /\ (m.recovered \/ new = {})
  <2>1. \A c \in Nodes : SessionKept(m, m, c)
    BY SessionSame
  <2> QED
    BY <1>10, <2>1 DEF w
<1>11. CASE w = Recovered(m2)
  <2>1. w.recovered /\ w.queued = {} /\ w.misbehaved = m2.misbehaved
    BY <1>8, <1>11, RecoveredFields
  <2>2. \A c \in Nodes : SessionKept(m, w, c)
    BY <2>1 DEF SessionKept
  <2> QED
    BY <1>4, <1>7, <2>1, <2>2 DEF w
<1>12. CASE w = m2 /\ ~m.recovered
  BY <1>4, <1>6, <1>7, <1>9, <1>12 DEF w
<1> QED
  BY <1>3, <1>10, <1>11, <1>12
-----------------------------------------------------------------------------
(* n takes a step that neither sends nor receives.  A pair the step breaks *)
(* up needs no proof, and neither does one that is not connected.          *)
LEMMA QuietStep ==
    ASSUME IndInv, FlowInv, NEW n \in Members, NEW w, mgr' = [mgr EXCEPT ![n] = w],
           UNCHANGED <<msgs, netVars>>,
           mgr[n].misbehaved \subseteq w.misbehaved,
           w.recovered => w.queued = {},
           \A c \in setup.peers[n] : {n, c} \in up /\ c \notin w.misbehaved => Kept(mgr[n], w, c)
    PROVE  FlowInv'
<1>1. /\ mgr'[n] = w /\ \A d \in Members : d # n => mgr'[d] = mgr[d]
      /\ UNCHANGED <<setup, up, stale, faults, msgs>> /\ Members' = Members
  BY DEF IndInv, netVars, Members
<1>2. \A d \in Members : mgr[d].misbehaved \subseteq mgr'[d].misbehaved
  BY <1>1
<1>3. ASSUME PairsInv, NEW a \in Members, NEW b \in setup.peers[a], ~Apart(a, b)'
      PROVE  {a, b} \in up /\ Pair(mgr'[a], mgr'[b], a, b, msgs[a][b], msgs[b][a])
  <2>1. b \in Members /\ a \in setup.peers[b] /\ a # b
    BY PeersType DEF IndInv
  <2>2. ~Apart(a, b)
    BY <1>2, <1>3, <2>1 DEF Apart
  <2>3. {a, b} \in up /\ Pair(mgr[a], mgr[b], a, b, msgs[a][b], msgs[b][a])
    BY <1>3, <2>2 DEF PairsInv
  <2>4. CASE a = n
    <3>1. mgr'[a] = w /\ mgr'[b] = mgr[b] /\ b \notin w.misbehaved
      BY <1>1, <1>3, <2>1, <2>4 DEF Apart
    <3>2. Kept(mgr[a], w, b)
      BY <2>3, <2>4, <3>1
    <3> QED
      BY <2>3, <3>1, <3>2, QuietSender
  <2>5. CASE b = n
    <3>1. mgr'[b] = w /\ mgr'[a] = mgr[a] /\ a \notin w.misbehaved
      BY <1>1, <1>3, <2>1, <2>5 DEF Apart
    <3>2. {b, a} \in up
      <4>1. {b, a} = {a, b}
        OBVIOUS
      <4> QED
        BY <2>3, <4>1
    <3>3. Kept(mgr[b], w, a)
      BY <2>1, <2>5, <3>1, <3>2
    <3> QED
      BY <2>3, <3>1, <3>3, QuietReceiver
  <2>6. CASE a # n /\ b # n
    BY <1>1, <2>1, <2>3, <2>6
  <2> QED
    BY <2>4, <2>5, <2>6
<1>4. PairsInv => PairsInv'
  BY <1>1, <1>3 DEF PairsInv
<1>5. \A d \in Members : mgr'[d].recovered => mgr'[d].queued = {}
  BY <1>1 DEF FlowInv
<1> QED
  BY <1>1, <1>4, <1>5 DEF FlowInv

(* The shares of a batch.                                                  *)
LEMMA AddToPendingFlow ==
    ASSUME IndInv, FlowInv, NEW n \in Members, AddToPending(n)
    PROVE  FlowInv'
<1> DEFINE m == mgr[n]
           h == m.hand.from
           ks == m.hand.shares
           a == AddPending(m, h, ks)
           w == [a EXCEPT !.hand = None]
<1>1. ManagerInv(m) /\ m.hand # None /\ m.hand \in Hands
  BY DEF IndInv, AddToPending, ManagerInv, Managers
<1>2. h \in Nodes /\ ks \in SUBSET Nodes
  BY <1>1 DEF Hands
<1>3. mgr' = [mgr EXCEPT ![n] = w] /\ UNCHANGED <<msgs, netVars>>
  BY DEF AddToPending
<1>4. m.recovered => m.queued = {}
  BY DEF FlowInv
<1> HIDE DEF m
<1>5. /\ a.recovered = m.recovered /\ a.sigShares = m.sigShares
      /\ a.misbehaved = m.misbehaved /\ a.queued = m.queued
      /\ \A d : /\ SessionOf(a, d) = SessionOf(m, d)
                /\ StateOf(a, d).byRecv = StateOf(m, d).byRecv
                /\ StateOf(a, d).nextSend = StateOf(m, d).nextSend
                /\ StateOf(m, d).pending \subseteq StateOf(a, d).pending
      /\ StateOf(a, h).pending = StateOf(m, h).pending \cup ks
  BY <1>1, <1>2, PendingFields, SMT
<1>6. ManagerInv(a)
  BY <1>1, <1>2, PendingRight
<1> HIDE DEF a
<1>7. /\ w.recovered = a.recovered /\ w.sigShares = a.sigShares /\ w.misbehaved = a.misbehaved
      /\ w.queued = a.queued /\ w.nodeStates = a.nodeStates
  BY <1>6 DEF ManagerInv, Managers
<1> HIDE DEF w
<1>8. \A d : StateOf(w, d) = StateOf(a, d) /\ SessionOf(w, d) = SessionOf(a, d)
  BY <1>7 DEF StateOf, SessionOf
<1>9. \A d : Incoming(m, d) \subseteq Incoming(w, d)
  <2> SUFFICES ASSUME NEW d, NEW k \in Incoming(m, d) PROVE k \in StateOf(w, d).pending
    BY DEF Incoming
  <2>1. CASE k \in StateOf(m, d).pending
    BY <1>5, <1>8, <2>1
  <2>2. CASE d = h /\ k \in ks
    BY <1>5, <1>8, <2>2
  <2> QED
    BY <2>1, <2>2 DEF Incoming
<1>10. \A d : Kept(m, w, d)
  BY <1>5, <1>7, <1>8, <1>9 DEF Kept, SessionKept
<1>11. m.misbehaved \subseteq w.misbehaved /\ (w.recovered => w.queued = {})
  BY <1>4, <1>5, <1>7
<1> QED
  BY <1>3, <1>10, <1>11, QuietStep DEF m

(* Banning changes nothing about the others.                               *)
LEMMA BanFields ==
    ASSUME NEW m, ManagerInv(m), NEW C \in SUBSET Nodes
    PROVE  LET w == BanNode(m, C)
           IN  /\ w.recovered = m.recovered /\ w.sigShares = m.sigShares /\ w.hand = m.hand
               /\ w.misbehaved = m.misbehaved \cup C /\ w.queued = m.queued
               /\ \A c : c \notin C => StateOf(w, c) = StateOf(m, c)
<1> DEFINE f == [d \in DOMAIN m.nodeStates |->
                    IF d \in C
                    THEN [m.nodeStates[d] EXCEPT !.req = {}, !.old = {}, !.banned = TRUE]
                    ELSE m.nodeStates[d]]
           g == ForgetRequests(m, C)
           w == [g EXCEPT !.nodeStates = f, !.misbehaved = m.misbehaved \cup C]
<1>1. g \in Managers /\ g.nodeStates = m.nodeStates /\ g.misbehaved = m.misbehaved
  BY ForgetType DEF ManagerInv
<1>2. /\ g.recovered = m.recovered /\ g.sigShares = m.sigShares /\ g.hand = m.hand
      /\ g.queued = m.queued
  <2> DEFINE r == [k \in Nodes |->
                      IF \E c \in C \cap DOMAIN m.nodeStates : k \in m.nodeStates[c].req
                      THEN None ELSE m.requested[k]]
  <2>1. g = [m EXCEPT !.requested = r]
    BY DEF ForgetRequests
  <2> HIDE DEF r
  <2> QED
    BY <2>1 DEF ManagerInv, Managers
<1>3. BanNode(m, C) = w
  BY <1>1 DEF BanNode
<1>4. DOMAIN f = DOMAIN m.nodeStates /\ \A d \in DOMAIN f : d \notin C => f[d] = m.nodeStates[d]
  OBVIOUS
<1> HIDE DEF f, g
<1>5. /\ w.recovered = g.recovered /\ w.sigShares = g.sigShares /\ w.hand = g.hand
      /\ w.misbehaved = m.misbehaved \cup C /\ w.queued = g.queued /\ w.nodeStates = f
  BY <1>1 DEF Managers
<1> HIDE DEF w
<1>6. \A c : c \notin C => StateOf(w, c) = StateOf(m, c)
  BY <1>4, <1>5 DEF StateOf
<1> QED
  BY <1>2, <1>3, <1>5, <1>6

(* What is pending is verified.                                            *)
LEMMA PendingFlow ==
    ASSUME IndInv, FlowInv, NEW n \in Members, ProcessPendingSigShares(n)
    PROVE  FlowInv'
<1> DEFINE m == mgr[n]
           D == DOMAIN m.nodeStates
           taken == {y \in D \X Nodes : y[2] \in m.nodeStates[y[1]].pending \ m.sigShares}
           bad == IF m.recovered THEN {} ELSE {x[1] : x \in {y \in taken : y[2] \in setup.faulty}}
           f == [c \in D |-> [m.nodeStates[c] EXCEPT !.pending = {}]]
           m1 == [m EXCEPT !.nodeStates = f]
           ks == {x[2] : x \in {y \in taken : y[1] \notin bad}}
           v == BanNode(m1, bad)
           w == ProcessSigShares(v, n, ks)
<1>1. NetInv /\ ManagerInv(m) /\ m \in Managers /\ (m.recovered => m.queued = {})
  BY DEF IndInv, ManagerInv, FlowInv
<1>2. D \in SUBSET Nodes
  BY <1>1, StatesType
<1>3. ks \in SUBSET Nodes
  OBVIOUS
<1>4. bad \in SUBSET Nodes
  BY <1>2
<1>5. ASSUME NEW c \in D
      PROVE  /\ f[c] \in NodeStates /\ Sound(f[c])
             /\ f[c].req = StateOf(m, c).req /\ f[c].old = StateOf(m, c).old
             /\ f[c].session = StateOf(m, c).session /\ f[c].byRecv = StateOf(m, c).byRecv
             /\ f[c].nextSend = StateOf(m, c).nextSend
  <2> DEFINE s == m.nodeStates[c]
             r == [s EXCEPT !.pending = {}]
  <2>1. s \in NodeStates /\ Sound(s) /\ StateOf(m, c) = s
    BY <1>1, StatesType DEF ManagerInv, StateOf
  <2> HIDE DEF s
  <2>2. /\ r \in NodeStates /\ r.byRecv = s.byRecv /\ r.session = s.session
        /\ r.req = s.req /\ r.old = s.old /\ r.banned = s.banned /\ r.nextSend = s.nextSend
    BY <2>1 DEF NodeStates
  <2> HIDE DEF r
  <2>3. Sound(r)
    BY <2>1, <2>2 DEF Sound
  <2>4. f[c] = r
    BY DEF r, s
  <2> QED
    BY <2>1, <2>2, <2>3, <2>4
<1>6. f \in [D -> NodeStates]
  BY <1>5
<1>7. ASSUME NEW c \in Nodes, NEW k \in StateOf(m, c).pending, c \notin bad
      PROVE  k \in m.sigShares \cup ks
  <2>1. c \in D
    <3>1. NodeState.pending = {}
      BY DEF NodeState
    <3> QED
      BY <1>7, <3>1 DEF StateOf
  <2>2. k \in m.nodeStates[c].pending /\ k \in Nodes
    BY <1>1, <1>7, <2>1, StatesType DEF StateOf, NodeStates
  <2>3. CASE k \notin m.sigShares
    <3>1. <<c, k>> \in taken /\ <<c, k>>[1] = c /\ <<c, k>>[2] = k
      BY <2>1, <2>2, <2>3, SMT
    <3> HIDE DEF taken, bad
    <3>2. \E x \in {y \in taken : y[1] \notin bad} : k = x[2]
      BY <1>7, <3>1
    <3> QED
      BY <3>2
  <2> QED
    BY <2>3
<1>8. mgr' = [mgr EXCEPT ![n] = w] /\ UNCHANGED <<msgs, netVars>>
  BY DEF ProcessPendingSigShares
<1> HIDE DEF f, bad, ks
<1>9. ManagerInv(m1)
  BY <1>1, <1>2, <1>5, <1>6, StatesReplaced
<1>10. /\ m1.nodeStates = f /\ m1.recovered = m.recovered /\ m1.sigShares = m.sigShares
       /\ m1.hand = m.hand /\ m1.misbehaved = m.misbehaved /\ m1.queued = m.queued
  BY <1>1 DEF Managers
<1> HIDE DEF m1, m
<1>11. /\ v.recovered = m.recovered /\ v.sigShares = m.sigShares /\ v.hand = m.hand
       /\ v.misbehaved = m.misbehaved \cup bad /\ v.queued = m.queued
       /\ \A c : c \notin bad => StateOf(v, c) = StateOf(m1, c)
  <2>1. /\ v.recovered = m1.recovered /\ v.sigShares = m1.sigShares /\ v.hand = m1.hand
        /\ v.misbehaved = m1.misbehaved \cup bad /\ v.queued = m1.queued
        /\ \A c : c \notin bad => StateOf(v, c) = StateOf(m1, c)
    BY <1>4, <1>9, BanFields, SMT
  <2> QED
    BY <1>10, <2>1
<1>12. ManagerInv(v)
  BY <1>4, <1>9, BanRight
<1> HIDE DEF v
<1>13. \A c \in Nodes : c \notin bad => SessionKept(m, v, c)
  <2> SUFFICES ASSUME NEW c \in Nodes, c \notin bad PROVE SessionKept(m, v, c)
    OBVIOUS
  <2>1. /\ StateOf(m1, c).session = StateOf(m, c).session
        /\ StateOf(m1, c).byRecv = StateOf(m, c).byRecv
        /\ StateOf(m1, c).nextSend = StateOf(m, c).nextSend
    <3>1. CASE c \in D
      <4>1. StateOf(m1, c) = f[c]
        BY <1>6, <1>10, <3>1 DEF StateOf
      <4> QED
        BY <1>5, <3>1, <4>1
    <3>2. CASE c \notin D
      <4>1. StateOf(m1, c) = StateOf(m, c)
        BY <1>6, <1>10, <3>2 DEF StateOf
      <4> QED
        BY <4>1
    <3> QED
      BY <3>1, <3>2
  <2>2. StateOf(v, c) = StateOf(m1, c)
    BY <1>11
  <2> QED
    BY <1>11, <2>1, <2>2, SessionSame
<1>14. /\ w.misbehaved = v.misbehaved /\ (w.recovered => w.queued = {})
       /\ \A c \in Nodes : SessionKept(v, w, c)
       /\ ~w.recovered => v.sigShares \cup ks \subseteq w.sigShares /\ w.hand = v.hand
  <2>1. v.recovered => v.queued = {}
    BY <1>1, <1>11
  <2> QED
    BY <1>1, <1>3, <1>12, <2>1, ProcessFields, SMT
<1> HIDE DEF w
<1>15. ASSUME NEW c \in Nodes, c \notin bad PROVE Kept(m, w, c)
  <2>1. SessionKept(m, w, c)
    BY <1>13, <1>14, <1>15, SessionKeptTwice
  <2>2. ASSUME ~w.recovered, NEW k \in Incoming(m, c) PROVE k \in Incoming(w, c) \cup w.sigShares
    BY <1>7, <1>11, <1>14, <1>15, <2>2 DEF Incoming
  <2> QED
    BY <2>1, <2>2 DEF Kept
<1>16. setup.peers[n] \subseteq Nodes /\ bad \subseteq w.misbehaved
  BY <1>1, <1>11, <1>14, PeersType
<1>17. \A c \in setup.peers[n] : {n, c} \in up /\ c \notin w.misbehaved => Kept(m, w, c)
  BY <1>15, <1>16
<1>18. m.misbehaved \subseteq w.misbehaved
  BY <1>11, <1>14
<1> QED
  BY <1>8, <1>14, <1>17, <1>18, QuietStep DEF m

(* A member makes its own share.                                           *)
LEMMA SignFlow ==
    ASSUME IndInv, FlowInv, NEW n \in Members, SignPendingSigShares(n)
    PROVE  FlowInv'
<1> DEFINE m == mgr[n]
           m1 == [m EXCEPT !.pendingSigns = FALSE]
           ks == {n}
           a == ProcessSigShares(m1, n, ks)
           g == IF setup.allConnected THEN 0 ELSE a.signed
           w == [a EXCEPT !.signed = g]
<1>1. NetInv /\ ManagerInv(m) /\ ks \in SUBSET Nodes /\ (m.recovered => m.queued = {})
  BY PeersType DEF IndInv, FlowInv
<1>2. mgr' = [mgr EXCEPT ![n] = w] /\ UNCHANGED <<msgs, netVars>>
  BY DEF SignPendingSigShares
<1>3. /\ m1 \in Managers /\ m1.nodeStates = m.nodeStates /\ m1.requested = m.requested
      /\ m1.recovered = m.recovered /\ m1.sigShares = m.sigShares /\ m1.hand = m.hand
      /\ m1.misbehaved = m.misbehaved /\ m1.queued = m.queued
  BY <1>1 DEF ManagerInv, Managers
<1> HIDE DEF m1, m, ks
<1>4. ManagerInv(m1)
  BY <1>1, <1>3, SameStates
<1>5. /\ a.misbehaved = m1.misbehaved /\ (a.recovered => a.queued = {})
      /\ \A c \in Nodes : SessionKept(m1, a, c)
      /\ ~a.recovered => /\ m1.sigShares \cup ks \subseteq a.sigShares /\ a.hand = m1.hand
                         /\ \A c \in Nodes : StateOf(a, c).pending = StateOf(m1, c).pending
  <2>1. m1.recovered => m1.queued = {}
    BY <1>1, <1>3
  <2> QED
    BY <1>1, <1>4, <2>1, ProcessFields, SMT
<1>6. ManagerInv(a)
  BY <1>1, <1>4, ProcessRight
<1> HIDE DEF a, g
<1>7. /\ w.nodeStates = a.nodeStates /\ w.recovered = a.recovered /\ w.sigShares = a.sigShares
      /\ w.hand = a.hand /\ w.misbehaved = a.misbehaved /\ w.queued = a.queued
  BY <1>6 DEF ManagerInv, Managers
<1> HIDE DEF w
<1>8. \A c : StateOf(w, c) = StateOf(a, c) /\ StateOf(m1, c) = StateOf(m, c)
  BY <1>3, <1>7 DEF StateOf
<1>9. ASSUME NEW c \in Nodes PROVE Kept(m, w, c)
  <2>1. SessionKept(m, m1, c) /\ SessionKept(a, w, c)
    BY <1>3, <1>7, <1>8, SessionSame
  <2>2. SessionKept(m, w, c)
    BY <1>5, <2>1, SessionKeptTwice
  <2>3. ASSUME ~w.recovered
        PROVE  Incoming(w, c) = Incoming(m, c)
    <3>1. w.hand = m.hand /\ StateOf(w, c).pending = StateOf(m, c).pending
      BY <1>3, <1>5, <1>7, <1>8, <2>3
    <3> QED
      BY <3>1, SameIncoming
  <2>4. ~w.recovered => Incoming(m, c) \subseteq Incoming(w, c) \cup w.sigShares
    BY <2>3
  <2> QED
    BY <2>2, <2>4 DEF Kept
<1>10. setup.peers[n] \subseteq Nodes
  BY <1>1, PeersType
<1>11. \A c \in setup.peers[n] : {n, c} \in up /\ c \notin w.misbehaved => Kept(m, w, c)
  BY <1>9, <1>10
<1>12. m.misbehaved \subseteq w.misbehaved /\ (w.recovered => w.queued = {})
  BY <1>3, <1>5, <1>7
<1> QED
  BY <1>2, <1>11, <1>12, QuietStep DEF m

(* The recovered signature arrives.                                        *)
LEMMA RecoveredFlow ==
    ASSUME IndInv, FlowInv, NEW n \in Members, ReceiveRecoveredSig(n)
    PROVE  FlowInv'
<1> DEFINE m == mgr[n]
           w == Recovered(m)
<1>1. ManagerInv(m)
  BY DEF IndInv
<1>2. mgr' = [mgr EXCEPT ![n] = w] /\ UNCHANGED <<msgs, netVars>>
  BY DEF ReceiveRecoveredSig
<1>3. w.recovered /\ w.queued = {} /\ w.misbehaved = m.misbehaved
  BY <1>1, RecoveredFields
<1> HIDE DEF w
<1>4. \A c : Kept(m, w, c)
  BY <1>3 DEF Kept, SessionKept
<1> QED
  BY <1>2, <1>3, <1>4, QuietStep

(* Dropping the states of nodes changes nothing about the others.          *)
LEMMA DropFields ==
    ASSUME NEW m, ManagerInv(m), NEW C
    PROVE  LET w == DropNodeState(m, C)
           IN  /\ w.recovered = m.recovered /\ w.sigShares = m.sigShares /\ w.hand = m.hand
               /\ w.misbehaved = m.misbehaved /\ w.queued = m.queued
               /\ \A c : c \notin C => StateOf(w, c) = StateOf(m, c)
<1> DEFINE f == [d \in DOMAIN m.nodeStates \ C |-> m.nodeStates[d]]
           g == ForgetRequests(m, C)
           w == [g EXCEPT !.nodeStates = f]
           r == [k \in Nodes |->
                    IF \E c \in C \cap DOMAIN m.nodeStates : k \in m.nodeStates[c].req
                    THEN None ELSE m.requested[k]]
<1>1. g \in Managers /\ g.nodeStates = m.nodeStates
  BY ForgetType DEF ManagerInv
<1>2. g = [m EXCEPT !.requested = r]
  BY DEF ForgetRequests
<1>3. DropNodeState(m, C) = w
  BY <1>1 DEF DropNodeState
<1>4. /\ DOMAIN f = DOMAIN m.nodeStates \ C
      /\ \A d \in DOMAIN f : f[d] = m.nodeStates[d]
  OBVIOUS
<1> HIDE DEF f, g, r
<1>5. /\ g.recovered = m.recovered /\ g.sigShares = m.sigShares /\ g.hand = m.hand
      /\ g.misbehaved = m.misbehaved /\ g.queued = m.queued
  BY <1>2 DEF ManagerInv, Managers
<1>6. /\ w.recovered = g.recovered /\ w.sigShares = g.sigShares /\ w.hand = g.hand
      /\ w.misbehaved = g.misbehaved /\ w.queued = g.queued /\ w.nodeStates = f
  BY <1>1 DEF Managers
<1> HIDE DEF w
<1>7. \A c : c \notin C => StateOf(w, c) = StateOf(m, c)
  BY <1>4, <1>6 DEF StateOf
<1> QED
  BY <1>3, <1>5, <1>6, <1>7

(* The states of nodes that are not connected are dropped.                 *)
LEMMA CleanupFlow ==
    ASSUME IndInv, FlowInv, NEW n \in Members, CleanupNodeStates(n)
    PROVE  FlowInv'
<1> DEFINE a == mgr[n]
           gone == DOMAIN a.nodeStates \ QuorumNodes(n)
           m == DropNodeState(a, gone)
           r == [k \in Nodes |->
                    IF m.requested[k] # None /\ m.requested[k].from \in gone
                    THEN [m.requested[k] EXCEPT !.from = None] ELSE m.requested[k]]
           w == [m EXCEPT !.requested = r]
<1>1. ManagerInv(a) /\ (a.recovered => a.queued = {})
  BY DEF IndInv, FlowInv
<1>2. ManagerInv(m)
  BY <1>1, DropRight
<1>3. mgr' = [mgr EXCEPT ![n] = w] /\ UNCHANGED <<msgs, netVars>>
  BY DEF CleanupNodeStates
<1>4. \A c \in setup.peers[n] : {n, c} \in up => c \notin gone
  BY DEF QuorumNodes
<1> HIDE DEF gone, a
<1>5. /\ m.recovered = a.recovered /\ m.sigShares = a.sigShares /\ m.hand = a.hand
      /\ m.misbehaved = a.misbehaved /\ m.queued = a.queued
      /\ \A c : c \notin gone => StateOf(m, c) = StateOf(a, c)
  BY <1>1, DropFields, SMT
<1> HIDE DEF m, r
<1>6. /\ w.recovered = m.recovered /\ w.sigShares = m.sigShares /\ w.hand = m.hand
      /\ w.misbehaved = m.misbehaved /\ w.queued = m.queued /\ w.nodeStates = m.nodeStates
  BY <1>2 DEF ManagerInv, Managers
<1> HIDE DEF w
<1>7. \A c : StateOf(w, c) = StateOf(m, c)
  BY <1>6 DEF StateOf
<1>8. \A c \in setup.peers[n] : {n, c} \in up => Kept(a, w, c)
  BY <1>4, <1>5, <1>6, <1>7, SameState
<1>9. a.misbehaved \subseteq w.misbehaved /\ (w.recovered => w.queued = {})
  BY <1>1, <1>5, <1>6
<1> QED
  BY <1>3, <1>8, <1>9, QuietStep DEF a

(* The states of banned nodes are dropped.                                 *)
LEMMA BannedFlow ==
    ASSUME IndInv, FlowInv, NEW n \in Members, RemoveBannedNodeStates(n)
    PROVE  FlowInv'
<1> DEFINE m == mgr[n]
           banned == DOMAIN m.nodeStates \cap m.misbehaved
           w == DropNodeState(m, banned)
<1>1. ManagerInv(m) /\ (m.recovered => m.queued = {})
  BY DEF IndInv, FlowInv
<1>2. mgr' = [mgr EXCEPT ![n] = w] /\ UNCHANGED <<msgs, netVars>>
  BY DEF RemoveBannedNodeStates
<1>3. \A c : c \notin m.misbehaved => c \notin banned
  OBVIOUS
<1> HIDE DEF banned, m
<1>4. /\ w.recovered = m.recovered /\ w.sigShares = m.sigShares /\ w.hand = m.hand
      /\ w.misbehaved = m.misbehaved /\ w.queued = m.queued
      /\ \A c : c \notin banned => StateOf(w, c) = StateOf(m, c)
  BY <1>1, DropFields, SMT
<1> HIDE DEF w
<1>5. \A c \in setup.peers[n] : c \notin w.misbehaved => Kept(m, w, c)
  BY <1>3, <1>4, SameState
<1>6. m.misbehaved \subseteq w.misbehaved /\ (w.recovered => w.queued = {})
  BY <1>1, <1>4
<1> QED
  BY <1>2, <1>5, <1>6, QuietStep DEF m

(* Requests time out.                                                      *)
LEMMA TimeOutFlow ==
    ASSUME IndInv, FlowInv, NEW n \in Members, RequestsTimeOut(n)
    PROVE  FlowInv'
<1> DEFINE m == mgr[n]
           D == DOMAIN m.nodeStates
           f == [c \in D |-> [m.nodeStates[c] EXCEPT !.old = m.nodeStates[c].req]]
           r == [k \in Nodes |-> IF m.requested[k] = None THEN None
                                 ELSE [m.requested[k] EXCEPT !.old = TRUE]]
           w == [m EXCEPT !.nodeStates = f, !.requested = r]
<1>1. m \in Managers /\ (m.recovered => m.queued = {})
  BY DEF IndInv, ManagerInv, FlowInv
<1>2. mgr' = [mgr EXCEPT ![n] = w] /\ UNCHANGED <<msgs, netVars>>
  BY DEF RequestsTimeOut
<1>3. ASSUME NEW c \in D
      PROVE  /\ f[c].session = m.nodeStates[c].session /\ f[c].byRecv = m.nodeStates[c].byRecv
             /\ f[c].nextSend = m.nodeStates[c].nextSend
             /\ f[c].pending = m.nodeStates[c].pending
  <2> DEFINE s == m.nodeStates[c]
             x == [s EXCEPT !.old = s.req]
  <2>1. s \in NodeStates
    BY <1>1, StatesType
  <2>2. f[c] = x
    OBVIOUS
  <2> HIDE DEF s, f
  <2>3. x.byRecv = s.byRecv /\ x.session = s.session /\ x.nextSend = s.nextSend /\ x.pending = s.pending
    BY <2>1 DEF NodeStates
  <2> QED
    BY <2>2, <2>3 DEF s
<1>4. DOMAIN f = D
  OBVIOUS
<1> HIDE DEF f, r
<1>5. /\ w.nodeStates = f /\ w.recovered = m.recovered /\ w.sigShares = m.sigShares
      /\ w.hand = m.hand /\ w.misbehaved = m.misbehaved /\ w.queued = m.queued
  BY <1>1 DEF Managers
<1> HIDE DEF w, m
<1>6. ASSUME NEW c PROVE Kept(m, w, c)
  <2>1. /\ StateOf(w, c).session = StateOf(m, c).session
        /\ StateOf(w, c).byRecv = StateOf(m, c).byRecv
        /\ StateOf(w, c).nextSend = StateOf(m, c).nextSend
        /\ StateOf(w, c).pending = StateOf(m, c).pending
    BY <1>3, <1>4, <1>5 DEF StateOf
  <2>2. SessionKept(m, w, c)
    BY <1>5, <2>1, SessionSame
  <2>3. Incoming(w, c) = Incoming(m, c)
    BY <1>5, <2>1, SameIncoming
  <2>4. ~w.recovered => Incoming(m, c) \subseteq Incoming(w, c) \cup w.sigShares
    BY <2>3
  <2> QED
    BY <2>2, <2>4 DEF Kept
<1>7. m.misbehaved \subseteq w.misbehaved /\ (w.recovered => w.queued = {})
  BY <1>1, <1>5
<1> QED
  BY <1>2, <1>6, <1>7, QuietStep DEF m

Handle(m, c, msg) ==
    CASE msg.type = "ann"   -> ProcessMessageSigSesAnn(m, c, msg)
      [] msg.type = "inv"   -> ProcessMessageSigSharesInv(m, c, msg)
      [] msg.type = "get"   -> ProcessMessageGetSigShares(m, c, msg)
      [] msg.type = "batch" -> ProcessMessageBatchedSigShares(m, c, msg)
      [] msg.type = "share" -> ProcessMessageSigShare(m, c, msg)

(* Any message: a session with the given id is known, unless the session   *)
(* is over.                                                                *)
LEMMA MessageReceived ==
    ASSUME NEW m, ManagerInv(m), m.hand = None, NEW c \in Nodes, NEW msg \in Messages,
           NEW w, w = Handle(m, c, msg)
    PROVE  /\ w.misbehaved = m.misbehaved /\ w.queued = m.queued /\ w.recovered = m.recovered
           /\ \A d : d # c => Kept(m, w, d)
           /\ (msg.type \in {"inv", "get", "batch"} => m.recovered \/ msg.id \in StateOf(m, c).byRecv)
              => Received(m, w, c, msg)
<1>1. msg.type \in {"ann", "inv", "get", "batch", "share"}
  BY DEF Messages
<1>2. CASE msg.type = "ann"
  <2>1. w = ProcessMessageSigSesAnn(m, c, msg)
    BY <1>2 DEF Handle
  <2>2. /\ Received(m, w, c, msg) /\ \A d : d # c => Kept(m, w, d)
        /\ w.misbehaved = m.misbehaved /\ w.queued = m.queued
    BY <1>2, <2>1, SesAnnReceived, SMT
  <2> QED
    BY <2>2 DEF Received
<1>3. CASE msg.type = "share"
  <2>1. w = ProcessMessageSigShare(m, c, msg)
    BY <1>3 DEF Handle
  <2>2. /\ Received(m, w, c, msg) /\ \A d : d # c => Kept(m, w, d)
        /\ w.misbehaved = m.misbehaved /\ w.queued = m.queued
    BY <1>3, <2>1, ShareReceived, SMT
  <2> QED
    BY <2>2 DEF Received
<1>4. CASE msg.type \in {"inv", "get", "batch"} /\ msg.id \notin StateOf(m, c).byRecv
  <2>1. w = m
    BY <1>4 DEF Handle, ProcessMessageSigSharesInv, ProcessMessageGetSigShares,
                ProcessMessageBatchedSigShares
  <2>2. \A d : Kept(m, m, d)
    BY SameState
  <2> QED
    BY <1>4, <2>1, <2>2 DEF Received
<1>5. CASE msg.type \in {"inv", "get"} /\ msg.id \in StateOf(m, c).byRecv
  <2>1. w = IF msg.type = "inv" THEN ProcessMessageSigSharesInv(m, c, msg)
            ELSE ProcessMessageGetSigShares(m, c, msg)
    BY <1>5 DEF Handle
  <2>2. /\ Received(m, w, c, msg) /\ \A d : d # c => Kept(m, w, d)
        /\ w.misbehaved = m.misbehaved /\ w.queued = m.queued
    BY <1>5, <2>1, InvReceived, SMT
  <2> QED
    BY <2>2 DEF Received
<1>6. CASE msg.type = "batch" /\ msg.id \in StateOf(m, c).byRecv
  <2>1. w = ProcessMessageBatchedSigShares(m, c, msg)
    BY <1>6 DEF Handle
  <2>2. /\ Received(m, w, c, msg) /\ \A d : d # c => Kept(m, w, d)
        /\ w.misbehaved = m.misbehaved /\ w.queued = m.queued
    BY <1>6, <2>1, BatchReceived, SMT
  <2> QED
    BY <2>2 DEF Received
<1> QED
  BY <1>1, <1>2, <1>3, <1>4, <1>5, <1>6

(* n handles a message from p.                                             *)
LEMMA MessageFlow ==
    ASSUME IndInv, FlowInv, NEW n \in Members, NEW p \in setup.peers[n], ProcessMessage(n, p)
    PROVE  FlowInv'
<1> DEFINE inn == msgs[p][n]
           msg == Head(inn)
           m == mgr[n]
           w == Handle(m, p, msg)
<1>1. /\ NetInv /\ ManagerInv(m) /\ p \in Members /\ p \in Nodes /\ n \in setup.peers[p] /\ n # p
      /\ m.hand = None /\ inn # <<>>
  BY PeersType DEF IndInv, ProcessMessage
<1>2. msgs[p] \in [setup.peers[p] -> Seq(Messages)] /\ inn \in Seq(Messages)
  BY <1>1 DEF NetInv
<1>3. msg \in Messages
  BY <1>1, <1>2, SMT
<1>4. /\ msgs' = [msgs EXCEPT ![p][n] = Tail(@)] /\ mgr' = [mgr EXCEPT ![n] = w]
      /\ UNCHANGED <<setup, up, stale, faults>> /\ Members' = Members
  BY DEF ProcessMessage, Handle, netVars, Members
<1>5. /\ msgs'[p][n] = Tail(inn)
      /\ \A a \in Members : \A b \in setup.peers[a] : a # p \/ b # n => msgs'[a][b] = msgs[a][b]
  BY <1>1, <1>2, <1>4 DEF NetInv
<1>6. /\ w.misbehaved = m.misbehaved /\ w.queued = m.queued /\ w.recovered = m.recovered
      /\ \A d : d # p => Kept(m, w, d)
      /\ (msg.type \in {"inv", "get", "batch"} => m.recovered \/ msg.id \in StateOf(m, p).byRecv)
         => Received(m, w, p, msg)
  <2> HIDE DEF m, msg
  <2> QED
    BY <1>1, <1>3, MessageReceived
<1> HIDE DEF w
<1>7. mgr'[n] = w /\ \A d \in Members : d # n => mgr'[d] = mgr[d]
  BY <1>4 DEF IndInv
<1>8. \A d \in Members : mgr'[d].misbehaved = mgr[d].misbehaved
  BY <1>6, <1>7
<1>9. \A d \in Members : mgr'[d].recovered => mgr'[d].queued = {}
  BY <1>6, <1>7 DEF FlowInv
<1>10. ASSUME PairsInv, ~Apart(n, p) PROVE Received(m, w, p, msg)
  <2>1. ~Apart(p, n)
    BY <1>10 DEF Apart
  <2>2. Pair(mgr[p], m, p, n, inn, msgs[n][p])
    BY <1>1, <1>10, <2>1 DEF PairsInv
  <2>3. m.recovered \/ AnnFirst(inn, m, p)
    BY <2>2 DEF Pair
  <2>4. AnnFirst(inn, m, p) /\ msg.type \in {"inv", "get", "batch"} => msg.id = 1 /\ Known(m, p)
    BY <1>1, <1>2, TailOf
  <2> QED
    BY <1>6, <2>3, <2>4 DEF Known
<1>11. ASSUME PairsInv, NEW a \in Members, NEW b \in setup.peers[a], ~Apart(a, b)'
       PROVE  {a, b} \in up /\ Pair(mgr'[a], mgr'[b], a, b, msgs'[a][b], msgs'[b][a])
  <2>1. b \in Members /\ a \in setup.peers[b] /\ a # b
    BY <1>1, PeersType
  <2>2. ~Apart(a, b) /\ ~Apart(b, a)
    BY <1>8, <1>11, <2>1 DEF Apart
  <2>3. /\ {a, b} \in up /\ Pair(mgr[a], mgr[b], a, b, msgs[a][b], msgs[b][a])
        /\ Pair(mgr[b], mgr[a], b, a, msgs[b][a], msgs[a][b])
    BY <1>11, <2>1, <2>2 DEF PairsInv
  <2>4. CASE a = n /\ b = p
    <3>1. Received(m, w, p, Head(inn))
      BY <1>10, <1>11, <2>2, <2>4
    <3>2. /\ mgr'[a] = w /\ mgr'[b] = mgr[p]
          /\ msgs'[a][b] = msgs[n][p] /\ msgs'[b][a] = Tail(inn)
      BY <1>1, <1>5, <1>7, <2>4
    <3>3. Pair(w, mgr[p], n, p, msgs[n][p], Tail(inn))
      BY <1>1, <1>2, <2>3, <2>4, <3>1, ReceiveSender
    <3> QED
      BY <2>3, <2>4, <3>2, <3>3
  <2>5. CASE a = p /\ b = n
    <3>1. Received(m, w, p, Head(inn))
      BY <1>10, <1>11, <2>2, <2>5
    <3>2. /\ mgr'[b] = w /\ mgr'[a] = mgr[p]
          /\ msgs'[b][a] = msgs[n][p] /\ msgs'[a][b] = Tail(inn)
      BY <1>1, <1>5, <1>7, <2>5
    <3>3. Pair(mgr[p], w, p, n, Tail(inn), msgs[n][p])
      BY <1>1, <1>2, <2>3, <2>5, <3>1, ReceiveReceiver
    <3> QED
      BY <2>3, <2>5, <3>2, <3>3
  <2>6. CASE ~(a = n /\ b = p) /\ ~(a = p /\ b = n)
    <3>1. msgs'[a][b] = msgs[a][b] /\ msgs'[b][a] = msgs[b][a]
      BY <1>5, <2>1, <2>6
    <3>2. CASE a = n
      <4>1. Kept(m, w, b) /\ mgr'[a] = w /\ mgr'[b] = mgr[b]
        BY <1>6, <1>7, <2>1, <2>6, <3>2
      <4> QED
        BY <2>3, <3>1, <3>2, <4>1, QuietSender
    <3>3. CASE b = n
      <4>1. Kept(m, w, a) /\ mgr'[b] = w /\ mgr'[a] = mgr[a]
        BY <1>6, <1>7, <2>1, <2>6, <3>3
      <4> QED
        BY <2>3, <3>1, <3>3, <4>1, QuietReceiver
    <3>4. CASE a # n /\ b # n
      BY <1>7, <2>1, <2>3, <3>1, <3>4
    <3> QED
      BY <3>2, <3>3, <3>4
  <2> QED
    BY <2>4, <2>5, <2>6
<1>12. PairsInv => PairsInv'
  BY <1>4, <1>11 DEF PairsInv
<1> QED
  BY <1>4, <1>9, <1>12 DEF FlowInv

(* A connection of a banned node breaks.                                   *)
LEMMA BreakFlow ==
    ASSUME IndInv, FlowInv, NEW n \in Members, NEW p \in setup.peers[n], DisconnectBanned(n, p)
    PROVE  FlowInv'
<1>1. /\ up' = up \ {{n, p}} /\ p \in mgr[n].misbehaved
      /\ msgs' = [a \in Members |-> [b \in setup.peers[a] |->
                     IF {a, b} = {n, p} THEN <<>> ELSE msgs[a][b]]]
      /\ UNCHANGED <<setup, mgr, stale, faults>> /\ Members' = Members
  BY DEF DisconnectBanned, Break, Members
<1>2. ASSUME PairsInv, NEW a \in Members, NEW b \in setup.peers[a], ~Apart(a, b)
      PROVE  {a, b} \in up' /\ Pair(mgr[a], mgr[b], a, b, msgs'[a][b], msgs'[b][a])
  <2>1. b \in Members /\ a \in setup.peers[b]
    BY PeersType DEF IndInv
  <2>2. {a, b} # {n, p}
    BY <1>1, <1>2 DEF Apart
  <2>3. {b, a} = {a, b}
    OBVIOUS
  <2>4. msgs'[a][b] = msgs[a][b] /\ msgs'[b][a] = msgs[b][a] /\ ({a, b} \in up => {a, b} \in up')
    BY <1>1, <2>1, <2>2, <2>3
  <2> QED
    BY <1>2, <2>4 DEF PairsInv
<1>3. PairsInv => PairsInv'
  BY <1>1, <1>2 DEF PairsInv, Apart
<1> QED
  BY <1>1, <1>3 DEF FlowInv

(* What cannot happen without a fault: a broken connection is made again,  *)
(* or someone is asked to sign once more.                                  *)
LEMMA AgainFlow ==
    ASSUME IndInv, FlowInv, NEW n \in Members,
           AsyncSignIfMember(n) \/ \E p \in setup.peers[n] : Connect(n, p)
    PROVE  FlowInv'
<1>1. faults # 0
  <2>1. CASE AsyncSignIfMember(n)
    BY <2>1 DEF AsyncSignIfMember, FlowInv
  <2>2. ASSUME NEW p \in setup.peers[n], Connect(n, p) PROVE faults # 0
    BY <2>2 DEF Connect, FlowInv, PairsInv, Apart
  <2> QED
    BY <2>1, <2>2
<1>2. faults' = faults /\ Members' = Members
  BY DEF AsyncSignIfMember, Connect, Members
<1>3. \A d \in Members : mgr'[d].recovered => mgr'[d].queued = {}
  <2>1. CASE mgr' = mgr
    BY <2>1 DEF FlowInv
  <2>2. CASE AsyncSignIfMember(n)
    <3> DEFINE m == mgr[n]
               a == ForceReAnnouncement(m)
               w == [a EXCEPT !.pendingSigns = TRUE]
    <3>1. mgr' = [mgr EXCEPT ![n] = IF m.recovered THEN m ELSE w]
      BY <2>2 DEF AsyncSignIfMember
    <3>2. w.recovered => m.recovered
      <4>1. ManagerInv(a) /\ a.recovered = m.recovered
        BY ForceRight DEF IndInv
      <4> HIDE DEF a
      <4> QED
        BY <4>1 DEF ManagerInv, Managers
    <3> HIDE DEF w
    <3>3. mgr'[n] \in {m, w} /\ (m.recovered => mgr'[n] = m)
      BY <3>1 DEF IndInv
    <3>4. \A d \in Members : d # n => mgr'[d] = mgr[d]
      BY <3>1 DEF IndInv
    <3> QED
      BY <3>2, <3>3, <3>4 DEF FlowInv
  <2> QED
    BY <2>1, <2>2 DEF Connect
<1> QED
  BY <1>1, <1>2, <1>3 DEF FlowInv
-----------------------------------------------------------------------------
(* Whether SendMessages needs an id for the session.                       *)
NeedsId(m, n, x, c) ==
    /\ GetFrom(x, c) \cup Batch(m, StateOf(m, c)) \cup ToldTo(m, n, c) # {}
    /\ SessionOf(m, c).send = NoSession
DoneWith(x, c) == {k \in Nodes : <<c, k>> \in x.done}

(* The state r of node c, with session u, is the one before the messages   *)
(* but for what SendMessages changes.                                      *)
Effect(m, n, x, c, r, u) ==
    LET s == StateOf(m, c)
        t == SessionOf(m, c)
    IN  /\ r.byRecv = s.byRecv /\ r.pending = s.pending
        /\ r.nextSend = IF NeedsId(m, n, x, c) THEN s.nextSend + 1 ELSE s.nextSend
        /\ u.send = IF NeedsId(m, n, x, c) THEN s.nextSend ELSE t.send
        /\ u.announced = t.announced \ DoneWith(x, c)
        /\ u.requested = IF Idle(m, s) THEN t.requested ELSE {}
        /\ u.knows = t.knows \cup ToldTo(m, n, c)

(* What SendMessages makes of a node state.                                *)
LEMMA SentFields ==
    ASSUME NEW m, NEW n, NEW x, NEW c, StateOf(m, c) \in NodeStates
    PROVE  Effect(m, n, x, c, SentTo(m, n, x, c), SentTo(m, n, x, c).session)
<1> DEFINE s == StateOf(m, c)
           t == SessionOf(m, c)
           get == GetFrom(x, c)
           done == DoneWith(x, c)
           inv == ToldTo(m, n, c)
           needsId == NeedsId(m, n, x, c)
           out == Outstanding(s)
           next == IF needsId THEN s.nextSend + 1 ELSE s.nextSend
           id == IF needsId THEN s.nextSend ELSE t.send
           ask == IF Idle(m, s) THEN t.requested ELSE {}
           u == [t EXCEPT !.announced = @ \ done, !.requested = ask, !.knows = @ \cup inv, !.send = id]
           r == [s EXCEPT !.req = out \cup get, !.old = @ \cap out, !.nextSend = next, !.session = u]
<1>1. SentTo(m, n, x, c) = r
  BY DEF SentTo, NodeStateSent, NeedsId, DoneWith, SessionOf
<1>2. t \in Sessions
  BY GetOrCreateType DEF SessionOf
<1> HIDE DEF s, t, get, done, inv, needsId, out, next, id, ask
<1>3. /\ u.announced = t.announced \ done /\ u.requested = ask /\ u.knows = t.knows \cup inv
      /\ u.send = id
  BY <1>2 DEF Sessions
<1> HIDE DEF u
<1>4. s \in NodeStates
  BY DEF s
<1>5. r.byRecv = s.byRecv /\ r.pending = s.pending /\ r.nextSend = next /\ r.session = u
  BY <1>4 DEF NodeStates
<1> HIDE DEF r
<1> QED
  BY <1>1, <1>3, <1>5 DEF Effect, s, t, done, inv, needsId, next, id, ask

(* To a node it has no session with, and that it does not tell of shares,  *)
(* SendMessages has nothing to say.                                        *)
LEMMA NothingFor ==
    ASSUME NEW m \in Managers, NEW n, NEW x, Chosen(m, x), NEW c,
           Idle(m, StateOf(m, c))
    PROVE  GetFrom(x, c) = {} /\ Batch(m, StateOf(m, c)) = {} /\ DoneWith(x, c) = {}
<1>1. ASSUME NEW k, <<c, k>> \in Announcements(m) PROVE FALSE
  <2>1. <<c, k>>[1] = c
    BY SMT
  <2>2. c \in DOMAIN m.nodeStates /\ ~Idle(m, m.nodeStates[c])
    BY <1>1, <2>1 DEF Announcements
  <2> QED
    BY <2>2 DEF StateOf
<1>2. x.get \subseteq Announcements(m) /\ x.done \subseteq Announcements(m)
  BY DEF Chosen
<1> QED
  BY <1>1, <1>2 DEF GetFrom, DoneWith, Batch

(* The session with any node.                                              *)
LEMMA SentSession ==
    ASSUME NetInv, NEW n \in Members, NEW m, ManagerInv(m), NEW x, Chosen(m, x), NEW c \in Nodes,
           NEW w, w.nodeStates = StatesSent(m, n, x)
    PROVE  Effect(m, n, x, c, StateOf(w, c), SessionOf(w, c))
<1> DEFINE s == StateOf(m, c)
           r == SentTo(m, n, x, c)
           t == SessionOf(m, c)
           needs == NeedsId(m, n, x, c)
<1>1. s \in NodeStates /\ m \in Managers
  BY StateOfType DEF ManagerInv
<1>2. Effect(m, n, x, c, r, r.session)
  BY <1>1, SentFields
<1>3. r.session \in Sessions
  BY SentRight, SMT
<1>4. GetOrCreate(r) = r.session
  BY <1>3, HasSession
<1>5. /\ DOMAIN w.nodeStates = DOMAIN m.nodeStates \cup ToTell(m, n)
      /\ \A d \in DOMAIN w.nodeStates :
             w.nodeStates[d] = IF d \notin ToTell(m, n) /\ m.nodeStates[d].session = None
                               THEN m.nodeStates[d] ELSE SentTo(m, n, x, d)
  BY DEF StatesSent
<1>6. CASE c \in ToTell(m, n) \/ s.session # None
  <2>1. c \in DOMAIN w.nodeStates
    BY <1>5, <1>6 DEF StateOf, NodeState
  <2>2. w.nodeStates[c] = r
    BY <1>5, <1>6, <2>1 DEF StateOf
  <2>3. StateOf(w, c) = r
    BY <2>1, <2>2 DEF StateOf
  <2>4. SessionOf(w, c) = r.session
    BY <1>4, <2>3 DEF SessionOf
  <2> QED
    BY <1>2, <2>3, <2>4
<1>7. CASE c \notin ToTell(m, n) /\ s.session = None
  <2>1. StateOf(w, c) = s
    BY <1>5, <1>7 DEF StateOf
  <2>2. SessionOf(w, c) = t
    BY <2>1 DEF SessionOf
  <2>3. Idle(m, s)
    BY <1>7 DEF Idle
  <2>4. GetFrom(x, c) = {} /\ Batch(m, s) = {} /\ DoneWith(x, c) = {}
    BY <1>1, <2>3, NothingFor
  <2>5. ToldTo(m, n, c) = {}
    BY <1>7 DEF ToldTo
  <2>6. ~needs
    BY <2>4, <2>5 DEF NeedsId
  <2>7. t.announced \ {} = t.announced /\ t.knows \cup {} = t.knows
    OBVIOUS
  <2> HIDE DEF r, s, t, needs
  <2> QED
    BY <2>1, <2>2, <2>3, <2>4, <2>5, <2>6, <2>7 DEF Effect, s, t, needs
<1> QED
  BY <1>6, <1>7

(* The messages of q refer to the session by id, if ann is not empty after *)
(* its announcement.                                                       *)
Led(q, ann, id) ==
    \A i \in DOMAIN q :
        /\ q[i].type = "ann" => q[i].id = id /\ ann # <<>>
        /\ q[i].type \in {"inv", "get", "batch"} =>
            /\ q[i].id = id /\ q[i].shares # {}
            /\ ann = <<>> \/ \E j \in DOMAIN q : j < i /\ q[j].type = "ann"

Speaks == {"inv", "get", "batch", "share"}

(* One message, or none.                                                   *)
LEMMA MessageSays ==
    ASSUME NEW ty \in Speaks, NEW id \in Nat, NEW ks \in SUBSET Nodes
    PROVE  LET r == Message(ty, id, ks)
           IN  /\ r \in Seq(Messages)
               /\ \A i \in DOMAIN r :
                      r[i].type = ty /\ r[i].id = id /\ r[i].shares = ks /\ ks # {}
               /\ \A t, k : Has(r, t, k) <=> t = ty /\ k \in ks
               /\ ~HasAnn(r)
<1> DEFINE y == [type |-> ty, id |-> id, shares |-> ks]
           r == Message(ty, id, ks)
<1>1. r \in Seq(Messages)
  BY MessageType DEF Speaks
<1>2. y.type = ty /\ y.id = id /\ y.shares = ks
  OBVIOUS
<1>3. r = IF ks = {} THEN <<>> ELSE <<y>>
  BY DEF Message
<1> HIDE DEF y, r
<1>4. \A i \in DOMAIN r : r[i] = y /\ ks # {}
  BY <1>3, SMT
<1>5. ks # {} => 1 \in DOMAIN r
  BY <1>3, SMT
<1>6. ASSUME NEW t, NEW k PROVE Has(r, t, k) <=> t = ty /\ k \in ks
  <2>1. Has(r, t, k) => t = ty /\ k \in ks
    BY <1>2, <1>4 DEF Has
  <2>2. ASSUME t = ty, k \in ks PROVE Has(r, t, k)
    <3>1. 1 \in DOMAIN r /\ r[1] = y
      BY <1>4, <1>5, <2>2
    <3> QED
      BY <1>2, <2>2, <3>1 DEF Has
  <2> QED
    BY <2>1, <2>2
<1>7. ~HasAnn(r)
  BY <1>2, <1>4 DEF HasAnn, Speaks
<1> QED
  BY <1>1, <1>2, <1>4, <1>6, <1>7 DEF r

Line(q, ann, id) == q \in Seq(Messages) /\ Led(q, ann, id) /\ (HasAnn(q) <=> ann # <<>>)
Adds(q, r, ty, ks) == \A t, k : Has(r, t, k) <=> Has(q, t, k) \/ (t = ty /\ k \in ks)

(* One message more.                                                       *)
LEMMA LedMore ==
    ASSUME NEW q, NEW ann, NEW id, Line(q, ann, id),
           NEW ty \in Speaks, NEW id2 \in Nat, NEW ks \in SUBSET Nodes, ty # "share" => id2 = id
    PROVE  /\ Line(q \o Message(ty, id2, ks), ann, id)
           /\ Adds(q, q \o Message(ty, id2, ks), ty, ks)
<1>1. q \in Seq(Messages) /\ Led(q, ann, id) /\ (HasAnn(q) <=> ann # <<>>)
  BY DEF Line
<1> DEFINE o == Message(ty, id2, ks)
           r == q \o o
<1>2. /\ o \in Seq(Messages)
      /\ \A i \in DOMAIN o : o[i].type = ty /\ o[i].id = id2 /\ o[i].shares = ks /\ ks # {}
      /\ \A t, k : Has(o, t, k) <=> t = ty /\ k \in ks
      /\ ~HasAnn(o)
  BY MessageSays
<1> HIDE DEF o
<1>3. r \in Seq(Messages)
  BY <1>1, <1>2, SMT
<1>4. /\ \A i \in DOMAIN q : i \in DOMAIN r /\ r[i] = q[i]
      /\ \A i \in DOMAIN o : /\ Len(q) + i \in DOMAIN r /\ r[Len(q) + i] = o[i]
                             /\ \A j \in DOMAIN q : j < Len(q) + i
      /\ \A i \in DOMAIN r : i \in DOMAIN q \/ \E j \in DOMAIN o : i = Len(q) + j
  BY <1>1, <1>2, Concat
<1>5. /\ \A t, k : Has(r, t, k) <=> Has(q, t, k) \/ Has(o, t, k)
      /\ HasAnn(r) <=> HasAnn(q) \/ HasAnn(o)
  BY <1>1, <1>2, ConcatHas
<1> HIDE DEF r
<1>6. ASSUME NEW i \in DOMAIN r
      PROVE  /\ r[i].type = "ann" => r[i].id = id /\ ann # <<>>
             /\ r[i].type \in {"inv", "get", "batch"} =>
                   /\ r[i].id = id /\ r[i].shares # {}
                   /\ ann = <<>> \/ \E j \in DOMAIN r : j < i /\ r[j].type = "ann"
  <2>1. CASE i \in DOMAIN q
    <3>1. r[i] = q[i]
      BY <1>4, <2>1
    <3>2. ASSUME r[i].type \in {"inv", "get", "batch"}, ann # <<>>
          PROVE  \E j \in DOMAIN r : j < i /\ r[j].type = "ann"
      <4>1. PICK j \in DOMAIN q : j < i /\ q[j].type = "ann"
        BY <1>1, <2>1, <3>1, <3>2 DEF Led
      <4>2. j \in DOMAIN r /\ r[j] = q[j]
        BY <1>4
      <4> QED
        BY <4>1, <4>2
    <3> QED
      BY <1>1, <2>1, <3>1, <3>2 DEF Led
  <2>2. ASSUME NEW l \in DOMAIN o, i = Len(q) + l
        PROVE  /\ r[i].type = ty /\ r[i].id = id2 /\ r[i].shares # {}
               /\ ann # <<>> => \E j \in DOMAIN r : j < i /\ r[j].type = "ann"
    <3>1. r[i].type = ty /\ r[i].id = id2 /\ r[i].shares # {}
      BY <1>2, <1>4, <2>2
    <3>2. ASSUME ann # <<>> PROVE \E j \in DOMAIN r : j < i /\ r[j].type = "ann"
      <4>1. PICK j \in DOMAIN q : q[j].type = "ann"
        BY <1>1, <3>2 DEF HasAnn
      <4>2. j \in DOMAIN r /\ r[j] = q[j] /\ j < Len(q) + l
        BY <1>4
      <4> QED
        BY <2>2, <4>1, <4>2
    <3> QED
      BY <3>1, <3>2
  <2> QED
    BY <1>4, <2>1, <2>2 DEF Speaks
<1>7. Led(r, ann, id)
  BY <1>6 DEF Led
<1> QED
  BY <1>1, <1>2, <1>3, <1>5, <1>7 DEF r, o, Line, Adds

(* The messages q of SendMessages to c are led by the announcement of the  *)
(* session, if it has a new id, and ask for, give and tell of what they    *)
(* should.                                                                 *)
Says(m, n, x, c, q) ==
    LET r == SentTo(m, n, x, c)
        ann == IF r.nextSend = StateOf(m, c).nextSend THEN <<>>
               ELSE <<[type |-> "ann", id |-> r.session.send, shares |-> {}]>>
    IN  /\ Led(q, ann, r.session.send) /\ (HasAnn(q) <=> ann # <<>>)
        /\ \A k : /\ Has(q, "get", k) <=> k \in GetFrom(x, c)
                  /\ Has(q, "batch", k) <=> k \in Batch(m, StateOf(m, c))
                  /\ Has(q, "inv", k) <=> k \in ToldTo(m, n, c)
        /\ ann = <<>> <=> r.nextSend = StateOf(m, c).nextSend

(* All messages to one node.                                               *)
LEMMA SentSays ==
    ASSUME NetInv, NEW n \in Members, NEW m, ManagerInv(m), NEW x, Chosen(m, x), NEW c \in Nodes,
           NEW target
    PROVE  Says(m, n, x, c, SentMessages(m, n, x, c, target))
<1> DEFINE s == StateOf(m, c)
           u == SentTo(m, n, x, c)
           id == u.session.send
           own == IF c = target THEN {n} ELSE {}
           y == [type |-> "ann", id |-> id, shares |-> {}]
           ann == IF u.nextSend = s.nextSend THEN <<>> ELSE <<y>>
           get == GetFrom(x, c)
           bat == Batch(m, s)
           inv == ToldTo(m, n, c)
           q1 == ann \o Message("get", id, get)
           q2 == q1 \o Message("batch", id, bat)
           q3 == q2 \o Message("inv", id, inv)
           q4 == q3 \o Message("share", NoSession, own)
<1>1. u.session \in Sessions /\ inv \in SUBSET Nodes
  BY SentRight, SMT
<1>2. id \in Nat
  BY <1>1 DEF Sessions
<1>3. get \in SUBSET Nodes
  BY DEF GetFrom
<1>4. bat \in SUBSET Nodes
  <2>1. m.sigShares \in SUBSET Nodes
    BY DEF ManagerInv, Managers
  <2> QED
    BY <2>1 DEF Batch
<1>5. own \in SUBSET Nodes /\ NoSession \in Nat
  <2>1. NoSession \in Nat
    BY SMT DEF NoSession
  <2> QED
    BY <2>1, PeersType
<1>6. SentMessages(m, n, x, c, target) = q4
  BY DEF SentMessages
<1>7. y \in Messages /\ y.type = "ann" /\ y.id = id /\ y.shares = {}
  BY <1>2 DEF Messages
<1> HIDE DEF id, own, get, bat, inv, y, u, s
<1>8. /\ ann \in Seq(Messages) /\ (ann = <<>> <=> u.nextSend = s.nextSend)
      /\ \A i \in DOMAIN ann : ann[i] = y
      /\ ann # <<>> => 1 \in DOMAIN ann
  <2>1. <<y>> \in Seq(Messages) /\ <<>> \in Seq(Messages) /\ <<y>> # <<>>
        /\ DOMAIN <<y>> = {1} /\ <<y>>[1] = y /\ DOMAIN <<>> = {}
    BY <1>7, SMT
  <2> QED
    BY <2>1
<1> HIDE DEF ann
<1>9. Led(ann, ann, id) /\ (HasAnn(ann) <=> ann # <<>>) /\ \A t, k : ~Has(ann, t, k)
  <2>1. \A t, k : ~Has(ann, t, k)
    BY <1>7, <1>8 DEF Has
  <2>2. HasAnn(ann) => ann # <<>>
    <3>1. DOMAIN <<>> = {}
      BY SMT
    <3> QED
      BY <3>1 DEF HasAnn
  <2>3. ann # <<>> => HasAnn(ann)
    BY <1>7, <1>8 DEF HasAnn
  <2>4. \A i \in DOMAIN ann : ann[i].type = "ann" /\ ann[i].id = id /\ ann # <<>>
    BY <1>7, <1>8, <2>2 DEF HasAnn
  <2>5. Led(ann, ann, id)
    BY <2>4 DEF Led
  <2> QED
    BY <2>1, <2>2, <2>3, <2>5
<1>10. Line(ann, ann, id)
  BY <1>8, <1>9 DEF Line
<1>11. "get" \in Speaks /\ "batch" \in Speaks /\ "inv" \in Speaks /\ "share" \in Speaks
  BY DEF Speaks
<1>12. Line(q1, ann, id) /\ Adds(ann, q1, "get", get)
  BY <1>2, <1>3, <1>10, <1>11, LedMore
<1> HIDE DEF q1
<1>13. Line(q2, ann, id) /\ Adds(q1, q2, "batch", bat)
  BY <1>2, <1>4, <1>11, <1>12, LedMore
<1> HIDE DEF q2
<1>14. Line(q3, ann, id) /\ Adds(q2, q3, "inv", inv)
  BY <1>1, <1>2, <1>11, <1>13, LedMore
<1> HIDE DEF q3
<1>15. Line(q4, ann, id) /\ Adds(q3, q4, "share", own)
  BY <1>5, <1>11, <1>14, LedMore
<1> HIDE DEF q4
<1>16. ASSUME NEW k
       PROVE  /\ Has(q4, "get", k) <=> k \in get
              /\ Has(q4, "batch", k) <=> k \in bat
              /\ Has(q4, "inv", k) <=> k \in inv
  <2>1. /\ Has(q1, "get", k) <=> k \in get
        /\ ~Has(q1, "batch", k) /\ ~Has(q1, "inv", k)
    BY SMT, <1>9, <1>12 DEF Adds
  <2>2. /\ Has(q2, "get", k) <=> Has(q1, "get", k)
        /\ Has(q2, "batch", k) <=> Has(q1, "batch", k) \/ k \in bat
        /\ Has(q2, "inv", k) <=> Has(q1, "inv", k)
    BY SMT, <1>13 DEF Adds
  <2>3. /\ Has(q3, "get", k) <=> Has(q2, "get", k)
        /\ Has(q3, "batch", k) <=> Has(q2, "batch", k)
        /\ Has(q3, "inv", k) <=> Has(q2, "inv", k) \/ k \in inv
    BY SMT, <1>14 DEF Adds
  <2>4. /\ Has(q4, "get", k) <=> Has(q3, "get", k)
        /\ Has(q4, "batch", k) <=> Has(q3, "batch", k)
        /\ Has(q4, "inv", k) <=> Has(q3, "inv", k)
    BY SMT, <1>15 DEF Adds
  <2> QED
    BY <2>1, <2>2, <2>3, <2>4
<1>17. Led(q4, ann, id) /\ (HasAnn(q4) <=> ann # <<>>)
  BY <1>15 DEF Line
<1> QED
  BY <1>6, <1>8, <1>16, <1>17 DEF Says, ann, id, get, bat, inv, y, u, s

(* SendMessages as one of the pair sees it.                                *)
LEMMA SentByRight ==
    ASSUME NetInv, NEW n \in Members, NEW m, ManagerInv(m), m.recovered => m.queued = {},
           NEW x, Chosen(m, x), NEW c \in Nodes, NEW target,
           NEW w, w.nodeStates = StatesSent(m, n, x), w.recovered = m.recovered,
           w.sigShares = m.sigShares, w.hand = m.hand
    PROVE  SentBy(m, w, c, SentMessages(m, n, x, c, target))
<1> DEFINE s == StateOf(m, c)
           t == SessionOf(m, c)
           u == SessionOf(w, c)
           needs == NeedsId(m, n, x, c)
           q == SentMessages(m, n, x, c, target)
           r == SentTo(m, n, x, c)
           id == r.session.send
           y == [type |-> "ann", id |-> id, shares |-> {}]
           ann == IF r.nextSend = s.nextSend THEN <<>> ELSE <<y>>
           get == GetFrom(x, c)
           bat == Batch(m, s)
           inv == ToldTo(m, n, c)
           done == DoneWith(x, c)
<1>1. s \in NodeStates /\ m \in Managers /\ t \in Sessions
  BY StateOfType, GetOrCreateType DEF ManagerInv, SessionOf
<1>2. /\ StateOf(w, c).byRecv = s.byRecv /\ StateOf(w, c).pending = s.pending
      /\ StateOf(w, c).nextSend = IF needs THEN s.nextSend + 1 ELSE s.nextSend
      /\ u.send = IF needs THEN s.nextSend ELSE t.send
      /\ u.announced = t.announced \ done
      /\ u.requested = IF Idle(m, s) THEN t.requested ELSE {}
      /\ u.knows = t.knows \cup inv
  <2>1. Effect(m, n, x, c, StateOf(w, c), u)
    BY SentSession
  <2> QED
    BY <2>1 DEF Effect
<1>3. /\ r.nextSend = IF needs THEN s.nextSend + 1 ELSE s.nextSend
      /\ id = IF needs THEN s.nextSend ELSE t.send
  <2>1. Effect(m, n, x, c, r, r.session)
    BY <1>1, SentFields
  <2> QED
    BY <2>1 DEF Effect
<1>4. /\ Led(q, ann, id) /\ (HasAnn(q) <=> ann # <<>>)
      /\ \A k : /\ Has(q, "get", k) <=> k \in get
                /\ Has(q, "batch", k) <=> k \in bat
                /\ Has(q, "inv", k) <=> k \in inv
      /\ ann = <<>> <=> r.nextSend = s.nextSend
  <2>1. Says(m, n, x, c, q)
    BY SentSays
  <2> QED
    BY <2>1 DEF Says
<1>5. needs => get \cup bat \cup inv # {} /\ t.send = 0
  BY DEF NeedsId, NoSession
<1>6. ~needs /\ t.send = 0 => get \cup bat \cup inv = {}
  BY DEF NeedsId, NoSession
<1>7. m.recovered => get \cup bat \cup inv = {}
  <2> SUFFICES ASSUME m.recovered PROVE get = {} /\ bat = {} /\ inv = {}
    OBVIOUS
  <2>1. Idle(m, s)
    BY DEF Idle
  <2>2. get = {} /\ bat = {}
    BY <1>1, <2>1, NothingFor
  <2>3. inv = {}
    BY DEF ToldTo, ToTell
  <2> QED
    BY <2>2, <2>3
<1>8. \A k \in get : k \in t.announced
  <2> SUFFICES ASSUME NEW k \in get PROVE k \in t.announced
    OBVIOUS
  <2>1. <<c, k>> \in Announcements(m)
    BY DEF GetFrom, Chosen
  <2>2. <<c, k>>[1] = c /\ <<c, k>>[2] = k
    BY SMT
  <2>3. c \in DOMAIN m.nodeStates /\ ~Idle(m, m.nodeStates[c]) /\ k \in m.nodeStates[c].session.announced
    BY <2>1, <2>2 DEF Announcements
  <2>4. m.nodeStates[c] = s /\ s.session # None
    BY <2>3 DEF StateOf, Idle
  <2>5. t = s.session
    BY <2>4 DEF SessionOf, GetOrCreate
  <2> QED
    BY <2>3, <2>4, <2>5
<1>9. \A k \in done : k \in get \/ k \in m.sigShares
  <2> SUFFICES ASSUME NEW k \in done PROVE k \in get \/ k \in m.sigShares
    OBVIOUS
  <2>1. k \in Nodes /\ <<c, k>> \in x.done
    BY DEF DoneWith
  <2>2. <<c, k>>[2] = k
    BY SMT
  <2>3. <<c, k>> \in x.get \/ k \in m.sigShares
    BY <2>1, <2>2 DEF Chosen
  <2> QED
    BY <2>1, <2>3 DEF GetFrom
<1>10. ~Idle(m, s) => bat = t.requested \cap m.sigShares
  BY DEF Idle, Batch, SessionOf, GetOrCreate
<1>11. inv \subseteq m.sigShares
  BY DEF ToldTo, Inv
<1>12. s.nextSend \in Nat /\ s.nextSend + 1 # s.nextSend
  BY <1>1, SMT DEF NodeStates
<1>13. ann # <<>> <=> needs
  BY <1>3, <1>4, <1>12
<1>14. \A i \in DOMAIN q : q[i].type \in {"inv", "get", "batch"} => get \cup bat \cup inv # {}
  <2> SUFFICES ASSUME NEW i \in DOMAIN q, q[i].type \in {"inv", "get", "batch"}
               PROVE  get \cup bat \cup inv # {}
    OBVIOUS
  <2>1. PICK k \in q[i].shares : TRUE
    BY <1>4 DEF Led
  <2>2. Has(q, q[i].type, k)
    BY DEF Has
  <2> HIDE DEF q, get, bat, inv
  <2> QED
    BY <1>4, <2>2
<1>15. SessionOf(m, c) = t /\ SessionOf(w, c) = u /\ StateOf(m, c) = s
  OBVIOUS
<1>16. Incoming(w, c) = Incoming(m, c)
  BY <1>2, SameIncoming
<1> HIDE DEF s, t, u, needs, q, r, id, ann, get, bat, inv, done
<1>17. ASSUME ~m.recovered, IdInv(m, c)
       PROVE  IdInv(w, c) /\ (u.send = 1 => t.send = 1 \/ HasAnn(q))
  <2>1. \/ s.nextSend = 1 /\ t.send = 0
        \/ s.nextSend = 2 /\ t.send = 1
    BY <1>15, <1>17 DEF IdInv
  <2>2. CASE needs
    <3>1. s.nextSend = 1
      BY <1>5, <2>1, <2>2
    <3>2. StateOf(w, c).nextSend = 2 /\ u.send = 1
      BY <1>2, <2>2, <3>1, SMT
    <3> QED
      BY <1>4, <1>13, <1>15, <2>2, <3>2 DEF IdInv
  <2>3. CASE ~needs
    <3>1. StateOf(w, c).nextSend = s.nextSend /\ u.send = t.send
      BY <1>2, <2>3
    <3> QED
      BY <1>15, <2>1, <3>1 DEF IdInv
  <2> QED
    BY <2>2, <2>3
<1>18. ASSUME m.recovered \/ IdInv(m, c), NEW i \in DOMAIN q
       PROVE  /\ q[i].type = "ann" => q[i].id = 1
              /\ q[i].type \in {"inv", "get", "batch"} =>
                    /\ q[i].id = 1
                    /\ \/ ~m.recovered /\ t.send = 1
                       \/ \E j \in DOMAIN q : j < i /\ q[j].type = "ann"
  <2>1. ~m.recovered => \/ s.nextSend = 1 /\ t.send = 0
                        \/ s.nextSend = 2 /\ t.send = 1
    BY <1>15, <1>18 DEF IdInv
  <2>2. needs => id = 1
    BY <1>3, <1>5, <1>7, <2>1
  <2>3. q[i].type = "ann" => q[i].id = 1
    BY <1>4, <1>13, <2>2 DEF Led
  <2>4. ASSUME q[i].type \in {"inv", "get", "batch"}
        PROVE  /\ q[i].id = 1
               /\ \/ ~m.recovered /\ t.send = 1
                  \/ \E j \in DOMAIN q : j < i /\ q[j].type = "ann"
    <3>1. ~m.recovered /\ q[i].id = id
      BY <1>4, <1>7, <1>14, <2>4 DEF Led
    <3>2. CASE needs
      BY <1>4, <1>13, <2>2, <2>4, <3>1, <3>2 DEF Led
    <3>3. CASE ~needs
      <4>1. t.send = 1 /\ id = t.send
        BY <1>3, <1>6, <1>14, <2>1, <2>4, <3>1, <3>3
      <4> QED
        BY <3>1, <4>1
    <3> QED
      BY <3>2, <3>3
  <2> QED
    BY <2>3, <2>4
<1>19. \A k \in t.announced : k \in u.announced \/ k \in m.sigShares \/ Has(q, "get", k)
  BY <1>2, <1>4, <1>9
<1>20. /\ u.announced \subseteq t.announced /\ \A k : Has(q, "get", k) => k \in t.announced
       /\ u.requested \subseteq t.requested /\ \A k : Has(q, "inv", k) => k \in m.sigShares
  BY <1>2, <1>4, <1>8, <1>11
<1>21. \A k \in t.requested \cap m.sigShares : k \in u.requested \/ Has(q, "batch", k)
  BY <1>2, <1>4, <1>10
<1>22. \A k \in u.knows : k \in t.knows \/ Has(q, "inv", k)
  BY <1>2, <1>4
<1>23. SentBy(m, w, c, q)
  BY <1>2, <1>15, <1>16, <1>17, <1>18, <1>19, <1>20, <1>21, <1>22 DEF SentBy
<1> QED
  BY <1>23 DEF q

(* n sends to everyone.                                                    *)
LEMMA SendFlow ==
    ASSUME IndInv, FlowInv, NEW n \in Members, NEW due, SendMessages(n, due)
    PROVE  FlowInv'
<1> DEFINE m == mgr[n]
           target == Target(m, due)
           g == IF target = None THEN m.signed ELSE m.signed + 1
           X(v) == CollectSigSharesToRequest(m, v)
           W(x) == [m EXCEPT !.nodeStates = StatesSent(m, n, x), !.requested = Asked(m, x),
                             !.queued = {}, !.signed = g]
           To(x) == [p \in setup.peers[n] |->
                        IF {n, p} \in up THEN msgs[n][p] \o SentMessages(m, n, x, p, target)
                        ELSE <<>>]
<1>1. NetInv /\ ManagerInv(m) /\ m \in Managers /\ (m.recovered => m.queued = {})
  BY DEF IndInv, ManagerInv, FlowInv
<1>2. PICK v \in Visits(m) : /\ mgr' = [mgr EXCEPT ![n] = W(X(v))]
                             /\ msgs' = [msgs EXCEPT ![n] = To(X(v))]
                             /\ UNCHANGED netVars
  BY SendMeans
<1> DEFINE x == X(v)
           w == W(x)
<1>3. Chosen(m, x)
  BY <1>1, CollectRight
<1> HIDE DEF g, X, x
<1>4. /\ w.nodeStates = StatesSent(m, n, x) /\ w.recovered = m.recovered /\ w.queued = {}
      /\ w.sigShares = m.sigShares /\ w.hand = m.hand /\ w.misbehaved = m.misbehaved
  <2> DEFINE f == StatesSent(m, n, x)
             r == Asked(m, x)
  <2> HIDE DEF f, r
  <2>1. w = [m EXCEPT !.nodeStates = f, !.requested = r, !.queued = {}, !.signed = g]
    BY DEF f, r
  <2> HIDE DEF w, m
  <2> QED
    BY <1>1, <2>1 DEF Managers, f
<1>5. /\ mgr' = [mgr EXCEPT ![n] = w] /\ msgs' = [msgs EXCEPT ![n] = To(x)]
      /\ UNCHANGED <<setup, up, stale, faults>> /\ Members' = Members
  BY <1>2 DEF x, netVars, Members
<1> HIDE DEF W, w
<1>6. mgr'[n] = w /\ \A d \in Members : d # n => mgr'[d] = mgr[d]
  BY <1>5 DEF IndInv
<1>7. /\ \A p \in setup.peers[n] : {n, p} \in up =>
             msgs'[n][p] = msgs[n][p] \o SentMessages(m, n, x, p, target)
      /\ \A d \in Members : d # n => msgs'[d] = msgs[d]
  BY <1>1, <1>5 DEF NetInv
<1>8. \A d \in Members : mgr'[d].misbehaved = mgr[d].misbehaved
  BY <1>4, <1>6
<1>9. \A d \in Members : mgr'[d].recovered => mgr'[d].queued = {}
  BY <1>4, <1>6 DEF FlowInv
<1>10. ASSUME NEW p \in setup.peers[n]
       PROVE  /\ SentBy(m, w, p, SentMessages(m, n, x, p, target))
              /\ SentMessages(m, n, x, p, target) \in Seq(Messages)
              /\ msgs[n][p] \in Seq(Messages)
  <2>1. p \in Nodes
    BY <1>1, PeersType
  <2> HIDE DEF m, target
  <2>2. SentBy(m, w, p, SentMessages(m, n, x, p, target))
    BY <1>1, <1>3, <1>4, <2>1, SentByRight
  <2>3. SentMessages(m, n, x, p, target) \in Seq(Messages)
    BY <1>1, <1>3, <2>1, SentType
  <2> QED
    BY <1>1, <2>2, <2>3 DEF NetInv
<1>11. ASSUME PairsInv, NEW a \in Members, NEW b \in setup.peers[a], ~Apart(a, b)'
       PROVE  {a, b} \in up /\ Pair(mgr'[a], mgr'[b], a, b, msgs'[a][b], msgs'[b][a])
  <2>1. b \in Members /\ a \in setup.peers[b] /\ a # b
    BY <1>1, PeersType
  <2>2. ~Apart(a, b)
    BY <1>8, <1>11, <2>1 DEF Apart
  <2>3. {a, b} \in up /\ {b, a} \in up /\ Pair(mgr[a], mgr[b], a, b, msgs[a][b], msgs[b][a])
    <3>1. {b, a} = {a, b}
      OBVIOUS
    <3> QED
      BY <1>11, <2>2, <3>1 DEF PairsInv
  <2>4. CASE a = n
    <3> DEFINE q == SentMessages(m, n, x, b, target)
    <3>1. SentBy(m, w, b, q) /\ q \in Seq(Messages) /\ msgs[n][b] \in Seq(Messages)
      BY <1>10, <2>4
    <3>2. mgr'[a] = w /\ mgr'[b] = mgr[b] /\ msgs'[a][b] = msgs[n][b] \o q /\ msgs'[b][a] = msgs[b][a]
      BY <1>6, <1>7, <2>1, <2>3, <2>4
    <3> HIDE DEF q
    <3>3. Pair(w, mgr[b], n, b, msgs[n][b] \o q, msgs[b][n])
      BY <2>3, <2>4, <3>1, SendSender
    <3> QED
      BY <2>3, <2>4, <3>2, <3>3
  <2>5. CASE b = n
    <3> DEFINE q == SentMessages(m, n, x, a, target)
    <3>1. SentBy(m, w, a, q) /\ q \in Seq(Messages) /\ msgs[n][a] \in Seq(Messages)
      BY <1>10, <2>1, <2>5
    <3>2. mgr'[b] = w /\ mgr'[a] = mgr[a] /\ msgs'[b][a] = msgs[n][a] \o q /\ msgs'[a][b] = msgs[a][b]
      BY <1>6, <1>7, <2>1, <2>3, <2>5
    <3> HIDE DEF q
    <3>3. Pair(mgr[a], w, a, n, msgs[a][n], msgs[n][a] \o q)
      BY <2>3, <2>5, <3>1, SendReceiver
    <3> QED
      BY <2>3, <2>5, <3>2, <3>3
  <2>6. CASE a # n /\ b # n
    BY <1>6, <1>7, <2>1, <2>3, <2>6
  <2> QED
    BY <2>4, <2>5, <2>6
<1>12. PairsInv => PairsInv'
  BY <1>5, <1>11 DEF PairsInv
<1> QED
  BY <1>5, <1>9, <1>12 DEF FlowInv

(* At first nobody knows anything.                                         *)
LEMMA InitFlow ==
    ASSUME Init
    PROVE  FlowInv
<1> DEFINE one(n) == [Manager EXCEPT !.pendingSigns = n \in setup.signers]
<1>1. NetInv /\ \A n \in Members : mgr[n] = one(n)
  BY InitRight DEF Init, IndInv
<1>2. \A n : DOMAIN one(n).nodeStates = {} /\ one(n).queued = {} /\ ~one(n).recovered
  BY FirstManager
<1> HIDE DEF one
<1>3. ASSUME NEW n \in Members, NEW c
      PROVE  /\ StateOf(mgr[n], c).nextSend = 1 /\ SessionOf(mgr[n], c).send = 0
             /\ SessionOf(mgr[n], c).knows = {} /\ SessionOf(mgr[n], c).announced = {}
             /\ SessionOf(mgr[n], c).requested = {}
             /\ ~mgr[n].recovered /\ mgr[n].queued = {}
  <2>1. StateOf(mgr[n], c) = NodeState
    BY <1>1, <1>2 DEF StateOf
  <2>2. NodeState.session = None /\ NodeState.nextSend = 1
    BY SMT DEF NodeState
  <2>3. SessionOf(mgr[n], c) = Session
    BY <2>1, <2>2 DEF SessionOf, GetOrCreate
  <2>4. /\ Session.send = 0 /\ Session.knows = {}
        /\ Session.announced = {} /\ Session.requested = {}
    BY SMT DEF Session, NoSession
  <2> QED
    BY <1>1, <1>2, <2>1, <2>2, <2>3, <2>4
<1>4. ASSUME NEW n \in Members, NEW p \in setup.peers[n]
      PROVE  {n, p} \in up /\ Pair(mgr[n], mgr[p], n, p, msgs[n][p], msgs[p][n])
  <2>1. p \in Members /\ n \in setup.peers[p]
    BY <1>1, PeersType
  <2>2. {n, p} \in up
    <3>1. {n, p} \in {{n, q} : q \in setup.peers[n]}
      OBVIOUS
    <3>2. {n, p} \in Links
      <4> DEFINE of(a) == {{a, q} : q \in setup.peers[a]}
      <4>1. {n, p} \in of(n)
        BY <3>1
      <4>2. Links = UNION {of(a) : a \in Members}
        BY DEF Links
      <4> HIDE DEF of
      <4> QED
        BY <4>1, <4>2
    <3> QED
      BY <3>2 DEF Init
  <2>3. msgs[n][p] = <<>> /\ msgs[p][n] = <<>> /\ DOMAIN <<>> = {}
    <3>1. DOMAIN <<>> = {}
      BY SMT
    <3> QED
      BY <2>1, <3>1 DEF Init
  <2>4. AnnFirst(msgs[n][p], mgr[p], n)
    BY <2>3 DEF AnnFirst
  <2>5. \A ty, k : ~Has(msgs[n][p], ty, k) /\ ~Has(msgs[p][n], ty, k)
    BY <2>3 DEF Has
  <2>6. Flow(mgr[n], mgr[p], n, p, msgs[n][p], msgs[p][n])
    <3>1. IdInv(mgr[n], p)
      BY <1>3 DEF IdInv
    <3>2. SessionOf(mgr[n], p).send # 1
      BY <1>3, SMT
    <3>3. \A k \in Nodes : ~Offered(k, mgr[n], mgr[p], n, p, msgs[n][p], msgs[p][n])
      BY <1>3, <2>1, <2>5 DEF Offered
    <3>4. SessionOf(mgr[n], p).knows = {}
      BY <1>3
    <3> QED
      BY <3>1, <3>2, <3>3, <3>4 DEF Flow
  <2> QED
    BY <2>2, <2>4, <2>6 DEF Pair
<1>5. stale = {} /\ faults = 0 /\ faults \in Nat
  BY SMT DEF Init
<1> QED
  BY <1>3, <1>4, <1>5 DEF FlowInv, PairsInv

(* Every step keeps it.                                                    *)
LEMMA StepFlow ==
    ASSUME IndInv, FlowInv, [Next]_vars
    PROVE  FlowInv'
<1>1. CASE Step
  <2>1. PICK n \in Members :
            \/ \E p \in setup.peers[n] : ProcessMessage(n, p) \/ DisconnectBanned(n, p) \/ Connect(n, p)
            \/ AddToPending(n)
            \/ ProcessPendingSigShares(n)
            \/ SignPendingSigShares(n)
            \/ \E due \in BOOLEAN : SendMessages(n, due)
            \/ ReceiveRecoveredSig(n)
            \/ CleanupNodeStates(n)
            \/ RemoveBannedNodeStates(n)
            \/ AsyncSignIfMember(n)
            \/ RequestsTimeOut(n)
    BY <1>1 DEF Step
  <2> QED
    BY <2>1, MessageFlow, BreakFlow, AgainFlow, AddToPendingFlow, PendingFlow, SignFlow, SendFlow,
       RecoveredFlow, CleanupFlow, BannedFlow, TimeOutFlow
<1>2. ASSUME Fault, \/ \E n \in Members : SessionTimesOut(n)
                    \/ \E l \in Links : Disconnect(l)
      PROVE  FlowInv'
  <2>1. faults' = faults + 1 /\ faults \in Nat /\ Members' = Members
    BY <1>2 DEF Fault, FlowInv, Members
  <2>2. faults' \in Nat /\ faults' # 0
    BY <2>1, SMT
  <2>3. \A d \in Members : mgr'[d].recovered => mgr'[d].queued = {}
    <3>1. CASE \E l \in Links : Disconnect(l)
      BY <3>1 DEF Disconnect, FlowInv
    <3>2. ASSUME NEW n \in Members, SessionTimesOut(n)
          PROVE  \A d \in Members : mgr'[d].recovered => mgr'[d].queued = {}
      <4> DEFINE m == mgr[n]
                 f == [c \in DOMAIN m.nodeStates |-> RemoveSession(m.nodeStates[c])]
                 r == [k \in Nodes |-> None]
                 w == [m EXCEPT !.nodeStates = f, !.requested = r, !.queued = {}, !.sigShares = {},
                                !.signed = None, !.timeSeen = FALSE]
      <4>1. mgr' = [mgr EXCEPT ![n] = w]
        BY <3>2 DEF SessionTimesOut, RemoveSigSharesForSession
      <4>2. m \in Managers
        BY DEF IndInv, ManagerInv
      <4> HIDE DEF f, r, m
      <4>3. w.queued = {}
        BY <4>2 DEF Managers
      <4> HIDE DEF w
      <4> QED
        BY <4>1, <4>3 DEF FlowInv, IndInv
    <3> QED
      BY <1>2, <3>1, <3>2
  <2> QED
    BY <2>1, <2>2, <2>3 DEF FlowInv
<1>3. CASE UNCHANGED vars
  BY <1>3 DEF vars, netVars, FlowInv, PairsInv, Apart, Members
<1> QED
  BY <1>1, <1>2, <1>3 DEF Next, SessionTimesOut, Disconnect

(* FlowInv holds always.                                                   *)
LEMMA FlowInvHolds == Spec => []FlowInv
<1>1. Init => FlowInv
  BY InitFlow
<1>2. IndInv /\ FlowInv /\ [Next]_vars => FlowInv'
  BY StepFlow
<1> QED
  BY <1>1, <1>2, IndInvHolds, PTL DEF Spec

(* KnownReaches: without a fault, what a member believes a peer to know    *)
(* has reached that peer or will, so that telling a peer of a share only   *)
(* once (knows) leaves nobody without it.                                  *)
THEOREM KnownReachesHolds == Spec => []KnownReaches
<1>1. ASSUME IndInv, FlowInv, faults = 0, NEW n \in Members, NEW p \in setup.peers[n],
             ~mgr[n].recovered, StateOf(mgr[n], p).session # None,
             n \notin mgr[p].misbehaved, p \notin mgr[n].misbehaved,
             NEW k \in StateOf(mgr[n], p).session.knows
      PROVE  Reaches(k, n, p)
  <2> DEFINE a == mgr[n]
             b == mgr[p]
             out == msgs[n][p]
             inn == msgs[p][n]
  <2> SUFFICES ASSUME ~b.recovered PROVE Reaches(k, n, p)
    BY DEF Reaches
  <2>1. Pair(a, b, n, p, out, inn)
    BY <1>1 DEF FlowInv, PairsInv, Apart
  <2>2. NetInv /\ p \in Members /\ n \in Nodes /\ p \in Nodes /\ ManagerInv(a) /\ ManagerInv(b)
    BY <1>1, PeersType DEF IndInv
  <2>3. SessionOf(a, p) = StateOf(a, p).session /\ SessionOf(a, p) \in Sessions
    <3>1. StateOf(a, p) \in NodeStates
      BY <2>2, StateOfType
    <3> QED
      BY <1>1, <3>1, GetOrCreateType DEF SessionOf, GetOrCreate
  <2>4. k \in Nodes
    BY <1>1, <2>3 DEF Sessions
  <2>5. Via(k, a, b, n, p, out, inn)
    BY <1>1, <2>1, <2>3, <2>4 DEF Pair, Flow
  <2>6. ASSUME k \in StateOf(b, n).pending
        PROVE  \E d \in Range(b.nodeStates) : k \in d.pending \cup d.req
    <3>1. n \in DOMAIN b.nodeStates
      BY <2>6 DEF StateOf, NodeState
    <3>2. b.nodeStates[n] \in Range(b.nodeStates) /\ StateOf(b, n) = b.nodeStates[n]
      BY <3>1 DEF Range, StateOf
    <3> QED
      BY <2>6, <3>2
  <2>7. k \in Incoming(b, n) => \/ k \in StateOf(b, n).pending
                                \/ b.hand # None /\ k \in b.hand.shares
    BY DEF Incoming
  <2>8. k \in SessionOf(b, n).announced =>
            StateOf(b, n).session # None /\ k \in StateOf(b, n).session.announced
    BY DEF SessionOf, GetOrCreate, Session
  <2>9. /\ Has(out, "inv", k) => Sent(n, p, "inv", k)
        /\ Has(out, "batch", k) => Sent(n, p, "batch", k)
        /\ Has(inn, "get", k) => Sent(p, n, "get", k)
    BY DEF Has, Sent
  <2> HIDE DEF a, b, out, inn
  <2>10. \/ k \in b.sigShares
         \/ \E d \in Range(b.nodeStates) : k \in d.pending \cup d.req
         \/ b.hand # None /\ k \in b.hand.shares
         \/ StateOf(b, n).session # None /\ k \in StateOf(b, n).session.announced
         \/ Sent(n, p, "inv", k) \/ Sent(n, p, "batch", k) \/ Sent(p, n, "get", k)
         \/ k \in StateOf(a, p).session.requested
    BY <2>3, <2>5, <2>6, <2>7, <2>8, <2>9 DEF Via
  <2> QED
    BY <2>10 DEF Reaches, a, b
<1>2. IndInv /\ FlowInv => KnownReaches
  BY <1>1 DEF KnownReaches
<1> QED
  BY <1>2, IndInvHolds, FlowInvHolds, PTL
=============================================================================
