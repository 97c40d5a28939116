------------------------ MODULE UdpTransport_proofs ------------------------
(***************************************************************************)
(* Proofs about the UDP session manager: first the tables of sessions      *)
(* (UdpSessions), then the packets sent over one session (ReliableUdp).    *)
(*                                                                         *)
(* The session tables of UdpTransport agree in every reachable state, for  *)
(* every number of peers, endpoints and sessions and for every value of    *)
(* the limits.  TablesAgree is not inductive by itself: a table is only    *)
(* updated through records of the right shape, so the invariant carried    *)
(* through the steps is TypeOK /\ TablesAgree /\ ConfirmedIsFiled, with    *)
(* the fact that the sleeping maintenance loop holds no list.              *)
(*                                                                         *)
(* The transfer of packets is proved for any packets, limits and times     *)
(* under TransferAssumption and LifetimeAssumption.                        *)
(***************************************************************************)
EXTENDS UdpSessions, ReliableUdp, FiniteSetTheorems, TLAPS

Tables == SessionTypes /\ TablesAgree /\ ConfirmedIsFiled

(* While the maintenance loop sleeps it holds no list of sessions.         *)
SleepsEmpty == sweep.phase = "sleep" => sweep.todo = {}

IInv == CandidateTypes /\ Tables /\ SleepsEmpty

----------------------------------------------------------------------------
(* Sessions taken out of every table at once, and their objects collected, *)
(* leave the tables in agreement, provided the maintenance loop copies no  *)
(* session it did not have.                                                *)
LEMMA ShrinkKeepsTables ==
  ASSUME ConstantsAssumption, Tables, NEW S \in SUBSET Sid,
         byId' = byId \ S,
         active' = [p \in Peer |-> IF active[p] \in S THEN None ELSE active[p]],
         pending' = pending \ S,
         retiring' = retiring \ S,
         sess' = Collect(sess),
         sweep'.todo \subseteq sweep.todo,
         sweep' \in [phase : Phases, todo : SUBSET Sid, awaiting : BOOLEAN]
  PROVE  Tables'
<1> USE DEF Tables, SessionTypes, TablesAgree, ConstantsAssumption
<1>1. sess' = [s \in Sid |-> IF s \in byId' \cup sweep'.todo
                               THEN sess[s] ELSE None]
  BY DEF Collect
<1>2. SessionTypes'
  BY <1>1
<1>3. ObjectsKnown'
  BY <1>1 DEF ObjectsKnown
<1>4. \A s \in byId' : sess'[s] = sess[s]
  BY <1>1
<1>5. ActiveFiled'
  BY <1>1, <1>4 DEF ActiveFiled
<1>6. PendingFiled'
  BY <1>1, <1>4 DEF PendingFiled
<1>7. RetiringFiled'
  BY <1>1, <1>4 DEF RetiringFiled
<1>8. ConfirmedIsFiled'
  <2> SUFFICES ASSUME NEW s \in byId', sess'[s].confirmed
               PROVE  s \in retiring' \/ active'[sess'[s].peer] = s
    BY DEF ConfirmedIsFiled
  <2>1. sess[s] \in Session
    BY <1>1 DEF ObjectsKnown
  <2>2. sess[s].peer \in Peer /\ sess'[s] = sess[s] /\ s \notin S
    BY <1>1, <1>4, <2>1 DEF Session
  <2> QED BY <1>1, <2>2 DEF ConfirmedIsFiled
<1> QED BY <1>2, <1>3, <1>5, <1>6, <1>7, <1>8

(* _remove_session is such a step.                                         *)
LEMMA RemoveKeepsTables ==
  ASSUME ConstantsAssumption, Tables, NEW S \in SUBSET Sid, Remove(S),
         sweep'.todo \subseteq sweep.todo,
         sweep' \in [phase : Phases, todo : SUBSET Sid, awaiting : BOOLEAN]
  PROVE  Tables'
BY ShrinkKeepsTables DEF Remove

(* A new Session object filed as active or pending keeps the tables in     *)
(* agreement: what it replaces is unconfirmed or was pending on its route. *)
LEMMA HelloNewKeepsTables ==
  ASSUME ConstantsAssumption, Tables, CandidateTypes,
         NEW p \in Peer, NEW n \in Nonce, NEW r \in Route, HelloNew(p, n, r)
  PROVE  Tables'
<1> USE DEF Tables, SessionTypes, TablesAgree, ConstantsAssumption
<1>1. PICK found \in SessionForRoute(p, r) :
        /\ UNCHANGED <<sweep, retiring>>
        /\ \/ UNCHANGED <<sess, byId, active, pending>>
           \/ \E s \in {t \in Sid : sess[t] = None} :
                FileSession(p, n, r,
                  {t \in found : ~sess[t].confirmed}
                    \cup (IF ConfirmedActive(p) THEN PendingOn(p, r) ELSE {}),
                  s)
  BY DEF HelloNew
<1> DEFINE gone == {t \in found : ~sess[t].confirmed}
                     \cup (IF ConfirmedActive(p) THEN PendingOn(p, r) ELSE {})
<1>2. CASE UNCHANGED <<sess, byId, active, pending>>
  BY <1>1, <1>2 DEF ObjectsKnown, ActiveFiled, PendingFiled, RetiringFiled,
                    ConfirmedIsFiled
<1>3. CASE \E s \in {t \in Sid : sess[t] = None} : FileSession(p, n, r, gone, s)
  <2>1. PICK s \in Sid : sess[s] = None /\ FileSession(p, n, r, gone, s)
    BY <1>3
  <2> DEFINE new == [peer |-> p, route |-> r, nonce |-> n,
                     confirmed |-> FALSE, due |-> FALSE]
  <2>2. new \in Session /\ new # None
    <3>1. new \in Session
      BY DEF Session
    <3>2. None \notin Session
      OBVIOUS
    <3> HIDE DEF new
    <3> QED BY <3>1, <3>2
  <2>3. /\ byId' = (byId \ gone) \cup {s}
        /\ pending' = (pending \ gone)
                        \cup (IF ConfirmedActive(p) THEN {s} ELSE {})
        /\ active' = IF ConfirmedActive(p) THEN active
                       ELSE [active EXCEPT ![p] = s]
        /\ sess' = [t \in Sid |-> IF t \in byId' \cup sweep.todo
                                     THEN [sess EXCEPT ![s] = new][t] ELSE None]
    BY <2>1, <1>1 DEF FileSession, Collect
  <2>4. /\ s \notin byId \cup pending \cup retiring \cup sweep.todo
        /\ \A q \in Peer : active[q] # s
    BY <2>1 DEF ObjectsKnown, ActiveFiled, PendingFiled, RetiringFiled
  <2>5. /\ gone \subseteq byId
        /\ \A t \in gone : ~sess[t].confirmed
        /\ ConfirmedActive(p) => PendingOn(p, r) \subseteq gone
    BY DEF SessionForRoute, PendingOn, Active, ActiveFiled, PendingFiled,
           RetiringFiled
  <2>6. ConfirmedActive(p) => active[p] \notin gone
    BY <2>5 DEF ConfirmedActive, Active
  <2>7. \A q \in Peer : q # p /\ active[q] # None => active[q] \notin gone
    BY DEF SessionForRoute, PendingOn, Active, On, ActiveFiled, PendingFiled,
           RetiringFiled
  <2>8. /\ sess'[s] = new
        /\ \A t \in byId' \ {s} : sess'[t] = sess[t]
    BY <2>3, <2>4
  <2>9. SessionTypes'
    BY <2>2, <2>3, <2>4, <2>5, <1>1
  <2>10. ObjectsKnown'
    BY <2>1, <2>2, <2>3, <2>4, <2>5, <1>1 DEF ObjectsKnown
  <2>11. ActiveFiled'
    BY <2>3, <2>4, <2>5, <2>6, <2>7, <2>8, <1>1 DEF ActiveFiled
  <2>12. PendingFiled'
    BY <2>3, <2>4, <2>5, <2>8, <1>1 DEF PendingFiled, PendingOn, On
  <2>13. RetiringFiled'
    BY <2>3, <2>4, <2>5, <2>8, <1>1 DEF RetiringFiled
  <2>14. ConfirmedIsFiled'
    <3> SUFFICES ASSUME NEW t \in byId', sess'[t].confirmed
                 PROVE  t \in retiring' \/ active'[sess'[t].peer] = t
      BY DEF ConfirmedIsFiled
    <3>1. t # s /\ t \in byId /\ sess'[t] = sess[t]
      BY <2>3, <2>8
    <3>2. sess[t].peer \in Peer
      BY <3>1 DEF ObjectsKnown, Session
    <3> QED BY <3>1, <3>2, <2>3, <1>1
            DEF ConfirmedIsFiled, ConfirmedActive, Active
  <2> QED BY <2>9, <2>10, <2>11, <2>12, <2>13, <2>14
<1> QED BY <1>1, <1>2, <1>3

(* READY: the session it confirms is the only pending one of its route,    *)
(* and the active session it replaces retires or goes.                     *)
LEMMA ReadyKeepsTables ==
  ASSUME ConstantsAssumption, Tables, NEW s \in Sid, Ready(s)
  PROVE  Tables'
<1> USE DEF Tables, SessionTypes, TablesAgree, ConstantsAssumption
<1> DEFINE p == sess[s].peer
           unproved == Unproved(s)
           retired == Retired(s)
           replaced == IF active[p] = s THEN {} ELSE PendingOn(p, sess[s].route)
           ready == [sess EXCEPT ![s] = [@ EXCEPT !.confirmed = TRUE, !.due = FALSE]]
<1>1. /\ s \in byId /\ ~sess[s].confirmed
      /\ active' = [active EXCEPT ![p] = s]
      /\ pending' = pending \ (replaced \cup unproved)
      /\ retiring' = retiring \cup retired
      /\ byId' = byId \ unproved
      /\ sweep' = sweep
  BY DEF Ready, Heard
<1>0. sess' = [t \in Sid |-> IF t \in byId' \cup sweep.todo
                     THEN IF t \in retired THEN [ready[t] EXCEPT !.due = FALSE]
                                           ELSE ready[t]
                     ELSE None]
  BY <1>1 DEF Ready, Collect
<1>2. sess[s] \in Session /\ p \in Peer
  BY <1>1 DEF ObjectsKnown, Session
<1>3. /\ s \notin retiring \cup unproved \cup retired
      /\ \A t \in unproved : t \in byId /\ ~sess[t].confirmed
      /\ \A t \in retired : /\ t \in byId /\ t \notin unproved
                            /\ sess[t].confirmed /\ t \notin pending
      /\ \A t \in Sid : active[p] = t /\ t # s /\ sess[t].confirmed
                          => t \in retired
      /\ \A q \in Peer : q # p /\ active[q] # None
           => active[q] \notin unproved \cup retired \cup {s}
  BY <1>1, <1>2 DEF Unproved, Retired, Active, ActiveFiled, RetiringFiled
<1>4. \A t \in byId \cup sweep.todo : sess[t] \in Session
  BY DEF ObjectsKnown
<1>5. \A t \in byId' \cup sweep.todo :
        /\ sess'[t] \in Session
        /\ sess'[t].peer = sess[t].peer /\ sess'[t].route = sess[t].route
        /\ sess'[t].confirmed = (t = s \/ sess[t].confirmed)
  <2> SUFFICES ASSUME NEW t \in byId' \cup sweep.todo
               PROVE  /\ sess'[t] \in Session
                      /\ sess'[t].peer = sess[t].peer
                      /\ sess'[t].route = sess[t].route
                      /\ sess'[t].confirmed = (t = s \/ sess[t].confirmed)
    OBVIOUS
  <2>1. sess[t] \in Session /\ t \in Sid
    BY <1>1, <1>4
  <2>2. ready[t] = IF t = s THEN [sess[s] EXCEPT !.confirmed = TRUE, !.due = FALSE]
                            ELSE sess[t]
    BY <2>1
  <2>3. sess'[t] = IF t \in retired THEN [ready[t] EXCEPT !.due = FALSE]
                                    ELSE ready[t]
    BY <1>0, <1>1, <2>1
  <2> HIDE DEF ready, retired
  <2>4. CASE t = s
    <3>1. sess'[t] = [sess[s] EXCEPT !.confirmed = TRUE, !.due = FALSE]
      BY <2>2, <2>3, <2>4, <1>3
    <3> QED BY <3>1, <2>4, <1>2 DEF Session
  <2>5. CASE t # s
    <3>1. \/ sess'[t] = sess[t]
          \/ sess'[t] = [sess[t] EXCEPT !.due = FALSE]
      BY <2>2, <2>3, <2>5
    <3> QED BY <3>1, <2>1, <2>5 DEF Session
  <2> QED BY <2>4, <2>5
<1>6. s \notin pending' /\ pending' \subseteq pending /\ pending' \subseteq byId'
  <2>1. active[p] = s => s \notin pending
    BY <1>2 DEF ActiveFiled
  <2>2. active[p] # s /\ s \in pending => s \in replaced
    BY DEF PendingOn, On
  <2> QED BY <2>1, <2>2, <1>1 DEF PendingFiled
<1> HIDE DEF p, unproved, retired, replaced, ready
<1>7. SessionTypes'
  BY <1>0, <1>1, <1>2, <1>3, <1>5
<1>8. ObjectsKnown'
  <2>1. \A t \in Sid : t \notin byId' \cup sweep.todo => sess'[t] = None
    BY <1>0
  <2>2. \A t \in byId' \cup sweep.todo : sess'[t] # None /\ t \in Sid
    BY <1>1, <1>5
  <2> QED BY <2>1, <2>2, <1>1 DEF ObjectsKnown
<1>9. ActiveFiled'
  <2> SUFFICES ASSUME NEW q \in Peer, active'[q] # None
               PROVE  /\ active'[q] \in byId' \ (pending' \cup retiring')
                      /\ sess'[active'[q]].peer = q
    BY DEF ActiveFiled
  <2>1. CASE q = p
    <3>1. active'[q] = s /\ s \in byId' /\ s \notin retiring'
      BY <2>1, <1>1, <1>2, <1>3
    <3> QED BY <2>1, <3>1, <1>5, <1>6 DEF p
  <2>2. CASE q # p
    <3>1. active'[q] = active[q]
      BY <2>2, <1>1, <1>2
    <3>2. active[q] \in byId' \ (pending' \cup retiring')
      BY <2>2, <3>1, <1>1, <1>3, <1>6 DEF ActiveFiled
    <3> QED BY <3>1, <3>2, <1>5 DEF ActiveFiled
  <2> QED BY <2>1, <2>2
<1>10. PendingFiled'
  <2>1. \A t \in pending' : t \in byId' /\ ~sess'[t].confirmed
    BY <1>5, <1>6 DEF PendingFiled
  <2>2. \A t, u \in pending' :
          sess'[t].peer = sess'[u].peer /\ sess'[t].route = sess'[u].route => t = u
    BY <1>5, <1>6 DEF PendingFiled
  <2> QED BY <2>1, <2>2 DEF PendingFiled
<1>11. RetiringFiled'
  <2> SUFFICES ASSUME NEW t \in retiring'
               PROVE  t \in byId' /\ sess'[t].confirmed
    BY DEF RetiringFiled
  <2>1. t \in byId /\ sess[t].confirmed
    BY <1>1, <1>3 DEF RetiringFiled
  <2>2. t \in byId'
    BY <2>1, <1>1, <1>3
  <2> QED BY <2>1, <2>2, <1>5
<1>12. ConfirmedIsFiled'
  <2> SUFFICES ASSUME NEW t \in byId', sess'[t].confirmed
               PROVE  t \in retiring' \/ active'[sess'[t].peer] = t
    BY DEF ConfirmedIsFiled
  <2>1. CASE t = s
    <3>1. sess'[t].peer = p
      BY <2>1, <1>5 DEF p
    <3> QED BY <2>1, <3>1, <1>1, <1>2
  <2>2. CASE t # s
    <3>1. t \in byId /\ sess[t].confirmed /\ sess[t].peer \in Peer
      BY <2>2, <1>1, <1>4, <1>5 DEF Session
    <3>2. sess'[t].peer = sess[t].peer
      BY <1>5
    <3>3. CASE t \in retiring
      BY <3>3, <1>1
    <3>4. CASE active[sess[t].peer] = t /\ sess[t].peer # p
      BY <3>1, <3>2, <3>4, <1>1
    <3>5. CASE active[sess[t].peer] = t /\ sess[t].peer = p
      BY <2>2, <3>1, <3>5, <1>1, <1>3
    <3> QED BY <3>1, <3>3, <3>4, <3>5 DEF ConfirmedIsFiled
  <2> QED BY <2>1, <2>2
<1> QED BY <1>7, <1>8, <1>9, <1>10, <1>11, <1>12

(* ForgetCandidate takes pending sessions out, which no other table holds. *)
LEMMA ForgetKeepsTables ==
  ASSUME ConstantsAssumption, Tables, NEW p \in Peer, ForgetCandidate(p)
  PROVE  Tables'
<1> DEFINE gone == {s \in pending : sess[s].peer = p}
<1> USE DEF Tables, SessionTypes, TablesAgree
<1>1. /\ byId' = byId \ gone /\ pending' = pending \ gone
      /\ UNCHANGED <<active, retiring, sweep>> /\ sess' = Collect(sess)
  BY DEF ForgetCandidate
<1>2. active = [q \in Peer |-> IF active[q] \in gone THEN None ELSE active[q]]
  <2>1. \A q \in Peer : active[q] \notin gone \/ active[q] = None
    BY DEF ActiveFiled
  <2> QED BY <2>1
<1>3. retiring \ gone = retiring
  BY DEF RetiringFiled, PendingFiled
<1> QED BY <1>1, <1>2, <1>3, ShrinkKeepsTables

(* Time and traffic change nothing but the deadline of one session.        *)
LEMMA DueKeepsTables ==
  ASSUME ConstantsAssumption, Tables, NEW s \in Sid, NEW d \in BOOLEAN,
         sess[s] # None,
         sess' = [sess EXCEPT ![s] = [@ EXCEPT !.due = d]],
         UNCHANGED <<byId, active, pending, retiring, sweep>>
  PROVE  Tables'
<1> USE DEF Tables, SessionTypes, TablesAgree, ConstantsAssumption
<1>1. sess[s] \in Session
  OBVIOUS
<1>2. /\ [sess[s] EXCEPT !.due = d] \in Session
      /\ \A t \in Sid : sess'[t] = IF t = s THEN [sess[s] EXCEPT !.due = d]
                                            ELSE sess[t]
  BY <1>1 DEF Session
<1>3. \A t \in Sid : /\ sess'[t] \in Session \cup {None}
                     /\ sess'[t] = None <=> sess[t] = None
                     /\ sess[t] # None =>
                          /\ sess'[t].peer = sess[t].peer
                          /\ sess'[t].route = sess[t].route
                          /\ sess'[t].confirmed = sess[t].confirmed
  BY <1>1, <1>2 DEF Session
<1>4. SessionTypes' /\ ObjectsKnown'
  BY <1>3 DEF ObjectsKnown
<1>5. \A t \in byId : t \in Sid /\ sess[t] # None
  BY DEF ObjectsKnown
<1>6. ActiveFiled'
  BY <1>3, <1>5 DEF ActiveFiled
<1>7. PendingFiled'
  BY <1>3, <1>5 DEF PendingFiled
<1>8. RetiringFiled' /\ ConfirmedIsFiled'
  BY <1>3, <1>5 DEF RetiringFiled, ConfirmedIsFiled
<1> QED BY <1>4, <1>6, <1>7, <1>8

(* The maintenance loop copies lists of sessions the tables hold, and only *)
(* _remove_session takes one out.                                          *)
LEMMA SweepKeepsTables ==
  ASSUME ConstantsAssumption, Tables, SleepsEmpty, Sweep
  PROVE  Tables' /\ SleepsEmpty'
<1> USE DEF At, Swept, Asleep, Dead
<1>0. /\ ActiveSet \subseteq byId /\ retiring \subseteq byId
      /\ byId \subseteq Sid /\ sweep.phase \in Phases
      /\ sweep.todo \in SUBSET Sid
  BY DEF Tables, SessionTypes, TablesAgree, ActiveSet, Active, ActiveFiled,
         RetiringFiled
<1>1. ASSUME UNCHANGED sessionVars, sweep.todo = {},
             sweep'.todo \subseteq byId,
             sweep' \in [phase : Phases, todo : SUBSET Sid, awaiting : BOOLEAN]
      PROVE  Tables'
  BY <1>1 DEF Tables, SessionTypes, TablesAgree, sessionVars, ObjectsKnown,
              ActiveFiled, PendingFiled, RetiringFiled, ConfirmedIsFiled
<1>2. ASSUME UNCHANGED <<byId, active, pending, retiring>>,
             sess' = Collect(sess), sweep'.todo \subseteq sweep.todo,
             sweep' \in [phase : Phases, todo : SUBSET Sid, awaiting : BOOLEAN]
      PROVE  Tables'
  <2>1. active = [p \in Peer |-> IF active[p] \in {} THEN None ELSE active[p]]
    BY DEF Tables, SessionTypes
  <2>2. {} \in SUBSET Sid /\ byId = byId \ {} /\ pending = pending \ {}
        /\ retiring = retiring \ {}
    OBVIOUS
  <2> QED BY <1>2, <2>1, <2>2, ShrinkKeepsTables
<1>3. CASE SweepWake
  <2>2. sweep' = [phase |-> "active", todo |-> ActiveSet, awaiting |-> FALSE]
        /\ UNCHANGED sessionVars /\ sweep.todo = {}
    BY <1>3 DEF SweepWake, SleepsEmpty
  <2>3. Tables'
    BY <1>0, <1>1, <2>2 DEF Phases
  <2> QED BY <2>2, <2>3 DEF SleepsEmpty
<1>4. CASE SweepPhase
  <2>2. /\ \/ sweep' = [phase |-> "retiring", todo |-> retiring, awaiting |-> FALSE]
           \/ sweep' = [phase |-> "pending", todo |-> {}, awaiting |-> FALSE]
        /\ UNCHANGED sessionVars /\ sweep.todo = {}
    BY <1>4 DEF SweepPhase
  <2>3. /\ sweep'.todo \subseteq byId
        /\ sweep' \in [phase : Phases, todo : SUBSET Sid, awaiting : BOOLEAN]
    <3>1. CASE sweep' = [phase |-> "retiring", todo |-> retiring, awaiting |-> FALSE]
      BY <1>0, <3>1 DEF Phases
    <3>2. CASE sweep' = [phase |-> "pending", todo |-> {}, awaiting |-> FALSE]
      BY <1>0, <3>2 DEF Phases
    <3> QED BY <2>2, <3>1, <3>2
  <2>4. Tables'
    BY <1>1, <2>2, <2>3
  <2> QED BY <2>2, <2>4 DEF SleepsEmpty
<1>5. CASE SweepPending
  <2>1. /\ Remove({s \in pending : sess[s].due})
        /\ sweep' = [phase |-> "sleep", todo |-> {}, awaiting |-> TRUE]
    BY <1>5 DEF SweepPending
  <2>2. {s \in pending : sess[s].due} \in SUBSET Sid
    BY DEF Tables, SessionTypes
  <2>3. Tables'
    BY <2>1, <2>2, RemoveKeepsTables DEF Phases
  <2> QED BY <2>1, <2>3 DEF SleepsEmpty
<1>6. ASSUME NEW s \in Sid, SweepDrop(s)
      PROVE  Tables' /\ SleepsEmpty'
  <2>1. /\ Remove({s}) /\ sweep.phase # "sleep"
        /\ sweep' = [phase |-> sweep.phase, todo |-> sweep.todo \ {s},
                     awaiting |-> sess[s].confirmed]
    BY <1>6 DEF SweepDrop, SleepsEmpty
  <2>2. sess[s] \in Session
    BY <1>6 DEF SweepDrop, ObjectsKnown, Tables, TablesAgree, SessionTypes
  <2>3. sweep' \in [phase : Phases, todo : SUBSET Sid, awaiting : BOOLEAN]
    BY <1>0, <2>1, <2>2 DEF Session
  <2>4. Tables'
    BY <2>1, <2>3, RemoveKeepsTables
  <2> QED BY <2>1, <2>4 DEF SleepsEmpty
<1>7. ASSUME NEW s \in Sid, SweepKeepalive(s)
      PROVE  Tables' /\ SleepsEmpty'
  <2>1. /\ UNCHANGED <<byId, active, pending, retiring>> /\ sess' = Collect(sess)
        /\ sweep.phase = "active"
        /\ \/ sweep' = [phase |-> "dead", todo |-> {}, awaiting |-> TRUE]
           \/ sweep' = [phase |-> "active", todo |-> sweep.todo \ {s},
                        awaiting |-> FALSE]
    BY <1>7 DEF SweepKeepalive
  <2>2. /\ sweep'.todo \subseteq sweep.todo
        /\ sweep' \in [phase : Phases, todo : SUBSET Sid, awaiting : BOOLEAN]
    <3>1. CASE sweep' = [phase |-> "dead", todo |-> {}, awaiting |-> TRUE]
      BY <1>0, <3>1 DEF Phases
    <3>2. CASE sweep' = [phase |-> "active", todo |-> sweep.todo \ {s},
                         awaiting |-> FALSE]
      BY <1>0, <3>2 DEF Phases
    <3> QED BY <2>1, <3>1, <3>2
  <2>3. Tables'
    BY <1>2, <2>1, <2>2
  <2> QED BY <2>1, <2>3 DEF SleepsEmpty
<1>8. ASSUME NEW s \in Sid, SweepSkip(s)
      PROVE  Tables' /\ SleepsEmpty'
  <2>1. /\ UNCHANGED <<byId, active, pending, retiring>> /\ sess' = Collect(sess)
        /\ sweep' = [phase |-> "retiring", todo |-> sweep.todo \ {s},
                     awaiting |-> FALSE]
    BY <1>8 DEF SweepSkip
  <2>2. Tables'
    BY <1>0, <1>2, <2>1 DEF Phases
  <2> QED BY <2>1, <2>2 DEF SleepsEmpty
<1> QED BY <1>3, <1>4, <1>5, <1>6, <1>7, <1>8 DEF Sweep

(* Every step of the tables, and the new event loop of restart.            *)
LEMMA StepKeepsTables ==
  ASSUME ConstantsAssumption, IInv, [Next]_vars
  PROVE  Tables' /\ SleepsEmpty'
<1> USE DEF IInv
<1> DEFINE Sets == [phase : Phases, todo : SUBSET Sid, awaiting : BOOLEAN]
<1>1. ASSUME UNCHANGED <<sessionVars, sweep>>
      PROVE  Tables' /\ SleepsEmpty'
  BY <1>1 DEF Tables, SessionTypes, TablesAgree, ObjectsKnown, ActiveFiled,
              PendingFiled, RetiringFiled, ConfirmedIsFiled, SleepsEmpty,
              sessionVars
<1>2. ASSUME NEW S \in SUBSET Sid, Remove(S), sweep' = sweep
      PROVE  Tables' /\ SleepsEmpty'
  <2>1. sweep \in Sets
    BY DEF Tables, SessionTypes
  <2> QED BY <1>2, <2>1, RemoveKeepsTables DEF SleepsEmpty
<1>3. CASE Cards
  <2>1. CASE ConfigureDerp
    BY <1>1, <2>1 DEF ConfigureDerp
  <2>2. ASSUME NEW p \in Peer, NEW r \in Direct, ExpectPeer(p, r)
        PROVE  Tables' /\ SleepsEmpty'
    BY <1>1, <2>2 DEF ExpectPeer
  <2>3. ASSUME NEW p \in Peer, ExpectDerpPeer(p)
        PROVE  Tables' /\ SleepsEmpty'
    BY <1>1, <2>3 DEF ExpectDerpPeer
  <2>4. ASSUME NEW p \in Peer, ClearDirectCandidate(p)
        PROVE  Tables' /\ SleepsEmpty'
    <3>1. {s \in pending : sess[s].peer = p /\ sess[s].route # Relay}
            \in SUBSET Sid
      BY DEF Tables, SessionTypes
    <3> QED BY <1>2, <2>4, <3>1 DEF ClearDirectCandidate
  <2>5. ASSUME NEW p \in Peer, ForgetCandidate(p)
        PROVE  Tables' /\ SleepsEmpty'
    BY <2>5, ForgetKeepsTables DEF SleepsEmpty, ForgetCandidate
  <2> QED BY <1>3, <2>1, <2>2, <2>3, <2>4, <2>5 DEF Cards
<1>4. CASE Datagrams
  <2>1. ASSUME NEW p \in Peer, NEW n \in Nonce, NEW r \in Route, HelloNew(p, n, r)
        PROVE  Tables' /\ SleepsEmpty'
    BY <2>1, HelloNewKeepsTables DEF HelloNew, SleepsEmpty
  <2>2. ASSUME NEW p \in Peer, NEW n \in Nonce, NEW r \in Route, HelloSeen(p, n, r)
        PROVE  Tables' /\ SleepsEmpty'
    BY <1>1, <2>2 DEF HelloSeen
  <2>3. ASSUME NEW s \in Sid, Ready(s)
        PROVE  Tables' /\ SleepsEmpty'
    BY <2>3, ReadyKeepsTables DEF Ready, SleepsEmpty
  <2>4. ASSUME NEW s \in Sid, Goodbye(s)
        PROVE  Tables' /\ SleepsEmpty'
    BY <1>2, <2>4 DEF Goodbye
  <2>5. ASSUME NEW s \in Sid, Traffic(s)
        PROVE  Tables' /\ SleepsEmpty'
    <3>1. sess[s] # None
      BY <2>5 DEF Traffic, Heard, Tables, TablesAgree, ObjectsKnown
    <3> QED BY <2>5, <3>1, DueKeepsTables DEF Traffic, SleepsEmpty
  <2> QED BY <1>4, <2>1, <2>2, <2>3, <2>4, <2>5 DEF Datagrams
<1>5. CASE Restart
  <2>1. /\ byId' = {} /\ pending' = {} /\ retiring' = {}
        /\ active' = [p \in Peer |-> None] /\ sess' = [s \in Sid |-> None]
        /\ sweep' = [phase |-> "sleep", todo |-> {}, awaiting |-> TRUE]
    BY <1>5 DEF Restart, Asleep, At
  <2> QED BY <2>1 DEF Tables, SessionTypes, TablesAgree, ObjectsKnown,
                      ActiveFiled, PendingFiled, RetiringFiled,
                      ConfirmedIsFiled, SleepsEmpty, Phases
<1>6. ASSUME NEW p \in Peer, PunchStop(p)
      PROVE  Tables' /\ SleepsEmpty'
  BY <1>1, <1>6 DEF PunchStop
<1>7. ASSUME NEW p \in Peer, PunchEnd(p)
      PROVE  Tables' /\ SleepsEmpty'
  <2>1. {s \in Active(p) : ~sess[s].confirmed} \in SUBSET Sid
    BY DEF Active, Tables, SessionTypes
  <2> QED BY <1>2, <1>7, <2>1 DEF PunchEnd
<1>8. ASSUME NEW s \in Sid, Deadline(s)
      PROVE  Tables' /\ SleepsEmpty'
  BY <1>8, DueKeepsTables DEF Deadline, SleepsEmpty
<1>9. CASE Sweep
  BY <1>9, SweepKeepsTables
<1>10. CASE UNCHANGED vars
  BY <1>1, <1>10 DEF vars, sessionVars
<1> QED BY <1>3, <1>4, <1>5, <1>6, <1>7, <1>8, <1>9, <1>10 DEF Next

----------------------------------------------------------------------------
(* What an attempt is started with is an endpoint or the relay.            *)
LEMMA StartTypes ==
  ASSUME ConstantsAssumption, CandidateTypes, NEW p \in Peer, NEW r \in Route
  PROVE  Started(p, r) \in [Peer -> Attempt \cup {None}]
<1>1. [route |-> r, live |-> TRUE] \in Attempt
  BY DEF Attempt
<1> HIDE DEF Attempt
<1> QED BY <1>1 DEF Started, CandidateTypes

LEMMA StepKeepsCandidateTypes ==
  ASSUME ConstantsAssumption, IInv, [Next]_vars
  PROVE  CandidateTypes'
<1> USE DEF IInv
<1>0. /\ ConstantsAssumption /\ CandidateTypes
      /\ candidate \in [Peer -> Direct \cup {None}]
      /\ expected \in [Peer -> Direct \cup {None}]
      /\ derp \subseteq Peer /\ forgotten \subseteq Peer /\ derpUp \in BOOLEAN
      /\ attempts \in [Peer -> Attempt \cup {None}]
      /\ None \notin Route
  BY DEF CandidateTypes, ConstantsAssumption
<1>1. ASSUME UNCHANGED <<candidateVars, attempts>>
      PROVE  CandidateTypes'
  BY <1>0, <1>1 DEF CandidateTypes, candidateVars
<1>2. \A p \in Peer, r \in Route :
        /\ Started(p, r) \in [Peer -> Attempt \cup {None}]
        /\ StartAttempt(p, r) => attempts' \in [Peer -> Attempt \cup {None}]
  BY <1>0, StartTypes DEF StartAttempt
<1>3. \A p \in Peer : [attempts EXCEPT ![p] = None]
                        \in [Peer -> Attempt \cup {None}]
  BY <1>0
<1>4. /\ \A P, S, T : Release(P, S, T) => derp' \subseteq Peer /\ forgotten' \subseteq Peer
      /\ \A S : Remove(S) => derp' \subseteq Peer /\ forgotten' \subseteq Peer
  BY <1>0 DEF Release, Remove
<1>5. Direct \subseteq Route /\ Relay \in Route
  BY DEF Route
<1>6. CASE Cards
  <2>1. CASE ConfigureDerp
    BY <1>0, <2>1 DEF ConfigureDerp, CandidateTypes
  <2>2. ASSUME NEW p \in Peer, NEW r \in Direct, ExpectPeer(p, r)
        PROVE  CandidateTypes'
    <3>1. PICK target \in Route :
            /\ target \in Direct
            /\ candidate' = [candidate EXCEPT ![p] = r]
            /\ expected' = [expected EXCEPT ![p] = target]
            /\ UNCHANGED <<derp, forgotten, derpUp>>
            /\ \/ StartAttempt(p, Relay)
               \/ StartAttempt(p, target)
               \/ UNCHANGED attempts
      BY <1>0, <1>5, <2>2 DEF ExpectPeer
    <3> QED BY <1>0, <1>2, <1>5, <3>1 DEF CandidateTypes
  <2>3. ASSUME NEW p \in Peer, ExpectDerpPeer(p)
        PROVE  CandidateTypes'
    <3>1. /\ forgotten' = forgotten \ {p} /\ derp' = derp \cup {p}
          /\ StartAttempt(p, Relay) \/ UNCHANGED attempts
          /\ UNCHANGED <<candidate, expected, derpUp>>
      BY <2>3 DEF ExpectDerpPeer
    <3> QED BY <1>0, <1>2, <1>5, <3>1 DEF CandidateTypes
  <2>4. ASSUME NEW p \in Peer, ClearDirectCandidate(p)
        PROVE  CandidateTypes'
    <3>1. attempts' \in [Peer -> Attempt \cup {None}]
      BY <1>0, <1>3, <2>4 DEF ClearDirectCandidate
    <3> QED BY <1>0, <1>4, <2>4, <3>1 DEF ClearDirectCandidate, CandidateTypes
  <2>5. ASSUME NEW p \in Peer, ForgetCandidate(p)
        PROVE  CandidateTypes'
    BY <1>0, <1>3, <2>5 DEF ForgetCandidate, CandidateTypes
  <2> QED BY <1>6, <2>1, <2>2, <2>3, <2>4, <2>5 DEF Cards
<1>7. CASE Datagrams
  <2>1. ASSUME NEW p \in Peer, NEW r \in Route, HelloArrives(p, r)
        PROVE  expected' \in [Peer -> Direct \cup {None}]
    BY <1>0, <2>1 DEF HelloArrives, Route
  <2>2. ASSUME NEW p \in Peer, NEW n \in Nonce, NEW r \in Route, HelloNew(p, n, r)
        PROVE  CandidateTypes'
    <3>1. /\ HelloArrives(p, r) /\ UNCHANGED <<candidate, derpUp>>
          /\ attempts' = attempts \/ attempts' = Started(p, r)
          /\ \/ UNCHANGED <<derp, forgotten>>
             \/ \E P, S, T : Release(P, S, T)
      BY <2>2 DEF HelloNew, FileSession
    <3> QED BY <1>0, <1>2, <1>4, <2>1, <3>1 DEF CandidateTypes
  <2>3. ASSUME NEW p \in Peer, NEW n \in Nonce, NEW r \in Route, HelloSeen(p, n, r)
        PROVE  CandidateTypes'
    BY <1>0, <2>1, <2>3 DEF HelloSeen, CandidateTypes
  <2>4. ASSUME NEW s \in Sid, Ready(s)
        PROVE  CandidateTypes'
    <3>1. /\ UNCHANGED <<candidate, expected, derpUp>>
          /\ attempts' = [attempts EXCEPT ![sess[s].peer] = None]
          /\ \/ UNCHANGED <<derp, forgotten>>
             \/ \E P, S, T : Release(P, S, T)
      BY <2>4 DEF Ready
    <3>2. attempts' \in [Peer -> Attempt \cup {None}]
      BY <1>0, <3>1
    <3> QED BY <1>0, <1>4, <3>1, <3>2 DEF CandidateTypes
  <2>5. ASSUME NEW s \in Sid, Goodbye(s)
        PROVE  CandidateTypes'
    BY <1>0, <1>4, <2>5 DEF Goodbye, CandidateTypes
  <2>6. ASSUME NEW s \in Sid, Traffic(s)
        PROVE  CandidateTypes'
    BY <1>1, <2>6 DEF Traffic
  <2> QED BY <1>7, <2>2, <2>3, <2>4, <2>5, <2>6 DEF Datagrams
<1>8. CASE Restart
  <2> DEFINE known == {p \in Peer : candidate[p] # None}
             relays == {p \in derp \ forgotten :
                          derpUp /\ (ForceRelay \/ p \notin known)}
  <2>1. /\ derp' = derp \ forgotten /\ forgotten' = {}
        /\ UNCHANGED <<candidate, derpUp>>
    BY <1>8 DEF Restart
  <2>2. PICK E \in Fitting(known, MaxExpected) :
        \E D \in Fitting(IF ForceRelay THEN {} ELSE E, MaxAttempts) :
        \E R \in Fitting(relays, MaxAttempts - Cardinality(D)) :
             /\ expected' = [p \in Peer |->
                  IF p \in E THEN candidate[p] ELSE None]
             /\ attempts' = [p \in Peer |->
                  IF p \in R THEN [route |-> Relay, live |-> TRUE]
                  ELSE IF p \in D THEN [route |-> candidate[p], live |-> TRUE]
                  ELSE None]
    BY <1>8 DEF Restart
  <2>7. /\ \A S, n : Fitting(S, n) \subseteq SUBSET S
        /\ E \subseteq known
    BY DEF Fitting
  <2>3. \A p \in E : candidate[p] \in Direct
    BY <1>0, <2>7
  <2>4. \A r \in Route : [route |-> r, live |-> TRUE] \in Attempt
    BY DEF Attempt
  <2>5. attempts' \in [Peer -> Attempt \cup {None}]
    <3> DEFINE started(D, R) ==
                 [p \in Peer |->
                    IF p \in R THEN [route |-> Relay, live |-> TRUE]
                    ELSE IF p \in D THEN [route |-> candidate[p], live |-> TRUE]
                    ELSE None]
    <3>0. PICK D \in Fitting(IF ForceRelay THEN {} ELSE E, MaxAttempts) :
            \E R \in Fitting(relays, MaxAttempts - Cardinality(D)) :
              attempts' = started(D, R)
      BY <2>2
    <3>1. PICK R \in Fitting(relays, MaxAttempts - Cardinality(D)) :
            attempts' = started(D, R)
      BY <3>0
    <3>2. D \subseteq E
      BY DEF Fitting
    <3> QED BY <3>1, <3>2, <2>3, <2>4, <1>5
  <2>6. expected' \in [Peer -> Direct \cup {None}]
    BY <2>2, <2>3
  <2> QED BY <1>0, <2>1, <2>5, <2>6 DEF CandidateTypes
<1>9. ASSUME NEW p \in Peer, PunchStop(p)
      PROVE  CandidateTypes'
  <2>1. attempts[p] \in Attempt
        /\ attempts' = [attempts EXCEPT ![p] = [attempts[p] EXCEPT !.live = FALSE]]
    BY <1>0, <1>9 DEF PunchStop
  <2>2. [attempts[p] EXCEPT !.live = FALSE] \in Attempt
    BY <2>1 DEF Attempt
  <2>3. attempts' \in [Peer -> Attempt \cup {None}]
    BY <1>0, <2>1, <2>2
  <2> QED BY <1>0, <1>9, <2>3 DEF PunchStop, CandidateTypes, candidateVars
<1>10. ASSUME NEW p \in Peer, PunchEnd(p)
      PROVE  CandidateTypes'
  <2>1. /\ UNCHANGED <<candidate, expected, derpUp>>
        /\ \E S : Remove(S)
        /\ attempts' = Started(p, Relay)
             \/ attempts' = [attempts EXCEPT ![p] = None]
    BY <1>10 DEF PunchEnd, Started
  <2> QED BY <1>0, <1>2, <1>3, <1>4, <1>5, <2>1 DEF CandidateTypes
<1>11. ASSUME NEW s \in Sid, Deadline(s)
       PROVE  CandidateTypes'
  BY <1>1, <1>11 DEF Deadline
<1>12. CASE Sweep
  <2>1. CASE SweepWake \/ SweepPhase
    BY <1>1, <2>1 DEF SweepWake, SweepPhase
  <2>2. CASE SweepPending
    <3>1. \E old \in SUBSET Peer :
            expected' = [p \in Peer |-> IF p \in old THEN None ELSE expected[p]]
      BY <2>2 DEF SweepPending
    <3>2. expected' \in [Peer -> Direct \cup {None}]
      BY <1>0, <3>1
    <3> QED BY <1>0, <1>4, <2>2, <3>2 DEF SweepPending, CandidateTypes
  <2>3. ASSUME NEW s \in Sid, SweepDrop(s)
        PROVE  CandidateTypes'
    BY <1>0, <1>4, <2>3 DEF SweepDrop, CandidateTypes
  <2>4. ASSUME NEW s \in Sid, SweepKeepalive(s)
        PROVE  CandidateTypes'
    <3>1. /\ UNCHANGED candidateVars
          /\ \/ attempts' = attempts
             \/ /\ sess[s].confirmed /\ candidate[sess[s].peer] # None
                /\ attempts' = Started(sess[s].peer, candidate[sess[s].peer])
      BY <2>4 DEF SweepKeepalive, Probes
    <3>2. sess[s].peer \in Peer
      BY <2>4 DEF SweepKeepalive, Tables, SessionTypes, TablesAgree,
                  ObjectsKnown, Session
    <3>3. candidate[sess[s].peer] # None => candidate[sess[s].peer] \in Route
      BY <1>0, <1>5, <3>2
    <3>4. attempts' \in [Peer -> Attempt \cup {None}]
      BY <1>0, <1>2, <3>1, <3>2, <3>3
    <3> QED BY <1>0, <3>1, <3>4 DEF candidateVars, CandidateTypes
  <2>5. ASSUME NEW s \in Sid, SweepSkip(s)
        PROVE  CandidateTypes'
    BY <1>1, <2>5 DEF SweepSkip
  <2> QED BY <1>12, <2>1, <2>2, <2>3, <2>4, <2>5 DEF Sweep
<1>13. CASE UNCHANGED vars
  BY <1>1, <1>13 DEF vars, candidateVars
<1> QED BY <1>6, <1>7, <1>8, <1>9, <1>10, <1>11, <1>12, <1>13 DEF Next

----------------------------------------------------------------------------
LEMMA InitEstablishes ==
  ASSUME ConstantsAssumption, Init
  PROVE  IInv
<1>1. CandidateTypes
  BY DEF Init, CandidateTypes
<1>2. Tables /\ SleepsEmpty
  BY DEF Init, Tables, SessionTypes, TablesAgree, ObjectsKnown, ActiveFiled,
         PendingFiled, RetiringFiled, ConfirmedIsFiled, SleepsEmpty,
         Asleep, At, Phases
<1> QED BY <1>1, <1>2 DEF IInv

(* The invariant that the steps of the transport carry through.            *)
THEOREM Invariant == Spec => []IInv
<1>1. Init => IInv
  BY ConstantsAssumption, InitEstablishes
<1>2. IInv /\ [Next]_vars => IInv'
  BY ConstantsAssumption, StepKeepsTables, StepKeepsCandidateTypes DEF IInv
<1> QED BY <1>1, <1>2, PTL DEF Spec

(* The tables and the candidates of the transport hold values of their     *)
(* kinds: an active session is a session, an attempt goes to an endpoint   *)
(* or to the relay.                                                        *)
THEOREM Typed == Spec => []TypeOK
<1>1. IInv => TypeOK
  BY DEF IInv, Tables, TypeOK
<1> QED BY <1>1, Invariant, PTL

(* _sessions, _pending_sessions, _retiring_sessions and _sessions_by_id    *)
(* agree in every reachable state.                                         *)
THEOREM Agreement == Spec => []TablesAgree
<1>1. IInv => TablesAgree
  BY DEF IInv, Tables
<1> QED BY <1>1, Invariant, PTL

(* Every confirmed session is active or retiring, so the maintenance loop  *)
(* and restart find it.                                                    *)
THEOREM Filed == Spec => []ConfirmedIsFiled
<1>1. IInv => ConfirmedIsFiled
  BY DEF IInv, Tables
<1> QED BY <1>1, Invariant, PTL

----------------------------------------------------------------------------
RouteKept ==
  \A p \in Peer : ConfirmedActive(p) /\ active'[p] \notin {active[p], None}
    => active[p] \in retiring' /\ sess'[active'[p]].confirmed

(* Only HELLO and READY make another session the active one, and HELLO     *)
(* does so only where no confirmed session is active.                      *)
LEMMA StepKeepsRoute ==
  ASSUME IInv, [Next]_vars
  PROVE  RouteKept
<1> DEFINE Same == \A p \in Peer : active'[p] \in {active[p], None}
<1>0. /\ active \in [Peer -> Sid \cup {None}] /\ sess \in [Sid -> Session \cup {None}]
      /\ byId \subseteq Sid
      /\ \A s \in byId : sess[s] \in Session
  BY DEF IInv, Tables, SessionTypes, TablesAgree, ObjectsKnown
<1>1. Same => RouteKept
  BY DEF RouteKept
<1>2. /\ UNCHANGED active => Same
      /\ \A S : Remove(S) => Same
      /\ UNCHANGED sessionVars => Same
  BY <1>0 DEF Remove, sessionVars
<1> HIDE DEF Same
<1>3. CASE Cards
  <2>1. ASSUME NEW p \in Peer, ClearDirectCandidate(p)
        PROVE  \E S : Remove(S)
    BY <2>1 DEF ClearDirectCandidate
  <2>2. ASSUME NEW p \in Peer, \/ \E r \in Direct : ExpectPeer(p, r)
                              \/ ExpectDerpPeer(p)
                              \/ ForgetCandidate(p)
        PROVE  UNCHANGED active
    BY <2>2 DEF ExpectPeer, ExpectDerpPeer, ForgetCandidate, sessionVars
  <2>3. ConfigureDerp => UNCHANGED active
    BY DEF ConfigureDerp, sessionVars
  <2> QED BY <1>1, <1>2, <1>3, <2>1, <2>2, <2>3 DEF Cards
<1>4. ASSUME NEW p \in Peer, NEW n \in Nonce, NEW r \in Route, HelloNew(p, n, r)
      PROVE  RouteKept
  <2>1. \/ UNCHANGED active
        \/ ~ConfirmedActive(p) /\ \E s \in Sid : active' = [active EXCEPT ![p] = s]
    BY <1>4 DEF HelloNew, FileSession
  <2>2. CASE UNCHANGED active
    BY <2>2, <1>1, <1>2
  <2>3. CASE ~ConfirmedActive(p) /\ \E s \in Sid : active' = [active EXCEPT ![p] = s]
    <3>1. \A q \in Peer : q # p => active'[q] = active[q]
      BY <1>0, <2>3
    <3> QED BY <2>3, <3>1 DEF RouteKept
  <2> QED BY <2>1, <2>2, <2>3
<1>5. ASSUME NEW s \in Sid, Ready(s)
      PROVE  RouteKept
  <2> DEFINE p == sess[s].peer
  <2>1. /\ s \in byId /\ sess[s] \in Session /\ p \in Peer
        /\ active' = [active EXCEPT ![p] = s]
        /\ retiring' = retiring \cup Retired(s)
        /\ byId' = byId \ Unproved(s)
    BY <1>0, <1>5 DEF Ready, Heard, Session
  <2>2. sess'[s].confirmed
    <3>1. s \in byId' /\ s \notin Retired(s)
      BY <2>1 DEF Retired, Unproved
    <3>2. sess'[s] = [sess EXCEPT ![s] = [@ EXCEPT !.confirmed = TRUE, !.due = FALSE]][s]
      BY <1>5, <3>1, <2>1 DEF Ready, Collect
    <3> QED BY <3>2, <1>0, <2>1 DEF Session
  <2>3. \A q \in Peer : q # p => active'[q] = active[q]
    BY <1>0, <2>1
  <2>4. ConfirmedActive(p) /\ active[p] # s => active[p] \in retiring'
    BY <2>1 DEF ConfirmedActive, Active, Retired
  <2>5. active'[p] = s
    BY <1>0, <2>1
  <2> HIDE DEF p
  <2> QED BY <2>2, <2>3, <2>4, <2>5 DEF RouteKept
<1>6. CASE \/ \E p \in Peer, n \in Nonce, r \in Route : HelloSeen(p, n, r)
           \/ \E s \in Sid : Goodbye(s) \/ Traffic(s) \/ Deadline(s)
           \/ \E p \in Peer : PunchStop(p) \/ PunchEnd(p)
  BY <1>1, <1>2, <1>6 DEF HelloSeen, Goodbye, Traffic, Deadline, PunchStop, PunchEnd
<1>7. CASE Sweep
  BY <1>1, <1>2, <1>7 DEF Sweep, SweepWake, SweepPhase, SweepPending, SweepDrop,
                          SweepKeepalive, SweepSkip
<1>8. CASE Restart
  <2>1. \A p \in Peer : active'[p] = None
    BY <1>8 DEF Restart
  <2> QED BY <2>1, <1>1 DEF Same
<1>9. CASE UNCHANGED vars
  BY <1>9, <1>1, <1>2 DEF vars
<1> QED BY <1>3, <1>4, <1>5, <1>6, <1>7, <1>8, <1>9 DEF Next, Datagrams

(* A failed replacement handshake leaves the confirmed route unchanged: a  *)
(* confirmed active session gives way only to a confirmed one, and drains. *)
THEOREM RoutesKept == Spec => ConfirmedRouteKept
<1>1. IInv /\ [Next]_vars => [RouteKept]_vars
  BY StepKeepsRoute
<1> QED BY <1>1, Invariant, PTL DEF Spec, ConfirmedRouteKept, RouteKept

----------------------------------------------------------------------------
(* The life of a session, which is what ReliableUdp takes for granted of   *)
(* the session it sends over (Confirm, Replace, SenderRemoves,             *)
(* ReceiverRemoves): unconfirmed, active once proved, retiring, gone.      *)
Stage(s) ==
  IF s \notin byId THEN "gone"
  ELSE IF s \in retiring THEN "retiring"
  ELSE IF sess[s].confirmed THEN "active" ELSE "unconfirmed"

Onwards ==
  {<<"gone", "unconfirmed">>, <<"unconfirmed", "active">>, <<"active", "retiring">>,
   <<"unconfirmed", "gone">>, <<"active", "gone">>, <<"retiring", "gone">>}

(* The same peer, endpoint and keys. *)
SameSession(s) ==
  /\ sess'[s].peer = sess[s].peer /\ sess'[s].route = sess[s].route
  /\ sess'[s].nonce = sess[s].nonce

Lives(s) ==
  /\ (Stage(s)' = Stage(s) \/ <<Stage(s), Stage(s)'>> \in Onwards)
  /\ s \in byId \cap byId' => SameSession(s)

(* A step that files no session and confirms or retires none.              *)
LEMMA QuietLives ==
  ASSUME IInv, byId' \subseteq byId,
         \A s \in byId' : /\ SameSession(s) /\ sess'[s].confirmed = sess[s].confirmed
                          /\ s \in retiring' <=> s \in retiring
  PROVE  \A s \in Sid : Lives(s)
<1> TAKE s \in Sid
<1>1. CASE s \in byId'
  BY <1>1 DEF Lives, Stage
<1>2. CASE s \notin byId'
  BY <1>2 DEF Lives, Stage, Onwards
<1> QED  BY <1>1, <1>2

LEMMA RemoveLives ==
  ASSUME IInv, NEW S, Remove(S)
  PROVE  \A s \in Sid : Lives(s)
<1>1. byId' = byId \ S /\ retiring' = retiring \ S /\ sess' = Collect(sess)
  BY DEF Remove
<1>2. byId \subseteq Sid
  BY DEF IInv, Tables, SessionTypes
<1>3. \A s \in byId' : sess'[s] = sess[s]
  BY <1>1, <1>2 DEF Collect
<1> QED  BY <1>1, <1>3, QuietLives DEF SameSession

(* A new HELLO: the session filed is a new one, and the ones it replaces   *)
(* are gone.                                                               *)
LEMMA HelloNewLives ==
  ASSUME ConstantsAssumption, IInv, NEW p \in Peer, NEW n \in Nonce, NEW r \in Route,
         HelloNew(p, n, r)
  PROVE  \A s \in Sid : Lives(s)
<1>0. /\ byId \subseteq Sid /\ sess \in [Sid -> Session \cup {None}]
      /\ \A s \in Sid : s \in byId => sess[s] # None
      /\ retiring \subseteq byId
  BY DEF IInv, Tables, SessionTypes, TablesAgree, ObjectsKnown, RetiringFiled
<1>1. retiring' = retiring
  BY DEF HelloNew
<1>2. CASE UNCHANGED <<sess, byId>>
  BY <1>1, <1>2, QuietLives DEF SameSession
<1>3. CASE ~UNCHANGED <<sess, byId>>
  <2>1. PICK found \in SessionForRoute(p, r) :
          LET gone == {s \in found : ~sess[s].confirmed}
                        \cup (IF ConfirmedActive(p) THEN PendingOn(p, r) ELSE {})
          IN  \/ UNCHANGED <<sess, byId>>
              \/ \E s \in {u \in Sid : sess[u] = None} : FileSession(p, n, r, gone, s)
    BY DEF HelloNew
  <2> DEFINE gone == {s \in found : ~sess[s].confirmed}
                       \cup (IF ConfirmedActive(p) THEN PendingOn(p, r) ELSE {})
  <2>2. PICK t \in Sid : sess[t] = None /\ FileSession(p, n, r, gone, t)
    BY <1>3, <2>1
  <2> HIDE DEF gone
  <2> DEFINE new == [peer |-> p, route |-> r, nonce |-> n, confirmed |-> FALSE, due |-> FALSE]
  <2>3. byId' = (byId \ gone) \cup {t} /\ sess' = Collect([sess EXCEPT ![t] = new])
    BY <2>2 DEF FileSession
  <2>4. t \notin byId /\ t \notin retiring
    BY <1>0, <2>2
  <2>5. \A s \in byId' : s # t => sess'[s] = sess[s]
    BY <1>0, <2>3 DEF Collect
  <2>6. sess'[t] = new
    BY <1>0, <2>3 DEF Collect
  <2> TAKE s \in Sid
  <2>7. CASE s = t
    BY <1>1, <2>3, <2>4, <2>6, <2>7 DEF Lives, Stage, Onwards
  <2>8. CASE s # t /\ s \in byId'
    BY <1>1, <2>3, <2>5, <2>8 DEF Lives, Stage, SameSession
  <2>9. CASE s # t /\ s \notin byId'
    BY <2>3, <2>9 DEF Lives, Stage, Onwards
  <2> QED  BY <2>7, <2>8, <2>9
<1> QED  BY <1>2, <1>3

(* READY: one session is proved, the active one it replaces retires if it  *)
(* was proved itself.                                                      *)
LEMMA ReadyLives ==
  ASSUME ConstantsAssumption, IInv, NEW t \in Sid, Ready(t)
  PROVE  \A s \in Sid : Lives(s)
<1>0. /\ byId \subseteq Sid /\ sess \in [Sid -> Session \cup {None}]
      /\ \A s \in byId : sess[s] \in Session
      /\ active \in [Peer -> Sid \cup {None}]
      /\ \A q \in Peer : active[q] # None => active[q] \in byId \ retiring
      /\ \A s \in retiring : s \in byId /\ sess[s].confirmed
  BY DEF IInv, Tables, SessionTypes, TablesAgree, ObjectsKnown, RetiringFiled, ActiveFiled
<1> DEFINE ready == [sess EXCEPT ![t] = [@ EXCEPT !.confirmed = TRUE, !.due = FALSE]]
<1>1. /\ t \in byId /\ ~sess[t].confirmed
      /\ retiring' = retiring \cup Retired(t) /\ byId' = byId \ Unproved(t)
      /\ sess' = Collect([s \in Sid |-> IF s \in Retired(t)
                                        THEN [ready[s] EXCEPT !.due = FALSE] ELSE ready[s]])
  BY DEF Ready, Heard
<1>2. /\ t \notin Retired(t) /\ t \notin Unproved(t) /\ t \notin retiring
      /\ \A s \in Retired(t) : s \in byId \ retiring /\ sess[s].confirmed
  BY <1>0, <1>1 DEF Retired, Unproved, Active, Session
<1>3. \A s \in byId' : sess'[s] = IF s \in Retired(t)
                                  THEN [ready[s] EXCEPT !.due = FALSE] ELSE ready[s]
  BY <1>0, <1>1 DEF Collect
<1>4. /\ ready[t] = [sess[t] EXCEPT !.confirmed = TRUE, !.due = FALSE]
      /\ \A s \in Sid : s # t => ready[s] = sess[s]
  BY <1>0
<1> HIDE DEF ready
<1>5. sess'[t].confirmed /\ SameSession(t)
  <2>1. t \in byId' /\ sess'[t] = ready[t]
    BY <1>1, <1>2, <1>3
  <2> QED  BY <2>1, <1>4, <1>0, <1>1 DEF Session, SameSession
<1>6. ASSUME NEW s \in byId', s # t
      PROVE  SameSession(s) /\ sess'[s].confirmed = sess[s].confirmed
  <2>1. s \in byId /\ sess[s] \in Session /\ ready[s] = sess[s]
    BY <1>0, <1>1, <1>6, <1>4
  <2>2. sess'[s] = sess[s] \/ sess'[s] = [sess[s] EXCEPT !.due = FALSE]
    BY <2>1, <1>3
  <2> QED  BY <2>1, <2>2 DEF Session, SameSession
<1> TAKE s \in Sid
<1>7. CASE s = t
  BY <1>1, <1>2, <1>5, <1>7 DEF Lives, Stage, Onwards
<1>8. CASE s # t /\ s \in byId'
  BY <1>1, <1>2, <1>6, <1>8 DEF Lives, Stage, Onwards
<1>9. CASE s # t /\ s \notin byId'
  BY <1>1, <1>9 DEF Lives, Stage, Onwards
<1> QED  BY <1>7, <1>8, <1>9

(* Only the deadline of a session moves. *)
LEMMA DueLives ==
  ASSUME ConstantsAssumption, IInv, NEW t \in Sid, NEW d \in BOOLEAN, sess[t] # None,
         sess' = [sess EXCEPT ![t] = [@ EXCEPT !.due = d]], UNCHANGED <<byId, retiring>>
  PROVE  \A s \in Sid : Lives(s)
<1>0. /\ byId \subseteq Sid /\ sess \in [Sid -> Session \cup {None}]
  BY DEF IInv, Tables, SessionTypes
<1>1. \A s \in byId : SameSession(s) /\ sess'[s].confirmed = sess[s].confirmed
  BY <1>0 DEF SameSession, Session
<1> QED  BY <1>1, QuietLives

LEMMA StepLives ==
  ASSUME ConstantsAssumption, IInv, [Next]_vars
  PROVE  \A s \in Sid : Lives(s)
<1> DEFINE Goal == \A s \in Sid : Lives(s)
<1>0. byId \subseteq Sid
  BY DEF IInv, Tables, SessionTypes
<1>1. UNCHANGED <<byId, retiring>> /\ (UNCHANGED sess \/ sess' = Collect(sess)) => Goal
  <2>1. ASSUME UNCHANGED <<byId, retiring>>, UNCHANGED sess \/ sess' = Collect(sess)
        PROVE  Goal
    <3>1. \A s \in byId' : sess'[s] = sess[s]
      BY <1>0, <2>1 DEF Collect
    <3> QED  BY <2>1, <3>1, QuietLives DEF SameSession
  <2> QED  BY <2>1
<1>2. \A S : Remove(S) => Goal
  BY RemoveLives
<1> HIDE DEF Goal
<1>3. CASE Cards
  <2>1. ASSUME NEW p \in Peer, ForgetCandidate(p)
        PROVE  Goal
    <3>1. byId' \subseteq byId /\ UNCHANGED retiring /\ sess' = Collect(sess)
      BY <2>1 DEF ForgetCandidate
    <3>2. \A s \in byId' : sess'[s] = sess[s]
      BY <1>0, <3>1 DEF Collect
    <3> QED  BY <3>1, <3>2, QuietLives DEF SameSession, Goal
  <2>2. ASSUME NEW p \in Peer, ClearDirectCandidate(p)
        PROVE  Goal
    BY <2>2, <1>2 DEF ClearDirectCandidate
  <2>3. ASSUME NEW p \in Peer, (\E r \in Direct : ExpectPeer(p, r)) \/ ExpectDerpPeer(p)
        PROVE  Goal
    BY <2>3, <1>1 DEF ExpectPeer, ExpectDerpPeer, sessionVars
  <2>4. CASE ConfigureDerp
    BY <2>4, <1>1 DEF ConfigureDerp, sessionVars, Goal
  <2> QED  BY <1>3, <2>1, <2>2, <2>3, <2>4 DEF Cards, Goal
<1>4. CASE Datagrams
  <2>1. ASSUME NEW p \in Peer, NEW n \in Nonce, NEW r \in Route, HelloNew(p, n, r)
        PROVE  Goal
    BY <2>1, HelloNewLives DEF Goal
  <2>2. ASSUME NEW p \in Peer, NEW n \in Nonce, NEW r \in Route, HelloSeen(p, n, r)
        PROVE  Goal
    BY <2>2, <1>1 DEF HelloSeen, sessionVars
  <2>3. ASSUME NEW s \in Sid, Ready(s)
        PROVE  Goal
    BY <2>3, ReadyLives DEF Goal
  <2>4. ASSUME NEW s \in Sid, Goodbye(s)
        PROVE  Goal
    BY <2>4, <1>2 DEF Goodbye
  <2>5. ASSUME NEW s \in Sid, Traffic(s)
        PROVE  Goal
    <3>1. sess[s] # None
      BY <2>5 DEF Traffic, Heard, IInv, Tables, TablesAgree, ObjectsKnown
    <3> QED  BY <2>5, <3>1, DueLives DEF Traffic, Goal
  <2> QED  BY <1>4, <2>1, <2>2, <2>3, <2>4, <2>5 DEF Datagrams, Goal
<1>5. CASE Restart
  <2>1. byId' = {}
    BY <1>5 DEF Restart
  <2> QED  BY <2>1, QuietLives DEF Goal
<1>6. ASSUME NEW p \in Peer, PunchStop(p) \/ PunchEnd(p)
      PROVE  Goal
  BY <1>6, <1>1, <1>2 DEF PunchStop, PunchEnd, sessionVars
<1>7. ASSUME NEW s \in Sid, Deadline(s)
      PROVE  Goal
  BY <1>7, DueLives DEF Deadline, Goal
<1>8. CASE Sweep
  BY <1>8, <1>1, <1>2 DEF Sweep, SweepWake, SweepPhase, SweepPending, SweepDrop,
                          SweepKeepalive, SweepSkip, sessionVars, Goal
<1>9. CASE UNCHANGED vars
  BY <1>9, <1>1 DEF vars, Goal
<1> QED  BY <1>3, <1>4, <1>5, <1>6, <1>7, <1>8, <1>9 DEF Next, Goal

(* A session is proved once, drains once and never comes back: no order of *)
(* HELLO, READY, GOODBYE, expiry, lost cards and restarts takes a retiring *)
(* session into use again, retires one that was not proved, or gives one   *)
(* that is filed another peer, endpoint or key (_handle_hello,             *)
(* _handle_ready, _remove_session).                                        *)
THEOREM SessionsLive == Spec => [][\A s \in Sid : Lives(s)]_vars
<1>1. ConstantsAssumption /\ IInv /\ [Next]_vars => [\A s \in Sid : Lives(s)]_vars
  BY StepLives
<1> QED  BY <1>1, Invariant, ConstantsAssumption, PTL DEF Spec

----------------------------------------------------------------------------
(* What PeerRoutes takes for granted of the transport: the sessions of one *)
(* peer as PeerManager sees them, the unproved ones left out.              *)
Seen(p) ==
  [s \in Sid |->
     IF ~(s \in byId /\ sess[s].peer = p /\ sess[s].confirmed) THEN "none"
     ELSE IF s \in retiring THEN "retiring" ELSE "active"]

(* PeerRoutes!Confirm: s is proved, and what was active retires.           *)
SeenConfirm(p, s) ==
  /\ Seen(p)[s] = "none"
  /\ Seen(p)' = [t \in Sid |-> IF t = s THEN "active"
                               ELSE IF Seen(p)[t] = "active" THEN "retiring"
                               ELSE Seen(p)[t]]

(* PeerRoutes!SessionGoodbye and PeerRoutes!Expire: s ends, no other does. *)
SeenEnd(p, s) ==
  /\ Seen(p)[s] # "none"
  /\ Seen(p)' = [Seen(p) EXCEPT ![s] = "none"]

(* PeerRoutes!Restart: every session ends. *)
SeenRestart(p) == Seen(p)' = [s \in Sid |-> "none"]

SeenStep(p) ==
  \/ Seen(p)' = Seen(p)
  \/ \E s \in Sid : SeenConfirm(p, s) \/ SeenEnd(p, s)
  \/ SeenRestart(p)

(* What a step shows that files no session and confirms or retires none.   *)
LEMMA QuietSeen ==
  ASSUME IInv, byId' \subseteq byId,
         \A s \in byId' : /\ SameSession(s) /\ sess'[s].confirmed = sess[s].confirmed
                          /\ s \in retiring' <=> s \in retiring,
         NEW p \in Peer
  PROVE  Seen(p)' = [s \in Sid |-> IF s \in byId' THEN Seen(p)[s] ELSE "none"]
<1>1. ASSUME NEW s \in Sid
      PROVE  Seen(p)'[s] = IF s \in byId' THEN Seen(p)[s] ELSE "none"
  <2>1. CASE s \in byId'
    BY <2>1 DEF Seen, SameSession
  <2>2. CASE s \notin byId'
    BY <2>2 DEF Seen
  <2> QED  BY <2>1, <2>2
<1>2. Seen(p)' = [s \in Sid |-> Seen(p)'[s]]
  BY DEF Seen
<1> QED  BY <1>1, <1>2

(* Nothing changes where only unproved sessions go.                        *)
LEMMA UnprovedUnseen ==
  ASSUME IInv, byId' \subseteq byId,
         \A s \in byId' : /\ SameSession(s) /\ sess'[s].confirmed = sess[s].confirmed
                          /\ s \in retiring' <=> s \in retiring,
         \A s \in byId : s \notin byId' => ~sess[s].confirmed
  PROVE  \A p \in Peer : SeenStep(p)
<1> TAKE p \in Peer
<1>1. Seen(p)' = [s \in Sid |-> IF s \in byId' THEN Seen(p)[s] ELSE "none"]
  BY QuietSeen
<1>2. \A s \in Sid : s \notin byId' => Seen(p)[s] = "none"
  BY DEF Seen
<1>3. Seen(p)' = [s \in Sid |-> Seen(p)[s]]
  BY <1>1, <1>2
<1>4. Seen(p) = [s \in Sid |-> Seen(p)[s]]
  BY DEF Seen
<1> QED  BY <1>3, <1>4 DEF SeenStep

(* A removal, of unproved sessions or of a single one. *)
LEMMA RemoveSeen ==
  ASSUME IInv, NEW S \in SUBSET Sid, Remove(S),
         (\A s \in S : s \in byId => ~sess[s].confirmed) \/ (\E t \in Sid : S = {t})
  PROVE  \A p \in Peer : SeenStep(p)
<1>1. byId' = byId \ S /\ retiring' = retiring \ S /\ sess' = Collect(sess)
  BY DEF Remove
<1>2. byId \subseteq Sid
  BY DEF IInv, Tables, SessionTypes
<1>3. \A s \in byId' : /\ sess'[s] = sess[s] /\ SameSession(s)
                       /\ s \in retiring' <=> s \in retiring
  BY <1>1, <1>2 DEF Collect, SameSession
<1>4. CASE \A s \in S : s \in byId => ~sess[s].confirmed
  BY <1>1, <1>3, <1>4, UnprovedUnseen
<1>5. ASSUME NEW t \in Sid, S = {t}, t \in byId, sess[t].confirmed
      PROVE  \A p \in Peer : SeenStep(p)
  <2> TAKE p \in Peer
  <2>1. Seen(p)' = [s \in Sid |-> IF s \in byId' THEN Seen(p)[s] ELSE "none"]
    BY <1>1, <1>3, QuietSeen
  <2>2. \A s \in Sid : s \notin byId' => s = t \/ Seen(p)[s] = "none"
    BY <1>1, <1>5 DEF Seen
  <2>3. Seen(p)' = [s \in Sid |-> IF s = t THEN "none" ELSE Seen(p)[s]]
    BY <1>1, <1>5, <2>1, <2>2
  <2>4. Seen(p) = [s \in Sid |-> Seen(p)[s]]
    BY DEF Seen
  <2>5. Seen(p)' = [Seen(p) EXCEPT ![t] = "none"]
    BY <2>3, <2>4
  <2>6. CASE Seen(p)[t] = "none"
    <3>1. Seen(p)' = [s \in Sid |-> Seen(p)[s]]
      BY <2>3, <2>6
    <3> QED  BY <3>1, <2>4 DEF SeenStep
  <2>7. CASE Seen(p)[t] # "none"
    BY <2>5, <2>7 DEF SeenEnd, SeenStep
  <2> QED  BY <2>6, <2>7
<1> QED  BY <1>4, <1>5

(* A new HELLO files an unproved session and replaces unproved ones.       *)
LEMMA HelloNewSeen ==
  ASSUME ConstantsAssumption, IInv, NEW p \in Peer, NEW n \in Nonce, NEW r \in Route,
         HelloNew(p, n, r)
  PROVE  \A q \in Peer : SeenStep(q)
<1>0. /\ byId \subseteq Sid /\ sess \in [Sid -> Session \cup {None}]
      /\ \A s \in Sid : s \in byId => sess[s] # None
      /\ \A s \in pending : ~sess[s].confirmed
  BY DEF IInv, Tables, SessionTypes, TablesAgree, ObjectsKnown, PendingFiled
<1>1. retiring' = retiring
  BY DEF HelloNew
<1>2. CASE UNCHANGED <<sess, byId>>
  BY <1>1, <1>2, UnprovedUnseen DEF SameSession
<1>3. CASE ~UNCHANGED <<sess, byId>>
  <2>1. PICK found \in SessionForRoute(p, r) :
          LET gone == {s \in found : ~sess[s].confirmed}
                        \cup (IF ConfirmedActive(p) THEN PendingOn(p, r) ELSE {})
          IN  \/ UNCHANGED <<sess, byId>>
              \/ \E s \in {u \in Sid : sess[u] = None} : FileSession(p, n, r, gone, s)
    BY DEF HelloNew
  <2> DEFINE gone == {s \in found : ~sess[s].confirmed}
                       \cup (IF ConfirmedActive(p) THEN PendingOn(p, r) ELSE {})
  <2>2. PICK t \in Sid : sess[t] = None /\ FileSession(p, n, r, gone, t)
    BY <1>3, <2>1
  <2>3. \A s \in gone : ~sess[s].confirmed
    BY <1>0 DEF PendingOn
  <2> HIDE DEF gone
  <2> DEFINE new == [peer |-> p, route |-> r, nonce |-> n, confirmed |-> FALSE, due |-> FALSE]
  <2>4. byId' = (byId \ gone) \cup {t} /\ sess' = Collect([sess EXCEPT ![t] = new])
    BY <2>2 DEF FileSession
  <2>5. t \notin byId
    BY <1>0, <2>2
  <2>6. \A s \in byId' : s # t => sess'[s] = sess[s]
    BY <1>0, <2>4 DEF Collect
  <2>7. ~sess'[t].confirmed
    BY <1>0, <2>4 DEF Collect
  <2> TAKE q \in Peer
  <2>8. ASSUME NEW s \in Sid
        PROVE  Seen(q)'[s] = Seen(q)[s]
    <3>1. CASE s = t
      BY <2>5, <2>7, <3>1 DEF Seen
    <3>2. CASE s # t /\ s \in byId'
      BY <1>1, <2>4, <2>6, <3>2 DEF Seen
    <3>3. CASE s # t /\ s \notin byId'
      BY <2>3, <2>4, <3>3 DEF Seen
    <3> QED  BY <3>1, <3>2, <3>3
  <2>9. Seen(q)' = [s \in Sid |-> Seen(q)'[s]] /\ Seen(q) = [s \in Sid |-> Seen(q)[s]]
    BY DEF Seen
  <2> QED  BY <2>8, <2>9 DEF SeenStep
<1> QED  BY <1>2, <1>3

(* READY shows a peer one more session; the one it replaces in the tables, *)
(* if it was proved, is the only one that was shown as active.             *)
LEMMA ReadySeen ==
  ASSUME ConstantsAssumption, IInv, NEW t \in Sid, Ready(t)
  PROVE  \A q \in Peer : SeenStep(q)
<1>0. /\ byId \subseteq Sid /\ sess \in [Sid -> Session \cup {None}]
      /\ \A s \in byId : sess[s] \in Session
      /\ active \in [Peer -> Sid \cup {None}]
      /\ \A q \in Peer : active[q] # None =>
           active[q] \in byId \ retiring /\ sess[active[q]].peer = q
      /\ \A s \in retiring : s \in byId /\ sess[s].confirmed
      /\ \A s \in byId : sess[s].confirmed =>
           s \in retiring \/ active[sess[s].peer] = s
  BY DEF IInv, Tables, SessionTypes, TablesAgree, ObjectsKnown, RetiringFiled,
         ActiveFiled, ConfirmedIsFiled
<1> DEFINE ready == [sess EXCEPT ![t] = [@ EXCEPT !.confirmed = TRUE, !.due = FALSE]]
           p == sess[t].peer
<1>1. /\ t \in byId /\ ~sess[t].confirmed
      /\ retiring' = retiring \cup Retired(t) /\ byId' = byId \ Unproved(t)
      /\ sess' = Collect([s \in Sid |-> IF s \in Retired(t)
                                        THEN [ready[s] EXCEPT !.due = FALSE] ELSE ready[s]])
  BY DEF Ready, Heard
<1>2. p \in Peer
  BY <1>0, <1>1 DEF Session
<1>3. /\ t \notin Retired(t) /\ t \notin Unproved(t) /\ t \notin retiring
      /\ \A s \in Retired(t) : s \in byId /\ sess[s].confirmed /\ sess[s].peer = p
      /\ \A s \in Unproved(t) : ~sess[s].confirmed
      /\ \A s \in byId : sess[s].confirmed /\ sess[s].peer = p
           => s \in retiring \/ s \in Retired(t)
      /\ \A s \in Retired(t) : s \notin retiring
  BY <1>0, <1>1, <1>2 DEF Retired, Unproved, Active
<1>4. \A s \in byId' : sess'[s] = IF s \in Retired(t)
                                  THEN [ready[s] EXCEPT !.due = FALSE] ELSE ready[s]
  BY <1>0, <1>1 DEF Collect
<1>5. /\ ready[t] = [sess[t] EXCEPT !.confirmed = TRUE, !.due = FALSE]
      /\ \A s \in Sid : s # t => ready[s] = sess[s]
  BY <1>0
<1> HIDE DEF ready
<1>6. t \in byId' /\ sess'[t].confirmed /\ sess'[t].peer = p
  <2>1. t \in byId' /\ sess'[t] = ready[t]
    BY <1>1, <1>3, <1>4
  <2> QED  BY <2>1, <1>5, <1>0, <1>1 DEF Session
<1>7. ASSUME NEW s \in byId', s # t
      PROVE  sess'[s].peer = sess[s].peer /\ sess'[s].confirmed = sess[s].confirmed
  <2>1. s \in byId /\ sess[s] \in Session /\ ready[s] = sess[s]
    BY <1>0, <1>1, <1>7, <1>5
  <2>2. sess'[s] = sess[s] \/ sess'[s] = [sess[s] EXCEPT !.due = FALSE]
    BY <2>1, <1>4
  <2> QED  BY <2>1, <2>2 DEF Session
<1> HIDE DEF p
<1> TAKE q \in Peer
<1>8. Seen(q)' = [s \in Sid |-> Seen(q)'[s]] /\ Seen(q) = [s \in Sid |-> Seen(q)[s]]
  BY DEF Seen
<1>9. CASE q = p
  <2>1. Seen(q)[t] = "none" /\ Seen(q)'[t] = "active"
    BY <1>1, <1>3, <1>6, <1>9 DEF Seen
  <2>2. ASSUME NEW s \in Sid, s # t
        PROVE  Seen(q)'[s] = IF Seen(q)[s] = "active" THEN "retiring" ELSE Seen(q)[s]
    <3>1. CASE ~(s \in byId /\ sess[s].peer = q /\ sess[s].confirmed)
      BY <1>1, <1>7, <2>2, <3>1 DEF Seen
    <3>2. CASE s \in byId /\ sess[s].peer = q /\ sess[s].confirmed
      <4>1. s \in byId' /\ s \in retiring'
        BY <1>1, <1>3, <1>9, <3>2
      <4> QED  BY <4>1, <1>7, <2>2, <3>2 DEF Seen
    <3> QED  BY <3>1, <3>2
  <2>3. Seen(q)' = [s \in Sid |-> IF s = t THEN "active"
                                  ELSE IF Seen(q)[s] = "active" THEN "retiring"
                                  ELSE Seen(q)[s]]
    BY <1>8, <2>1, <2>2
  <2> QED  BY <2>1, <2>3 DEF SeenStep, SeenConfirm
<1>10. CASE q # p
  <2>1. sess[t].peer # q
    BY <1>10 DEF p
  <2>2. ASSUME NEW s \in Sid
        PROVE  Seen(q)'[s] = Seen(q)[s]
    <3>1. CASE s = t
      BY <1>6, <1>10, <2>1, <3>1 DEF Seen
    <3>2. CASE s # t /\ s \in byId'
      <4>1. sess[s].peer = q => (s \in retiring' <=> s \in retiring)
        BY <1>1, <1>3, <1>10
      <4> QED  BY <4>1, <3>2, <1>1, <1>7 DEF Seen
    <3>3. CASE s # t /\ s \notin byId'
      BY <1>1, <1>3, <3>3 DEF Seen
    <3> QED  BY <3>1, <3>2, <3>3
  <2> QED  BY <1>8, <2>2 DEF SeenStep
<1> QED  BY <1>9, <1>10

(* Only the deadline of a session moves. *)
LEMMA DueSeen ==
  ASSUME ConstantsAssumption, IInv, NEW t \in Sid, NEW d \in BOOLEAN, sess[t] # None,
         sess' = [sess EXCEPT ![t] = [@ EXCEPT !.due = d]], UNCHANGED <<byId, retiring>>
  PROVE  \A p \in Peer : SeenStep(p)
<1>0. /\ byId \subseteq Sid /\ sess \in [Sid -> Session \cup {None}]
  BY DEF IInv, Tables, SessionTypes
<1>1. \A s \in byId : SameSession(s) /\ sess'[s].confirmed = sess[s].confirmed
  BY <1>0 DEF SameSession, Session
<1> QED  BY <1>1, UnprovedUnseen

LEMMA StepSeen ==
  ASSUME ConstantsAssumption, IInv, [Next]_vars
  PROVE  \A p \in Peer : SeenStep(p)
<1> DEFINE Goal == \A p \in Peer : SeenStep(p)
<1>0. /\ byId \subseteq Sid /\ pending \subseteq Sid
      /\ active \in [Peer -> Sid \cup {None}]
      /\ \A s \in pending : ~sess[s].confirmed
  BY DEF IInv, Tables, SessionTypes, TablesAgree, PendingFiled
<1>1. UNCHANGED <<byId, retiring>> /\ (UNCHANGED sess \/ sess' = Collect(sess)) => Goal
  <2>1. ASSUME UNCHANGED <<byId, retiring>>, UNCHANGED sess \/ sess' = Collect(sess)
        PROVE  Goal
    <3>1. \A s \in byId' : sess'[s] = sess[s]
      BY <1>0, <2>1 DEF Collect
    <3> QED  BY <2>1, <3>1, UnprovedUnseen DEF SameSession
  <2> QED  BY <2>1
<1>2. \A S \in SUBSET Sid : Remove(S) /\ (\A s \in S : ~sess[s].confirmed) => Goal
  BY RemoveSeen
<1>3. \A s \in Sid : Remove({s}) => Goal
  BY RemoveSeen
<1> HIDE DEF Goal
<1>4. CASE Cards
  <2>1. ASSUME NEW p \in Peer, ForgetCandidate(p)
        PROVE  Goal
    <3>1. /\ byId' = byId \ {s \in pending : sess[s].peer = p}
          /\ UNCHANGED retiring /\ sess' = Collect(sess)
      BY <2>1 DEF ForgetCandidate
    <3>2. \A s \in byId' : sess'[s] = sess[s]
      BY <1>0, <3>1 DEF Collect
    <3> QED  BY <1>0, <3>1, <3>2, UnprovedUnseen DEF SameSession, Goal
  <2>2. ASSUME NEW p \in Peer, ClearDirectCandidate(p)
        PROVE  Goal
    <3> DEFINE S == {s \in pending : sess[s].peer = p /\ sess[s].route # Relay}
    <3>1. Remove(S) /\ S \in SUBSET Sid /\ \A s \in S : ~sess[s].confirmed
      BY <1>0, <2>2 DEF ClearDirectCandidate
    <3> HIDE DEF S
    <3> QED  BY <3>1, <1>2
  <2>3. ASSUME NEW p \in Peer, (\E r \in Direct : ExpectPeer(p, r)) \/ ExpectDerpPeer(p)
        PROVE  Goal
    BY <2>3, <1>1 DEF ExpectPeer, ExpectDerpPeer, sessionVars
  <2>4. CASE ConfigureDerp
    BY <2>4, <1>1 DEF ConfigureDerp, sessionVars, Goal
  <2> QED  BY <1>4, <2>1, <2>2, <2>3, <2>4 DEF Cards, Goal
<1>5. CASE Datagrams
  <2>1. ASSUME NEW p \in Peer, NEW n \in Nonce, NEW r \in Route, HelloNew(p, n, r)
        PROVE  Goal
    BY <2>1, HelloNewSeen DEF Goal
  <2>2. ASSUME NEW p \in Peer, NEW n \in Nonce, NEW r \in Route, HelloSeen(p, n, r)
        PROVE  Goal
    BY <2>2, <1>1 DEF HelloSeen, sessionVars
  <2>3. ASSUME NEW s \in Sid, Ready(s)
        PROVE  Goal
    BY <2>3, ReadySeen DEF Goal
  <2>4. ASSUME NEW s \in Sid, Goodbye(s)
        PROVE  Goal
    BY <2>4, <1>3 DEF Goodbye
  <2>5. ASSUME NEW s \in Sid, Traffic(s)
        PROVE  Goal
    <3>1. sess[s] # None
      BY <2>5 DEF Traffic, Heard, IInv, Tables, TablesAgree, ObjectsKnown
    <3> QED  BY <2>5, <3>1, DueSeen DEF Traffic, Goal
  <2> QED  BY <1>5, <2>1, <2>2, <2>3, <2>4, <2>5 DEF Datagrams, Goal
<1>6. CASE Restart
  <2>1. byId' = {}
    BY <1>6 DEF Restart
  <2>2. \A p \in Peer : SeenRestart(p)
    BY <2>1 DEF SeenRestart, Seen
  <2> QED  BY <2>2 DEF SeenStep, Goal
<1>7. ASSUME NEW p \in Peer, PunchStop(p) \/ PunchEnd(p)
      PROVE  Goal
  <2>1. CASE PunchStop(p)
    BY <2>1, <1>1 DEF PunchStop, sessionVars
  <2>2. CASE PunchEnd(p)
    <3> DEFINE S == {s \in Active(p) : ~sess[s].confirmed}
    <3>1. Remove(S) /\ S \in SUBSET Sid /\ \A s \in S : ~sess[s].confirmed
      BY <1>0, <2>2 DEF PunchEnd, Active
    <3> HIDE DEF S
    <3> QED  BY <3>1, <1>2
  <2> QED  BY <1>7, <2>1, <2>2
<1>8. ASSUME NEW s \in Sid, Deadline(s)
      PROVE  Goal
  BY <1>8, DueSeen DEF Deadline, Goal
<1>9. CASE Sweep
  <2>1. CASE SweepPending
    <3> DEFINE S == {s \in pending : sess[s].due}
    <3>1. Remove(S) /\ S \in SUBSET Sid /\ \A s \in S : ~sess[s].confirmed
      BY <1>0, <2>1 DEF SweepPending
    <3> HIDE DEF S
    <3> QED  BY <3>1, <1>2 DEF Goal
  <2>2. ASSUME NEW s \in Sid, SweepDrop(s)
        PROVE  Goal
    BY <2>2, <1>3 DEF SweepDrop
  <2>3. ASSUME \/ SweepWake \/ SweepPhase
               \/ \E s \in Sid : SweepKeepalive(s) \/ SweepSkip(s)
        PROVE  Goal
    BY <2>3, <1>1 DEF SweepWake, SweepPhase, SweepKeepalive, SweepSkip, sessionVars
  <2> QED  BY <1>9, <2>1, <2>2, <2>3 DEF Sweep, Goal
<1>10. CASE UNCHANGED vars
  BY <1>10, <1>1 DEF vars, Goal
<1> QED  BY <1>4, <1>5, <1>6, <1>7, <1>8, <1>9, <1>10 DEF Next, Goal

(* Every step of the transport is, for each of its peers, a step PeerRoutes*)
(* allows the sessions below PeerManager: one is confirmed and the one     *)
(* that was active retires, a single one ends, all end in restart, or      *)
(* nothing changes.  No handshake that fails, no candidate that is dropped *)
(* and no sweep ends or retires two sessions of a peer at once.            *)
THEOREM SessionsSeen == Spec => [][\A p \in Peer : SeenStep(p)]_vars
<1>1. ConstantsAssumption /\ IInv /\ [Next]_vars => [\A p \in Peer : SeenStep(p)]_vars
  BY StepSeen
<1> QED  BY <1>1, Invariant, ConstantsAssumption, PTL DEF Spec

----------------------------------------------------------------------------
(* The sizes of the tables.                                                *)

Attempted == {p \in Peer : attempts[p] # None}
Introduced == {p \in Peer : expected[p] # None}

LimitsInv == IsFiniteSet(byId) /\ LimitsKept

(* A table that loses entries, or gains one while there is room, stays     *)
(* within its limit.                                                       *)
LEMMA OneEntryFits ==
  ASSUME NEW old, IsFiniteSet(old), NEW max \in Nat, Cardinality(old) <= max,
         NEW new,
         \/ new \subseteq old
         \/ Cardinality(old) < max /\ \E x : new \subseteq old \cup {x}
  PROVE  IsFiniteSet(new) /\ Cardinality(new) <= max
<1>1. CASE new \subseteq old
  BY <1>1, FS_Subset, FS_CardinalityType
<1>2. CASE Cardinality(old) < max /\ \E x : new \subseteq old \cup {x}
  <2>1. PICK x : new \subseteq old \cup {x}
    BY <1>2
  <2>2. /\ IsFiniteSet(old \cup {x})
        /\ Cardinality(old \cup {x}) <= Cardinality(old) + 1
    <3>1. /\ IsFiniteSet(old \cup {x})
          /\ Cardinality(old \cup {x}) =
               IF x \in old THEN Cardinality(old) ELSE Cardinality(old) + 1
      BY FS_AddElement, Zenon
    <3>2. Cardinality(old) \in Nat
      BY FS_CardinalityType
    <3> QED BY <3>1, <3>2
  <2>3. /\ IsFiniteSet(new) /\ Cardinality(new) <= Cardinality(old \cup {x})
        /\ Cardinality(new) \in Nat /\ Cardinality(old \cup {x}) \in Nat
        /\ Cardinality(old) \in Nat
    BY <2>1, <2>2, FS_Subset, FS_CardinalityType
  <2> QED BY <1>2, <2>2, <2>3
<1> QED BY <1>1, <1>2

(* Only a HELLO files a session, after looking at the size of the table.   *)
LEMMA SessionsFit ==
  ASSUME ConstantsAssumption, IInv, LimitsInv, [Next]_vars
  PROVE  IsFiniteSet(byId') /\ Cardinality(byId') <= MaxSessions
<1>0. IsFiniteSet(byId) /\ MaxSessions \in Nat /\ Cardinality(byId) <= MaxSessions
  BY DEF LimitsInv, LimitsKept, ConstantsAssumption
<1>1. \/ byId' \subseteq byId
      \/ Cardinality(byId) < MaxSessions /\ \E s : byId' \subseteq byId \cup {s}
  <2>1. ASSUME NEW p \in Peer, NEW n \in Nonce, NEW r \in Route, HelloNew(p, n, r)
        PROVE  <1>1!1 \/ <1>1!2
    <3>1. CASE Cardinality(byId) >= MaxSessions
      BY <2>1, <3>1 DEF HelloNew
    <3>2. CASE ~(Cardinality(byId) >= MaxSessions)
      <4>1. \E s : byId' \subseteq byId \cup {s}
        BY <2>1, <3>2 DEF HelloNew, FileSession
      <4>2. Cardinality(byId) \in Nat
        BY <1>0, FS_CardinalityType
      <4> QED BY <1>0, <3>2, <4>1, <4>2
    <3> QED BY <3>1, <3>2
  <2>2. CASE Cards
    <3>1. ASSUME NEW p \in Peer, NEW r \in Direct, ExpectPeer(p, r)
          PROVE  byId' = byId
      BY <3>1 DEF ExpectPeer, sessionVars
    <3>2. ASSUME NEW p \in Peer,
                 ExpectDerpPeer(p) \/ ClearDirectCandidate(p) \/ ForgetCandidate(p)
          PROVE  byId' \subseteq byId
      BY <3>2 DEF ExpectDerpPeer, ClearDirectCandidate, ForgetCandidate, Remove,
                  sessionVars
    <3>3. ConfigureDerp => byId' = byId
      BY DEF ConfigureDerp, sessionVars
    <3> QED BY <2>2, <3>1, <3>2, <3>3 DEF Cards
  <2>3. ASSUME NEW s \in Sid, Ready(s) \/ Goodbye(s) \/ Traffic(s)
        PROVE  byId' \subseteq byId
    BY <2>3 DEF Ready, Goodbye, Traffic, Remove
  <2>4. ASSUME NEW p \in Peer, NEW n \in Nonce, NEW r \in Route, HelloSeen(p, n, r)
        PROVE  byId' \subseteq byId
    BY <2>4 DEF HelloSeen, sessionVars
  <2>5. CASE Sweep
    BY <2>5 DEF Sweep, SweepWake, SweepPhase, SweepPending, SweepDrop,
                SweepKeepalive, SweepSkip, Remove, sessionVars
  <2>6. ASSUME NEW p \in Peer, PunchStop(p) \/ PunchEnd(p)
        PROVE  byId' \subseteq byId
    BY <2>6 DEF PunchStop, PunchEnd, Remove, sessionVars
  <2>7. CASE Restart \/ UNCHANGED vars \/ \E s \in Sid : Deadline(s)
    BY <2>7 DEF Restart, vars, Deadline
  <2> QED BY <2>1, <2>2, <2>3, <2>4, <2>5, <2>6, <2>7 DEF Next, Datagrams
<1> QED BY <1>0, <1>1, OneEntryFits

(* An attempt starts where there is room, or in the place of another one.  *)
LEMMA AttemptsFit ==
  ASSUME ConstantsAssumption, IInv, LimitsInv, [Next]_vars
  PROVE  Cardinality(Attempted') <= MaxAttempts
<1>0. /\ attempts \in [Peer -> Attempt \cup {None}] /\ None \notin Attempt
      /\ IsFiniteSet(Peer) /\ MaxAttempts \in Nat
      /\ Cardinality(Attempted) <= MaxAttempts
  BY DEF LimitsInv, LimitsKept, ConstantsAssumption, IInv, CandidateTypes, Attempted
<1>1. IsFiniteSet(Attempted) /\ Cardinality(Attempted) \in Nat
  <2>1. Attempted \in SUBSET Peer
    BY DEF Attempted
  <2> QED BY <1>0, <2>1, FS_Subset, FS_CardinalityType
<1> DEFINE Fits == \/ Attempted' \subseteq Attempted
                   \/ /\ Cardinality(Attempted) < MaxAttempts
                      /\ \E q : Attempted' \subseteq Attempted \cup {q}
<1>2. Fits => Cardinality(Attempted') <= MaxAttempts
  BY <1>0, <1>1, OneEntryFits
<1>3. UNCHANGED attempts => Fits
  BY DEF Attempted
<1>4. ASSUME NEW p \in Peer, NEW x, attempts' = [attempts EXCEPT ![p] = x],
             HasRoom(p) \/ x = None
      PROVE  Fits
  <2>1. Attempted' \subseteq Attempted \cup {p}
    BY <1>0, <1>4 DEF Attempted
  <2>2. x = None => Attempted' \subseteq Attempted
    BY <1>0, <1>4 DEF Attempted
  <2>3. HasRoom(p) => p \in Attempted \/ Cardinality(Attempted) < MaxAttempts
    BY DEF HasRoom, Attempted
  <2> QED BY <1>4, <2>1, <2>2, <2>3
<1>5. ASSUME NEW p \in Peer, NEW r, StartAttempt(p, r) \/ UNCHANGED attempts
      PROVE  Fits
  BY <1>3, <1>4, <1>5 DEF StartAttempt, Started
<1>6. ASSUME Cards
      PROVE  Fits
  <2>1. ASSUME NEW p \in Peer, NEW r \in Direct, ExpectPeer(p, r)
        PROVE  Fits
    <3>1. \E q : StartAttempt(p, q) \/ UNCHANGED attempts
      BY <2>1 DEF ExpectPeer
    <3> QED BY <1>5, <3>1
  <2>2. ASSUME NEW p \in Peer, ExpectDerpPeer(p)
        PROVE  Fits
    BY <1>5, <2>2 DEF ExpectDerpPeer
  <2>3. ASSUME NEW p \in Peer, ClearDirectCandidate(p) \/ ForgetCandidate(p)
        PROVE  Fits
    BY <1>3, <1>4, <2>3 DEF ClearDirectCandidate, ForgetCandidate
  <2>4. ConfigureDerp => Fits
    BY <1>3 DEF ConfigureDerp
  <2> QED BY <1>6, <2>1, <2>2, <2>3, <2>4 DEF Cards
<1>7. ASSUME Datagrams
      PROVE  Fits
  <2>1. ASSUME NEW p \in Peer, NEW n \in Nonce, NEW r \in Route, HelloNew(p, n, r)
        PROVE  Fits
    <3>1. HasRoom(p) /\ (attempts' = attempts \/ attempts' = Started(p, r))
      BY <2>1 DEF HelloNew
    <3> QED BY <1>3, <1>4, <3>1 DEF Started
  <2>2. ASSUME NEW p \in Peer, NEW n \in Nonce, NEW r \in Route, HelloSeen(p, n, r)
        PROVE  Fits
    BY <1>3, <2>2 DEF HelloSeen
  <2>3. ASSUME NEW s \in Sid, Ready(s)
        PROVE  Fits
    <3>1. attempts' = [attempts EXCEPT ![sess[s].peer] = None]
      BY <2>3 DEF Ready
    <3> QED BY <1>0, <3>1 DEF Attempted
  <2>4. ASSUME NEW s \in Sid, Goodbye(s) \/ Traffic(s)
        PROVE  Fits
    BY <1>3, <2>4 DEF Goodbye, Traffic
  <2> QED BY <1>7, <2>1, <2>2, <2>3, <2>4 DEF Datagrams
<1>8. ASSUME NEW p \in Peer, PunchStop(p)
      PROVE  Fits
  <2>1. /\ attempts[p] # None
        /\ attempts' = [attempts EXCEPT ![p] = [attempts[p] EXCEPT !.live = FALSE]]
    BY <1>8 DEF PunchStop
  <2>2. HasRoom(p)
    BY <2>1 DEF HasRoom
  <2> QED BY <1>4, <2>1, <2>2
<1>9. ASSUME NEW p \in Peer, PunchEnd(p)
      PROVE  Fits
  <2>1. /\ HasRoom(p)
        /\ \E x : attempts' = [attempts EXCEPT ![p] = x]
    BY <1>9 DEF PunchEnd, HasRoom
  <2> QED BY <1>4, <2>1
<1>10. ASSUME Sweep
      PROVE  Fits
  <2>1. ASSUME NEW s \in Sid, SweepKeepalive(s)
        PROVE  Fits
    <3>1. CASE UNCHANGED attempts
      BY <1>3, <3>1
    <3>2. CASE ~UNCHANGED attempts
      <4>1. /\ HasRoom(sess[s].peer)
            /\ attempts' = Started(sess[s].peer, candidate[sess[s].peer])
        BY <2>1, <3>2 DEF SweepKeepalive
      <4>2. sess[s].peer \in Peer
        BY <2>1 DEF SweepKeepalive, IInv, Tables, SessionTypes, TablesAgree,
                    ObjectsKnown, Session
      <4> QED BY <1>4, <4>1, <4>2 DEF Started
    <3> QED BY <3>1, <3>2
  <2>2. CASE SweepWake \/ SweepPhase \/ SweepPending
    BY <1>3, <2>2 DEF SweepWake, SweepPhase, SweepPending
  <2>3. ASSUME NEW s \in Sid, SweepDrop(s) \/ SweepSkip(s)
        PROVE  Fits
    BY <1>3, <2>3 DEF SweepDrop, SweepSkip
  <2> QED BY <1>10, <2>1, <2>2, <2>3 DEF Sweep
<1>11. CASE Restart
  <2> DEFINE known == {p \in Peer : candidate[p] # None}
             relays == {p \in derp \ forgotten :
                          derpUp /\ (ForceRelay \/ p \notin known)}
             started(D, R) ==
               [p \in Peer |->
                  IF p \in R THEN [route |-> Relay, live |-> TRUE]
                  ELSE IF p \in D THEN [route |-> candidate[p], live |-> TRUE]
                  ELSE None]
  <2>1. PICK E \in Fitting(known, MaxExpected) :
          \E D \in Fitting(IF ForceRelay THEN {} ELSE E, MaxAttempts) :
          \E R \in Fitting(relays, MaxAttempts - Cardinality(D)) :
             /\ expected' = [p \in Peer |->
                  IF p \in E THEN candidate[p] ELSE None]
             /\ attempts' = started(D, R)
    BY <1>11 DEF Restart
  <2>2. PICK D \in Fitting(IF ForceRelay THEN {} ELSE E, MaxAttempts) :
          \E R \in Fitting(relays, MaxAttempts - Cardinality(D)) :
            attempts' = started(D, R)
    BY <2>1
  <2>3. PICK R \in Fitting(relays, MaxAttempts - Cardinality(D)) :
          attempts' = started(D, R)
    BY <2>2
  <2>4. /\ D \in SUBSET Peer /\ R \in SUBSET Peer
        /\ Cardinality(R) <= MaxAttempts - Cardinality(D)
    BY DEF Fitting, IInv, CandidateTypes
  <2>5. /\ IsFiniteSet(D) /\ Cardinality(D) \in Nat
        /\ IsFiniteSet(R) /\ Cardinality(R) \in Nat
    BY <1>0, <2>4, FS_Subset, FS_CardinalityType
  <2>6. /\ Cardinality(D \cup R) = Cardinality(D) + Cardinality(R)
                                     - Cardinality(D \cap R)
        /\ IsFiniteSet(D \cup R) /\ IsFiniteSet(D \cap R)
    <3>1. D \cap R \in SUBSET D
      OBVIOUS
    <3> QED BY <2>5, <3>1, FS_Union, FS_Subset
  <2>7. Cardinality(D \cup R) <= MaxAttempts
    <3>1. Cardinality(D \cap R) \in Nat /\ Cardinality(D \cup R) \in Nat
      BY <2>6, FS_CardinalityType
    <3> QED BY <1>0, <2>4, <2>5, <2>6, <3>1
  <2>8. Attempted' \in SUBSET (D \cup R)
    BY <2>3 DEF Attempted
  <2>9. Cardinality(Attempted') <= Cardinality(D \cup R)
        /\ IsFiniteSet(Attempted')
    BY <2>6, <2>8, FS_Subset
  <2>10. Cardinality(Attempted') \in Nat /\ Cardinality(D \cup R) \in Nat
    BY <2>6, <2>9, FS_CardinalityType
  <2> QED BY <1>0, <2>7, <2>9, <2>10
<1>12. ASSUME UNCHANGED vars \/ \E s \in Sid : Deadline(s)
      PROVE  Fits
  BY <1>3, <1>12 DEF vars, Deadline
<1> QED BY <1>2, <1>6, <1>7, <1>8, <1>9, <1>10, <1>11, <1>12 DEF Next

(* An introduction is filed where there is room, or in the place of the    *)
(* one the peer has.                                                       *)
LEMMA IntroductionsFit ==
  ASSUME ConstantsAssumption, IInv, LimitsInv, [Next]_vars
  PROVE  Cardinality(Introduced') <= MaxExpected
<1>0. /\ expected \in [Peer -> Direct \cup {None}]
      /\ IsFiniteSet(Peer) /\ MaxExpected \in Nat
      /\ Cardinality(Introduced) <= MaxExpected
  BY DEF LimitsInv, LimitsKept, ConstantsAssumption, IInv, CandidateTypes, Introduced
<1>1. IsFiniteSet(Introduced)
  <2>1. Introduced \in SUBSET Peer
    BY DEF Introduced
  <2> QED BY <1>0, <2>1, FS_Subset
<1> DEFINE Fits == \/ Introduced' \subseteq Introduced
                   \/ /\ Cardinality(Introduced) < MaxExpected
                      /\ \E q : Introduced' \subseteq Introduced \cup {q}
<1>2. Fits => Cardinality(Introduced') <= MaxExpected
  BY <1>0, <1>1, OneEntryFits
<1>3. UNCHANGED expected => Fits
  BY DEF Introduced
<1>4. ASSUME Cards
      PROVE  Fits
  <2>1. ASSUME NEW p \in Peer, NEW r \in Direct, ExpectPeer(p, r)
        PROVE  Fits
    <3>1. /\ p \in Introduced \/ Cardinality(Introduced) < MaxExpected
          /\ \E x : expected' = [expected EXCEPT ![p] = x]
      BY <2>1 DEF ExpectPeer, Introduced
    <3>2. Introduced' \subseteq Introduced \cup {p}
      BY <1>0, <3>1 DEF Introduced
    <3> QED BY <3>1, <3>2
  <2>2. ASSUME NEW p \in Peer,
               ExpectDerpPeer(p) \/ ClearDirectCandidate(p) \/ ForgetCandidate(p)
        PROVE  Fits
    BY <1>0, <2>2 DEF ExpectDerpPeer, ClearDirectCandidate, ForgetCandidate,
                      Introduced
  <2>3. ConfigureDerp => Fits
    BY <1>3 DEF ConfigureDerp
  <2> QED BY <1>4, <2>1, <2>2, <2>3 DEF Cards
<1>5. ASSUME Datagrams
      PROVE  Fits
  <2>1. ASSUME NEW p \in Peer, NEW r \in Route, HelloArrives(p, r)
        PROVE  Fits
    BY <1>0, <2>1 DEF HelloArrives, Introduced
  <2>2. ASSUME NEW s \in Sid, Ready(s) \/ Goodbye(s) \/ Traffic(s)
        PROVE  Fits
    BY <1>3, <2>2 DEF Ready, Goodbye, Traffic, candidateVars
  <2> QED BY <1>5, <2>1, <2>2 DEF Datagrams, HelloNew, HelloSeen
<1>6. ASSUME Sweep
      PROVE  Fits
  <2>1. CASE SweepPending
    BY <1>0, <2>1 DEF SweepPending, Introduced
  <2>2. CASE SweepWake \/ SweepPhase
    BY <1>3, <2>2 DEF SweepWake, SweepPhase, candidateVars
  <2>3. ASSUME NEW s \in Sid, SweepDrop(s) \/ SweepKeepalive(s) \/ SweepSkip(s)
        PROVE  Fits
    BY <1>3, <2>3 DEF SweepDrop, SweepKeepalive, SweepSkip, candidateVars
  <2> QED BY <1>6, <2>1, <2>2, <2>3 DEF Sweep
<1>7. ASSUME Restart
      PROVE  Cardinality(Introduced') <= MaxExpected
  <2> DEFINE known == {p \in Peer : candidate[p] # None}
  <2>1. PICK E \in Fitting(known, MaxExpected) :
          expected' = [p \in Peer |-> IF p \in E THEN candidate[p] ELSE None]
    BY <1>7 DEF Restart
  <2>2. /\ E \in SUBSET Peer /\ Cardinality(E) <= MaxExpected
        /\ Introduced' \in SUBSET E
    BY <2>1 DEF Fitting, Introduced
  <2>3. IsFiniteSet(E) /\ Cardinality(E) \in Nat
    BY <1>0, <2>2, FS_Subset, FS_CardinalityType
  <2>4. /\ IsFiniteSet(Introduced') /\ Cardinality(Introduced') \in Nat
        /\ Cardinality(Introduced') <= Cardinality(E)
    BY <2>2, <2>3, FS_Subset, FS_CardinalityType
  <2> QED BY <1>0, <2>2, <2>3, <2>4
<1>8. ASSUME NEW p \in Peer, PunchStop(p) \/ PunchEnd(p)
      PROVE  Fits
  BY <1>3, <1>8 DEF PunchStop, PunchEnd, candidateVars
<1>9. ASSUME UNCHANGED vars \/ \E s \in Sid : Deadline(s)
      PROVE  Fits
  BY <1>3, <1>9 DEF vars, Deadline, candidateVars
<1> QED BY <1>2, <1>4, <1>5, <1>6, <1>7, <1>8, <1>9 DEF Next

(* Sessions, attempts and introductions stay within the limits of their    *)
(* tables, whatever HELLOs arrive and whatever restart puts back at once.  *)
THEOREM WithinLimits == Spec => []LimitsKept
<1>1. Init => LimitsInv
  <2> SUFFICES ASSUME Init PROVE LimitsInv
    OBVIOUS
  <2>1. byId = {} /\ Attempted = {} /\ Introduced = {}
    BY DEF Init, Attempted, Introduced
  <2> QED BY <2>1, FS_EmptySet, ConstantsAssumption
          DEF LimitsInv, LimitsKept, ConstantsAssumption, Attempted, Introduced
<1>2. IInv /\ LimitsInv /\ [Next]_vars => LimitsInv'
  BY ConstantsAssumption, SessionsFit, AttemptsFit, IntroductionsFit
     DEF LimitsInv, LimitsKept, Attempted, Introduced
<1>3. LimitsInv => LimitsKept
  BY DEF LimitsInv
<1> QED BY <1>1, <1>2, <1>3, Invariant, PTL DEF Spec

----------------------------------------------------------------------------
(* The transfer of packets over a session.                                 *)

USE TransferAssumption

(* A packet that was not sent leaves no trace.                             *)
Unsent(m) ==
  /\ air[m] = 0 /\ ackAir[m] = 0 /\ parts[m] = {} /\ m \notin seen
  /\ handed[m] = 0 /\ event[m] = FALSE

NothingUnsent ==
  \A m \in Msg : call[m] \in {"idle", "refused"} => Unsent(m)

(* The rounds of a call fit into the life of a remembered id.              *)
RoundsFit == \A m \in Msg : MoreRounds(m) => RoundsTime(m) <= SeenLife

(* An id is in seen, or acknowledged, only if its packet was handed over,  *)
(* and that once.                                                          *)
HandedOnce ==
  \A m \in Msg :
    /\ handed[m] \in {0, 1}
    /\ m \in seen \/ ackAir[m] > 0 \/ event[m] => handed[m] = 1
    /\ call[m] = "returned" => handed[m] = 1

TransferInv ==
  TransferTypes /\ NothingUnsent /\ RoundsFit /\ SeenOutlivesFragments /\ HandedOnce

----------------------------------------------------------------------------
(* Multiplication, which the steps below need one factor at a time.        *)

(* One round less takes one interval less.                                 *)
LEMMA OneRoundLess ==
  ASSUME NEW n \in Int
  PROVE  n * RetryInterval = (n - 1) * RetryInterval + RetryInterval
  BY SMT

(* Rounds take no negative time.                                           *)
LEMMA RoundsTakeTime ==
  ASSUME NEW n \in Nat
  PROVE  n * RetryInterval \in Nat
  BY SMT

(* The time of the rounds to come is at least the life of a datagram.      *)
LEMMA RoundsTimeBound ==
  ASSUME TransferTypes, NEW m \in Msg, MoreRounds(m)
  PROVE  RoundsTime(m) \in Nat /\ RoundsTime(m) >= Lifetime
  <1>1. left[m] - 1 \in Nat /\ timer[m] \in Nat
    BY DEF TransferTypes, MoreRounds
  <1>2. (left[m] - 1) * RetryInterval \in Nat
    BY <1>1, RoundsTakeTime
  <1> QED
    BY <1>1, <1>2 DEF RoundsTime

----------------------------------------------------------------------------
(* The invariant holds at first and after every step.                      *)

LEMMA TransferInitInv == TransferInit => TransferInv
  BY DEF TransferInit, TransferInv, TransferTypes, NothingUnsent, RoundsFit,
         SeenOutlivesFragments,
         HandedOnce, Unsent, MoreRounds, RoundsTime, Zero, Calls, Fragments

(* A round that starts leaves as much time as SeenLife allows.             *)
LEMMA SendInv ==
  ASSUME TransferInv, NEW m \in Msg, Send(m)
  PROVE  TransferInv'
  <1> USE DEF Send, Transmit, callVars, routeVars, tableVars
  <1>1. TransferTypes'
    BY DEF TransferInv, TransferTypes, Calls, Fragments
  <1>2. Unsent(m)
    BY DEF TransferInv, NothingUnsent
  <1>3. NothingUnsent'
    BY DEF TransferInv, TransferTypes, NothingUnsent, Unsent
  <1>4. RoundsFit'
    <2>1. ASSUME MoreRounds(m)' PROVE RoundsTime(m)' <= SeenLife
      <3>1. /\ left'[m] = Rounds - 1 /\ timer'[m] = RetryInterval
        BY DEF TransferInv, TransferTypes
      <3>2. RoundsTime(m)' = RetryInterval + (Rounds - 2) * RetryInterval + Lifetime
        BY <3>1 DEF RoundsTime
      <3>3. (Rounds - 1) * RetryInterval = (Rounds - 2) * RetryInterval + RetryInterval
        BY OneRoundLess
      <3> QED
        BY <3>2, <3>3, LifetimeAssumption
    <2>2. ASSUME NEW k \in Msg, k # m
          PROVE  MoreRounds(k)' <=> MoreRounds(k)
      BY <2>2 DEF TransferInv, TransferTypes, MoreRounds
    <2>3. ASSUME NEW k \in Msg, k # m
          PROVE  RoundsTime(k)' = RoundsTime(k)
      BY <2>3 DEF TransferInv, TransferTypes, RoundsTime
    <2> QED
      BY <2>1, <2>2, <2>3 DEF TransferInv, RoundsFit
  <1>5. SeenOutlivesFragments'
    <2>1. ASSUME NEW k \in Msg, k # m
          PROVE  /\ MoreRounds(k)' <=> MoreRounds(k)
                 /\ RoundsTime(k)' = RoundsTime(k)
                 /\ air'[k] = air[k]
      BY <2>1 DEF TransferInv, TransferTypes, MoreRounds, RoundsTime
    <2> QED
      BY <1>2, <2>1 DEF TransferInv, TransferTypes, SeenOutlivesFragments, Unsent
  <1>6. HandedOnce'
    BY DEF TransferInv, HandedOnce
  <1> QED
    BY <1>1, <1>3, <1>4, <1>5, <1>6 DEF TransferInv

(* A retransmission takes its time from the rounds that were left.         *)
LEMMA RetryInv ==
  ASSUME TransferInv, NEW m \in Msg, Retry(m)
  PROVE  TransferInv'
  <1> USE DEF Retry, TimedOut, Transmit, callVars, routeVars, tableVars
  <1>1. TransferTypes'
    BY DEF TransferInv, TransferTypes, Fragments
  <1>2. NothingUnsent'
    BY DEF TransferInv, TransferTypes, NothingUnsent, Unsent
  <1>3. MoreRounds(m) /\ RoundsTime(m) >= Lifetime
    BY RoundsTimeBound DEF TransferInv, MoreRounds
  <1>4. ASSUME MoreRounds(m)' PROVE RoundsTime(m)' = RoundsTime(m)
    <2>1. /\ left'[m] = left[m] - 1 /\ timer'[m] = RetryInterval
          /\ timer[m] = 0 /\ left[m] \in Nat
      BY DEF TransferInv, TransferTypes
    <2>2. RoundsTime(m)' = RetryInterval + (left[m] - 2) * RetryInterval + Lifetime
      BY <2>1 DEF RoundsTime
    <2>3. (left[m] - 1) * RetryInterval = (left[m] - 2) * RetryInterval + RetryInterval
      BY <2>1, OneRoundLess
    <2> QED
      BY <2>1, <2>2, <2>3 DEF RoundsTime
  <1>5. ASSUME NEW k \in Msg, k # m
        PROVE  /\ MoreRounds(k)' <=> MoreRounds(k)
               /\ RoundsTime(k)' = RoundsTime(k)
               /\ air'[k] = air[k]
    BY <1>5 DEF TransferInv, TransferTypes, MoreRounds, RoundsTime
  <1>6. RoundsFit'
    BY <1>3, <1>4, <1>5 DEF TransferInv, RoundsFit
  <1>7. SeenOutlivesFragments'
    <2>1. m \in seen \/ handed[m] = 0
      BY <1>3 DEF TransferInv, SeenOutlivesFragments, HandedOnce
    <2>2. air'[m] = Lifetime
      BY DEF TransferInv, TransferTypes
    <2>3. m \in seen => RoundsTime(m) <= seenLeft[m] /\ Lifetime <= seenLeft[m]
      BY <1>3, RoundsTimeBound DEF TransferInv, TransferTypes, SeenOutlivesFragments
    <2>4. ASSUME NEW k \in seen'
          PROVE  /\ air'[k] <= seenLeft'[k]
                 /\ MoreRounds(k)' => RoundsTime(k)' <= seenLeft'[k]
      BY <1>4, <1>5, <2>2, <2>3, <2>4
         DEF TransferInv, TransferTypes, SeenOutlivesFragments
    <2>5. ASSUME NEW k \in Msg \ seen', handed'[k] > 0
          PROVE  air'[k] = 0 /\ ~MoreRounds(k)'
      <3>1. k # m
        BY <2>1, <2>5
      <3> QED
        BY <1>5, <2>5, <3>1 DEF TransferInv, SeenOutlivesFragments
    <2> QED
      BY <2>4, <2>5 DEF SeenOutlivesFragments
  <1>8. HandedOnce'
    BY DEF TransferInv, HandedOnce
  <1> QED
    BY <1>1, <1>2, <1>6, <1>7, <1>8 DEF TransferInv

(* A call that ends sends no more rounds.                                  *)
LEMMA EndsInv ==
  ASSUME TransferInv, NEW m \in Msg, NEW how \in Calls,
         \/ call[m] = "idle" /\ how = "refused"
         \/ call[m] = "sending" /\ how = "failed"
         \/ call[m] = "sending" /\ how = "returned" /\ event[m],
         Ends(m, how)
  PROVE  TransferInv'
  <1> USE DEF Ends, routeVars, tableVars
  <1>1. TransferTypes'
    BY DEF TransferInv, TransferTypes, Fragments
  <1>2. NothingUnsent'
    BY DEF TransferInv, TransferTypes, NothingUnsent, Unsent
  <1>3. ASSUME NEW k \in Msg
        PROVE  /\ MoreRounds(k)' => MoreRounds(k)
               /\ RoundsTime(k)' = RoundsTime(k)
    BY DEF TransferInv, TransferTypes, MoreRounds, RoundsTime
  <1>4. RoundsFit'
    BY <1>3 DEF TransferInv, RoundsFit
  <1>5. SeenOutlivesFragments'
    BY <1>3 DEF TransferInv, SeenOutlivesFragments, TransferTypes
  <1>6. HandedOnce'
    BY DEF TransferInv, HandedOnce
  <1> QED
    BY <1>1, <1>2, <1>4, <1>5, <1>6 DEF TransferInv

(* Only what was handed over is acknowledged.                              *)
LEMMA OnAckInv ==
  ASSUME TransferInv, NEW m \in Msg, OnAck(m)
  PROVE  TransferInv'
  <1> USE DEF OnAck, routeVars, tableVars
  <1>1. TransferTypes'
    BY DEF TransferInv, TransferTypes, Fragments
  <1>2. NothingUnsent'
    BY DEF TransferInv, TransferTypes, NothingUnsent, Unsent
  <1>3. RoundsFit'
    BY DEF TransferInv, RoundsFit, MoreRounds, RoundsTime
  <1>4. SeenOutlivesFragments'
    BY DEF TransferInv, SeenOutlivesFragments, MoreRounds, RoundsTime
  <1>5. HandedOnce'
    BY DEF TransferInv, TransferTypes, HandedOnce
  <1> QED
    BY <1>1, <1>2, <1>3, <1>4, <1>5 DEF TransferInv

LEMMA DuplicateInv ==
  ASSUME TransferInv, NEW m \in Msg, Duplicate(m)
  PROVE  TransferInv'
  <1> USE DEF Duplicate, Arrives, SendAck, callVars, routeVars, tableVars
  <1>1. TransferTypes'
    BY DEF TransferInv, TransferTypes, Fragments
  <1>2. NothingUnsent'
    BY DEF TransferInv, TransferTypes, NothingUnsent, Unsent
  <1>3. RoundsFit'
    BY DEF TransferInv, RoundsFit, MoreRounds, RoundsTime
  <1>4. SeenOutlivesFragments'
    BY DEF TransferInv, SeenOutlivesFragments, MoreRounds, RoundsTime
  <1>5. HandedOnce'
    BY DEF TransferInv, TransferTypes, HandedOnce
  <1> QED
    BY <1>1, <1>2, <1>3, <1>4, <1>5 DEF TransferInv

LEMMA FragmentInv ==
  ASSUME TransferInv, NEW m \in Msg, NEW i \in Fragments(m), Fragment(m, i)
  PROVE  TransferInv'
  <1> USE DEF Fragment, Accepted, Arrives, callVars, routeVars
  <1>1. TransferTypes'
    <2>1. parts[m] \cup {i} \subseteq Fragments(m) /\ Fragments(m) \subseteq Nat
      BY DEF TransferInv, TransferTypes, Fragments
    <2>2. parts' \in [Msg -> SUBSET Nat] /\ \A k \in Msg : parts'[k] \subseteq Fragments(k)
      BY <2>1 DEF TransferInv, TransferTypes
    <2>3. partsLeft' \in [Msg -> 0 .. ReassemblyLife]
      BY DEF TransferInv, TransferTypes
    <2> QED
      BY <2>2, <2>3 DEF TransferInv, TransferTypes
  <1>2. NothingUnsent'
    BY DEF TransferInv, TransferTypes, NothingUnsent, Unsent
  <1>3. RoundsFit'
    BY DEF TransferInv, RoundsFit, MoreRounds, RoundsTime
  <1>4. SeenOutlivesFragments'
    BY DEF TransferInv, SeenOutlivesFragments, MoreRounds, RoundsTime
  <1>5. HandedOnce'
    BY DEF TransferInv, TransferTypes, HandedOnce
  <1> QED
    BY <1>1, <1>2, <1>3, <1>4, <1>5 DEF TransferInv

(* A packet that can still arrive and is not remembered is new.            *)
LEMMA AcceptedIsNew ==
  ASSUME TransferInv, NEW m \in Msg, Accepted(m)
  PROVE  handed[m] = 0
  BY DEF TransferInv, TransferTypes, HandedOnce, SeenOutlivesFragments, Accepted,
         Arrives

LEMMA CompleteInv ==
  ASSUME TransferInv, NEW m \in Msg, NEW i \in Fragments(m), Complete(m, i)
  PROVE  TransferInv'
  <1> USE DEF Complete, SendAck, callVars, routeVars
  <1>1. handed[m] = 0 /\ air[m] > 0
    BY AcceptedIsNew DEF Accepted, Arrives
  <1>2. TransferTypes'
    BY DEF TransferInv, TransferTypes
  <1>3. call[m] \notin {"idle", "refused"}
    BY <1>1 DEF TransferInv, TransferTypes, NothingUnsent, Unsent
  <1>4. NothingUnsent'
    BY <1>3 DEF TransferInv, TransferTypes, NothingUnsent, Unsent
  <1>5. ASSUME NEW k \in Msg
        PROVE  /\ MoreRounds(k)' <=> MoreRounds(k)
               /\ RoundsTime(k)' = RoundsTime(k)
    BY DEF MoreRounds, RoundsTime
  <1>6. RoundsFit'
    BY <1>5 DEF TransferInv, RoundsFit
  <1>7. SeenOutlivesFragments'
    <2>1. air[m] <= SeenLife
      <3>1. air[m] <= Lifetime /\ (Rounds - 1) * RetryInterval >= 0
        BY RoundsTakeTime DEF TransferInv, TransferTypes
      <3> QED
        BY <3>1, LifetimeAssumption DEF TransferInv, TransferTypes
    <2>2. MoreRounds(m) => RoundsTime(m) <= SeenLife
      BY DEF TransferInv, RoundsFit
    <2> QED
      BY <1>5, <2>1, <2>2 DEF TransferInv, TransferTypes, SeenOutlivesFragments
  <1>8. HandedOnce'
    BY <1>1 DEF TransferInv, TransferTypes, HandedOnce
  <1> QED
    BY <1>2, <1>4, <1>6, <1>7, <1>8 DEF TransferInv

(* An id is forgotten only when no fragment of its packet can arrive.      *)
LEMMA SweepInv ==
  ASSUME TransferInv, CleanUp
  PROVE  TransferInv'
  <1> USE DEF CleanUp, callVars, routeVars
  <1>1. TransferTypes'
    BY DEF TransferInv, TransferTypes
  <1>2. NothingUnsent'
    BY DEF TransferInv, TransferTypes, NothingUnsent, Unsent
  <1>3. ASSUME NEW k \in Msg
        PROVE  /\ MoreRounds(k)' <=> MoreRounds(k)
               /\ RoundsTime(k)' = RoundsTime(k)
    BY DEF MoreRounds, RoundsTime
  <1>4. RoundsFit'
    BY <1>3 DEF TransferInv, RoundsFit
  <1>5. SeenOutlivesFragments'
    <2>1. ASSUME NEW k \in seen \ seen'
          PROVE  air[k] = 0 /\ ~MoreRounds(k)
      <3>1. seenLeft[k] = 0 /\ k \in Msg
        BY <2>1 DEF TransferInv, TransferTypes
      <3> QED
        BY <3>1, RoundsTimeBound
           DEF TransferInv, TransferTypes, SeenOutlivesFragments
    <2> QED
      BY <1>3, <2>1 DEF TransferInv, TransferTypes, SeenOutlivesFragments
  <1>6. HandedOnce'
    BY DEF TransferInv, HandedOnce
  <1> QED
    BY <1>1, <1>2, <1>4, <1>5, <1>6 DEF TransferInv

LEMMA SessionStepInv ==
  ASSUME TransferInv, SessionStep
  PROVE  TransferInv'
  <1>1. /\ UNCHANGED <<callVars, air, ackAir, tableVars, handed>>
        /\ sender' \in {"active", "retiring", "gone"} /\ routed' \in BOOLEAN
        /\ receiver' \in {"unconfirmed", "confirmed", "gone"}
    BY DEF TransferInv, TransferTypes, SessionStep, Confirm, Replace, RelayToggles,
           SenderRemoves, ReceiverRemoves, Environment
  <1> QED
    BY <1>1 DEF TransferInv, TransferTypes, NothingUnsent, Unsent, RoundsFit,
                SeenOutlivesFragments, HandedOnce, MoreRounds, RoundsTime,
                callVars, tableVars, Fragments

(* Time that passes takes as much from what is under way as from what is   *)
(* remembered.                                                             *)
LEMMA TickInv ==
  ASSUME TransferInv, Tick
  PROVE  TransferInv'
  <1> USE DEF Tick, Down, routeVars
  <1>1. TransferTypes'
    BY DEF TransferInv, TransferTypes
  <1>2. NothingUnsent'
    BY DEF TransferInv, TransferTypes, NothingUnsent, Unsent
  <1>3. ASSUME NEW k \in Msg
        PROVE  MoreRounds(k)' <=> MoreRounds(k)
    BY DEF MoreRounds
  <1>4. ASSUME NEW k \in Msg, MoreRounds(k)
        PROVE  RoundsTime(k)' = RoundsTime(k) - 1
    <2>1. timer'[k] = timer[k] - 1 /\ left'[k] = left[k]
      BY <1>4 DEF TransferInv, TransferTypes, MoreRounds, Waiting
    <2>2. timer[k] \in Nat /\ left[k] - 1 \in Nat
      BY <1>4 DEF TransferInv, TransferTypes, MoreRounds
    <2>3. (left[k] - 1) * RetryInterval \in Nat
      BY <2>2, RoundsTakeTime
    <2> QED
      BY <2>1, <2>2, <2>3 DEF RoundsTime
  <1>5. ASSUME NEW k \in Msg, MoreRounds(k)
        PROVE  RoundsTime(k) \in Nat /\ RoundsTime(k) >= 1
    BY <1>5, RoundsTimeBound DEF TransferInv
  <1>6. RoundsFit'
    BY <1>3, <1>4, <1>5 DEF TransferInv, RoundsFit
  <1>7. SeenOutlivesFragments'
    <2>1. ASSUME NEW k \in seen
          PROVE  /\ air'[k] <= seenLeft'[k]
                 /\ MoreRounds(k)' => RoundsTime(k)' <= seenLeft'[k]
      <3>1. k \in Msg /\ air[k] \in Nat /\ seenLeft[k] \in Nat
        BY DEF TransferInv, TransferTypes
      <3>2. air'[k] <= seenLeft'[k]
        BY <3>1 DEF TransferInv, SeenOutlivesFragments
      <3>3. ASSUME MoreRounds(k) PROVE RoundsTime(k)' <= seenLeft'[k]
        BY <1>4, <1>5, <3>1, <3>3 DEF TransferInv, SeenOutlivesFragments
      <3> QED
        BY <1>3, <3>1, <3>2, <3>3
    <2>2. ASSUME NEW k \in Msg \ seen, handed[k] > 0
          PROVE  air'[k] = 0 /\ ~MoreRounds(k)'
      BY <1>3, <2>2 DEF TransferInv, SeenOutlivesFragments
    <2> QED
      BY <2>1, <2>2 DEF SeenOutlivesFragments
  <1>8. HandedOnce'
    BY DEF TransferInv, TransferTypes, HandedOnce
  <1> QED
    BY <1>1, <1>2, <1>6, <1>7, <1>8 DEF TransferInv

LEMMA TransferNextInv == TransferInv /\ [TransferNext]_transferVars => TransferInv'
  <1> SUFFICES ASSUME TransferInv, [TransferNext]_transferVars PROVE TransferInv'
    OBVIOUS
  <1>1. ASSUME NEW m \in Msg, SenderStep(m) PROVE TransferInv'
    <2>1. CASE Send(m)
      BY <2>1, SendInv
    <2>2. CASE Retry(m)
      BY <2>2, RetryInv
    <2>3. CASE Refuse(m)
      BY <2>3, EndsInv DEF Refuse, Calls
    <2>4. CASE GiveUp(m)
      BY <2>4, EndsInv DEF GiveUp, TimedOut, Calls
    <2>5. CASE Return(m)
      BY <2>5, EndsInv DEF Return, Calls
    <2>6. CASE Cancel(m)
      BY <2>6, EndsInv DEF Cancel, Calls
    <2>7. CASE OnAck(m)
      BY <2>7, OnAckInv
    <2> QED
      BY <1>1, <2>1, <2>2, <2>3, <2>4, <2>5, <2>6, <2>7 DEF SenderStep
  <1>2. ASSUME NEW m \in Msg, ReceiverStep(m) PROVE TransferInv'
    BY <1>2, DuplicateInv, FragmentInv, CompleteInv DEF ReceiverStep
  <1>3. CASE CleanUp
    BY <1>3, SweepInv
  <1>4. CASE SessionStep
    BY <1>4, SessionStepInv
  <1>5. CASE Tick
    BY <1>5, TickInv
  <1>6. CASE UNCHANGED transferVars
    BY <1>6 DEF TransferInv, TransferTypes, NothingUnsent, Unsent, RoundsFit,
                SeenOutlivesFragments, HandedOnce, MoreRounds, RoundsTime,
                Fragments, transferVars, callVars, routeVars, tableVars
  <1> QED
    BY <1>1, <1>2, <1>3, <1>4, <1>5, <1>6 DEF TransferNext

LEMMA TransferAlways == TransferSpec => []TransferInv
  <1> QED
    BY TransferInitInv, TransferNextInv, PTL DEF TransferSpec

----------------------------------------------------------------------------
(* The theorems.                                                           *)

(* Type correctness: the timers stay within the constants.                 *)
THEOREM TransferTyped == TransferSpec => []TransferTypes
  BY TransferAlways, PTL DEF TransferInv

(* What session.seen remembers outlives every fragment that may still      *)
(* arrive, and what it forgot arrives no more.                             *)
THEOREM Remembered == TransferSpec => []SeenOutlivesFragments
  BY TransferAlways, PTL DEF TransferInv

(* A step of the session is a step of the channel, or changes nothing the  *)
(* channel knows.                                                          *)
LEMMA TransferRefines ==
  ASSUME TransferInv, [TransferNext]_transferVars
  PROVE  [Channel!Next]_<<call, handed>>
  <1> USE DEF Channel!Next, Channel!Goes
  <1>1. ASSUME NEW m \in Msg, SenderStep(m)
        PROVE  [Channel!Next]_<<call, handed>>
    <2>1. CASE Send(m)
      BY <2>1 DEF Send, Channel!Start
    <2>2. CASE Retry(m)
      BY <2>2 DEF Retry
    <2>3. CASE Refuse(m)
      BY <2>3 DEF Refuse, Ends, Channel!Refuse
    <2>4. CASE GiveUp(m)
      BY <2>4 DEF GiveUp, TimedOut, Ends, Channel!Fail
    <2>5. CASE Return(m)
      <3>1. handed[m] = 1
        BY <2>5 DEF Return, TransferInv, HandedOnce
      <3> QED
        BY <2>5, <3>1 DEF Return, Ends, Channel!Return
    <2>6. CASE Cancel(m)
      BY <2>6 DEF Cancel, Ends, Channel!Fail
    <2>7. CASE OnAck(m)
      BY <2>7 DEF OnAck
    <2> QED
      BY <1>1, <2>1, <2>2, <2>3, <2>4, <2>5, <2>6, <2>7 DEF SenderStep
  <1>2. ASSUME NEW m \in Msg, ReceiverStep(m)
        PROVE  [Channel!Next]_<<call, handed>>
    <2>1. CASE Duplicate(m)
      BY <2>1 DEF Duplicate, callVars
    <2>2. ASSUME NEW i \in Fragments(m), Fragment(m, i)
          PROVE  [Channel!Next]_<<call, handed>>
      BY <2>2 DEF Fragment, callVars
    <2>3. ASSUME NEW i \in Fragments(m), Complete(m, i)
          PROVE  [Channel!Next]_<<call, handed>>
      <3>1. handed[m] = 0
        BY <2>3, AcceptedIsNew DEF Complete
      <3>2. call[m] \in {"sending", "failed"}
        BY <2>3, <3>1
           DEF Complete, Accepted, Arrives, TransferInv, TransferTypes, Calls,
                          NothingUnsent, Unsent, HandedOnce
      <3>3. handed' = [handed EXCEPT ![m] = 1] /\ UNCHANGED call
        BY <2>3, <3>1 DEF Complete, callVars
      <3> QED
        BY <3>1, <3>2, <3>3 DEF Channel!HandOver
    <2> QED
      BY <1>2, <2>1, <2>2, <2>3 DEF ReceiverStep
  <1>3. CASE CleanUp \/ Tick \/ SessionStep \/ UNCHANGED transferVars
    BY <1>3 DEF CleanUp, Tick, SessionStep, Confirm, Replace, RelayToggles,
                SenderRemoves, ReceiverRemoves, Environment, callVars, transferVars
  <1> QED
    BY <1>1, <1>2, <1>3 DEF TransferNext

(* The session implements the channel that send_packet promises.           *)
THEOREM Implements == TransferSpec => ChannelSpec
  <1>1. TransferInit => Channel!Init
    BY DEF TransferInit, Zero, Channel!Init
  <1>2. TransferInv /\ [TransferNext]_transferVars => [Channel!Next]_Channel!vars
    BY TransferRefines DEF Channel!vars
  <1> QED
    BY <1>1, <1>2, TransferAlways, PTL DEF TransferSpec, ChannelSpec, Channel!Spec
=============================================================================
