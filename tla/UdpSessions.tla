---------------------------- MODULE UdpSessions ----------------------------
(***************************************************************************)
(* The session tables of one node's UdpTransport                           *)
(* (backend/meshtalk/udp_transport.py): the punch attempts, the introduced *)
(* endpoints, and the sessions, which are active, pending (a replacement   *)
(* not yet proved by READY) or retiring (a replaced route that drains).    *)
(*                                                                         *)
(* Every handler runs on one event loop and is atomic up to its first      *)
(* await, so it is one action.  The maintenance loop takes one action per  *)
(* session of the list it copied; the others run only while it sleeps or   *)
(* awaits the disconnect callback of a session it dropped.  Remote nodes   *)
(* and the network are the environment: any HELLO may arrive, again or     *)
(* late, and once a session exists its READY, GOODBYE or traffic may       *)
(* arrive at any time.                                                     *)
(***************************************************************************)
EXTENDS Naturals, FiniteSets

CONSTANTS
  Peer,          \* remote identities
  Direct,        \* direct UDP endpoints
  Relay,         \* the relay route of a peer: ("derp:<peer>", 0)
  HostOf,        \* the host part of a direct endpoint
  Nonce,         \* the (nonce, session key) pairs of the HELLOs that arrive
  Sid,           \* names of Session objects
  None,
  Recovery,      \* peers that share CAP_DIRECT_ROUTE_RECOVERY with this node
  ForceRelay,    \* MESHTALK_FORCE_RELAY
  RelayEnabled,  \* whether the control server relays (CONTROL_RELAY_ENABLED)
  MaxSessions,   \* MAX_SESSIONS
  MaxAttempts,   \* MAX_ATTEMPTS
  MaxExpected    \* MAX_EXPECTED_PEERS

Route == Direct \cup {Relay}

(* confirmed: the remote side proved possession of the keys with READY.    *)
(* due: the time after which the maintenance loop drops the session has    *)
(* passed: 10 s from its creation while unconfirmed, SESSION_TIMEOUT       *)
(* without traffic while active, the drain period while retiring.          *)
Session == [peer : Peer, route : Route, nonce : Nonce,
            confirmed : BOOLEAN, due : BOOLEAN]

(* live: the punch loop of the attempt is still running.                   *)
Attempt == [route : Route, live : BOOLEAN]

Phases == {"sleep", "active", "retiring", "pending", "dead"}

ASSUME ConstantsAssumption ==
  /\ Relay \notin Direct
  /\ None \notin Sid \cup Route \cup Session \cup Attempt
  /\ Recovery \subseteq Peer
  /\ ForceRelay \in BOOLEAN /\ RelayEnabled \in BOOLEAN
  /\ IsFiniteSet(Peer)
  /\ MaxSessions \in Nat /\ MaxAttempts \in Nat /\ MaxExpected \in Nat

VARIABLES
  candidate,   \* _direct_candidates
  expected,    \* _expected_endpoints
  derp,        \* _derp_candidates and _derp_peers, kept equal by the code
  forgotten,   \* _forgotten_relays
  derpUp,      \* whether _derp_sender is set
  attempts,    \* _attempts
  sess,        \* the Session objects that are still referenced
  byId,        \* _sessions_by_id
  active,      \* _sessions
  pending,     \* _pending_sessions
  retiring,    \* _retiring_sessions
  sweep        \* where _maintenance_loop stands, and its copied list

vars == <<candidate, expected, derp, forgotten, derpUp, attempts,
          sess, byId, active, pending, retiring, sweep>>
candidateVars == <<candidate, expected, derp, forgotten, derpUp>>
sessionVars == <<sess, byId, active, pending, retiring>>

At(phase, todo) == [phase |-> phase, todo |-> todo, awaiting |-> FALSE]
Asleep == [At("sleep", {}) EXCEPT !.awaiting = TRUE]
Dead == [At("dead", {}) EXCEPT !.awaiting = TRUE]

(* The event loop is free: the maintenance loop sleeps, awaits or is over. *)
Yielded == sweep.awaiting

Init ==
  /\ candidate = [p \in Peer |-> None]
  /\ expected = [p \in Peer |-> None]
  /\ derp = {} /\ forgotten = {} /\ derpUp = FALSE
  /\ attempts = [p \in Peer |-> None]
  /\ sess = [s \in Sid |-> None]
  /\ byId = {} /\ active = [p \in Peer |-> None]
  /\ pending = {} /\ retiring = {}
  /\ sweep = Asleep

----------------------------------------------------------------------------
(* Reading the tables.                                                     *)

Active(p) == IF active[p] = None THEN {} ELSE {active[p]}

ConfirmedActive(p) == \E s \in Active(p) : sess[s].confirmed

On(s, p, r) == sess[s].peer = p /\ sess[s].route = r

PendingOn(p, r) == {s \in pending : On(s, p, r)}

(* What _session_for_route may find: the active session of the route, else *)
(* the pending one, else one that is retiring, else nothing.               *)
SessionForRoute(p, r) ==
  LET act == {s \in Active(p) : sess[s].route = r}
      ret == {s \in retiring : On(s, p, r)}
  IN  IF act # {} THEN {act}
      ELSE IF PendingOn(p, r) # {} THEN {PendingOn(p, r)}
      ELSE IF ret # {} THEN {{s} : s \in ret} ELSE {{}}

(* A relay datagram can be sent to, and is accepted from, this peer.       *)
RelayUp(p) == derpUp /\ p \in derp

Reachable(p, r) == r = Relay => RelayUp(p)

(* A datagram of session s gets through to _session_for.                   *)
Heard(s) == s \in byId /\ Reachable(sess[s].peer, sess[s].route)

----------------------------------------------------------------------------
(* Changing the tables.                                                    *)

(* Session objects nothing refers to are collected.                        *)
Collect(objects) ==
  [s \in Sid |-> IF s \in byId' \cup sweep'.todo THEN objects[s] ELSE None]

(* A relay session of p is active (act) or among the retiring ones (ret).  *)
RelayInUse(p, act, ret) ==
  \E s \in act \cup ret : On(s, p, Relay)

(* The relay routing that is dropped when the sessions of the peers P are  *)
(* removed and act and ret are the active and retiring sessions left.      *)
Release(P, act, ret) ==
  LET dropped == {p \in P \cap forgotten : ~RelayInUse(p, act, ret)}
  IN  /\ forgotten' = forgotten \ dropped
      /\ derp' = derp \ dropped

ActiveSet == UNION {Active(p) : p \in Peer}

(* Mutant of Remove: the replacement tables keep what is removed.          *)
RemoveActiveOnly(S) ==
  /\ byId' = byId \ S
  /\ active' = [p \in Peer |-> IF active[p] \in S THEN None ELSE active[p]]
  /\ UNCHANGED <<pending, retiring>>
  /\ sess' = Collect(sess)
  /\ Release({sess[s].peer : s \in S}, ActiveSet \ S, retiring \ S)

Remove(S) ==
  /\ byId' = byId \ S
  /\ active' = [p \in Peer |-> IF active[p] \in S THEN None ELSE active[p]]
  /\ pending' = pending \ S
  /\ retiring' = retiring \ S
  /\ sess' = Collect(sess)
  /\ Release({sess[s].peer : s \in S}, ActiveSet \ S, retiring \ S)

(* Mutant of HasRoom: one attempt too many.                                *)
HasRoomOff(p) ==
  Cardinality({q \in Peer : attempts[q] # None}) <= MaxAttempts

HasRoom(p) ==
  \/ attempts[p] # None
  \/ Cardinality({q \in Peer : attempts[q] # None}) < MaxAttempts

Started(p, r) == [attempts EXCEPT ![p] = [route |-> r, live |-> TRUE]]

Punching(p, r) ==
  attempts[p] # None /\ attempts[p].route = r /\ attempts[p].live

(* _start_attempt; when the table is full it raises and nothing starts.    *)
StartAttempt(p, r) ==
  attempts' = IF HasRoom(p) THEN Started(p, r) ELSE attempts

----------------------------------------------------------------------------
(* Candidates from endpoint cards, and the control link.                   *)

(* expect_peer: r is the endpoint of the card.  A confirmed session on the *)
(* verified endpoint keeps it unless the introduction is too old (fresh).  *)
ExpectPeer(p, r) ==
  \E fresh, probe \in BOOLEAN :
    LET confirmedOn(q) == ConfirmedActive(p) /\ sess[active[p]].route = q
        target == IF fresh /\ expected[p] # None /\ confirmedOn(expected[p])
                    THEN expected[p] ELSE r
        tooSoon == confirmedOn(Relay)
                   /\ (p \notin Recovery \/ (candidate[p] = target /\ ~probe))
    IN  /\ Yielded
        /\ \/ expected[p] # None
           \/ Cardinality({q \in Peer : expected[q] # None}) < MaxExpected
        /\ candidate' = [candidate EXCEPT ![p] = r]
        /\ expected' = [expected EXCEPT ![p] = target]
        /\ IF ForceRelay
             THEN IF RelayUp(p) THEN StartAttempt(p, Relay)
                                ELSE UNCHANGED attempts
             ELSE IF confirmedOn(target) \/ Punching(p, target) \/ tooSoon
                    THEN UNCHANGED attempts
                    ELSE StartAttempt(p, target)
        /\ UNCHANGED <<derp, forgotten, derpUp, sessionVars, sweep>>

ExpectDerpPeer(p) ==
  /\ Yielded
  /\ forgotten' = forgotten \ {p}
  /\ derp' = derp \cup {p}
  /\ IF derpUp /\ (ForceRelay \/ candidate[p] = None)
       THEN StartAttempt(p, Relay) ELSE UNCHANGED attempts
  /\ UNCHANGED <<candidate, expected, derpUp, sessionVars, sweep>>

ClearDirectCandidate(p) ==
  /\ Yielded
  /\ candidate' = [candidate EXCEPT ![p] = None]
  /\ expected' = [expected EXCEPT ![p] = None]
  /\ attempts' = IF attempts[p] # None /\ attempts[p].route # Relay
                   THEN [attempts EXCEPT ![p] = None] ELSE attempts
  /\ UNCHANGED <<derpUp, sweep>>
  /\ Remove({s \in pending : sess[s].peer = p /\ sess[s].route # Relay})

ForgetCandidate(p) ==
  LET gone == {s \in pending : sess[s].peer = p}
      keep == RelayInUse(p, Active(p), retiring)
  IN  /\ Yielded
      /\ candidate' = [candidate EXCEPT ![p] = None]
      /\ expected' = [expected EXCEPT ![p] = None]
      /\ forgotten' = IF keep THEN forgotten \cup {p} ELSE forgotten \ {p}
      /\ derp' = IF keep THEN derp ELSE derp \ {p}
      /\ attempts' = [attempts EXCEPT ![p] = None]
      /\ UNCHANGED <<derpUp, active, retiring, sweep>>
      /\ byId' = byId \ gone
      /\ pending' = pending \ gone
      /\ sess' = Collect(sess)

(* configure_derp, called by the rendezvous client when the control link   *)
(* is registered and when it is lost.                                      *)
ConfigureDerp ==
  /\ Yielded
  /\ RelayEnabled
  /\ derpUp' = ~derpUp
  /\ UNCHANGED <<candidate, expected, derp, forgotten, attempts,
                 sessionVars, sweep>>

----------------------------------------------------------------------------
(* The handshake.                                                          *)

(* A HELLO of p arrives on r from a source an introduction allows.         *)
HelloArrives(p, r) ==
  LET sameHost == r # Relay /\ expected[p] # None
                  /\ HostOf[expected[p]] = HostOf[r]
  IN  /\ Reachable(p, r)
      /\ ForceRelay => r = Relay
      /\ (expected[p] # None \/ p \in derp) => (sameHost \/ r = Relay)
      /\ expected' = IF sameHost THEN [expected EXCEPT ![p] = r] ELSE expected

(* Direct recovery of a relay route that the two sides do not both support.*)
RecoveryDenied(p, r) ==
  r # Relay /\ ConfirmedActive(p) /\ sess[active[p]].route = Relay
  /\ p \notin Recovery

(* A repeat of the HELLO of the session found, or of the pending one of    *)
(* this route: only replies are sent.                                      *)
IsRepeat(found, p, n, r) ==
  \E s \in found \cup PendingOn(p, r) : sess[s].nonce = n

(* Mutant of FileSession: a replacement is active before READY proves it.  *)
FileUnproved(p, n, r, gone, s) ==
  LET new == [peer |-> p, route |-> r, nonce |-> n,
              confirmed |-> FALSE, due |-> FALSE]
  IN  /\ byId' = (byId \ gone) \cup {s}
      /\ pending' = pending \ gone
      /\ active' = [active EXCEPT ![p] = s]
      /\ sess' = Collect([sess EXCEPT ![s] = new])
      /\ IF gone = {} THEN UNCHANGED <<derp, forgotten>>
                      ELSE Release({p}, Active(p) \ gone, retiring)

(* The new Session object s: pending if a confirmed session is active, the *)
(* active one otherwise.  The sessions gone are removed before it is filed.*)
FileSession(p, n, r, gone, s) ==
  LET new == [peer |-> p, route |-> r, nonce |-> n,
              confirmed |-> FALSE, due |-> FALSE]
      replaces == ConfirmedActive(p)
  IN  /\ byId' = (byId \ gone) \cup {s}
      /\ pending' = (pending \ gone) \cup (IF replaces THEN {s} ELSE {})
      /\ active' = IF replaces THEN active ELSE [active EXCEPT ![p] = s]
      /\ sess' = Collect([sess EXCEPT ![s] = new])
      /\ IF gone = {} THEN UNCHANGED <<derp, forgotten>>
                      ELSE Release({p}, Active(p) \ gone, retiring)

(* A new HELLO replaces the unconfirmed session found on its route, and    *)
(* the pending one if the active session is confirmed.  If the session     *)
(* table is full only the attempt is started.                              *)
HelloNew(p, n, r) == \E found \in SessionForRoute(p, r) :
  LET gone == {s \in found : ~sess[s].confirmed}
                \cup (IF ConfirmedActive(p) THEN PendingOn(p, r) ELSE {})
      reuse == attempts[p] # None /\ attempts[p].route = r
  IN  /\ Yielded
      /\ HelloArrives(p, r)
      /\ ~RecoveryDenied(p, r)
      /\ ~IsRepeat(found, p, n, r)
      /\ HasRoom(p)
      /\ attempts' = IF reuse THEN attempts ELSE Started(p, r)
      /\ UNCHANGED <<candidate, derpUp, sweep, retiring>>
      /\ IF Cardinality(byId) >= MaxSessions
           THEN UNCHANGED <<derp, forgotten, sess, byId, active, pending>>
           ELSE \E s \in {t \in Sid : sess[t] = None} :
                  FileSession(p, n, r, gone, s)

(* A HELLO that changes nothing but the endpoint it was seen from: refused *)
(* or a repeat, or no room for another attempt.                            *)
HelloSeen(p, n, r) ==
  /\ Yielded
  /\ HelloArrives(p, r)
  /\ \/ RecoveryDenied(p, r)
     \/ \E found \in SessionForRoute(p, r) : IsRepeat(found, p, n, r)
     \/ ~HasRoom(p)
  /\ UNCHANGED <<candidate, derp, forgotten, derpUp, attempts,
                 sessionVars, sweep>>

(* What a READY for s does with the session it replaces.                   *)
Unproved(s) == {t \in Active(sess[s].peer) \ {s} : ~sess[t].confirmed}

(* Mutant of Retired: the route that was replaced is not kept to drain.    *)
NoneRetired(s) == {}

Retired(s) == {t \in Active(sess[s].peer) \ {s} : sess[t].confirmed}

(* An authentic READY confirms a session and makes it the active one.  The *)
(* active one it replaces retires if confirmed and is removed otherwise.   *)
Ready(s) ==
  LET p == sess[s].peer
      unproved == Unproved(s)
      retired == Retired(s)
      replaced == IF active[p] = s THEN {} ELSE PendingOn(p, sess[s].route)
      ready == [sess EXCEPT ![s] = [@ EXCEPT !.confirmed = TRUE, !.due = FALSE]]
  IN  /\ Yielded
      /\ Heard(s)
      /\ ~sess[s].confirmed
      /\ attempts' = [attempts EXCEPT ![p] = None]
      /\ active' = [active EXCEPT ![p] = s]
      /\ pending' = pending \ (replaced \cup unproved)
      /\ retiring' = retiring \cup retired
      /\ byId' = byId \ unproved
      /\ UNCHANGED <<candidate, expected, derpUp, sweep>>
      /\ sess' = Collect([t \in Sid |-> IF t \in retired
                                          THEN [ready[t] EXCEPT !.due = FALSE]
                                          ELSE ready[t]])
      /\ IF unproved = {} THEN UNCHANGED <<derp, forgotten>>
                          ELSE Release({p}, {}, retiring)

(* GOODBYE: the remote node stopped.                                       *)
Goodbye(s) ==
  /\ Yielded
  /\ Heard(s)
  /\ sess[s].confirmed
  /\ UNCHANGED <<candidate, expected, derpUp, attempts, sweep>>
  /\ Remove({s})

(* PING, PONG, DATA or ACK of a confirmed session renews last_seen; the    *)
(* drain period of a retiring session is not extended.                     *)
Traffic(s) ==
  /\ Yielded
  /\ Heard(s)
  /\ sess[s].confirmed /\ sess[s].due /\ s \notin retiring
  /\ sess' = [sess EXCEPT ![s] = [@ EXCEPT !.due = FALSE]]
  /\ UNCHANGED <<candidateVars, attempts, byId, active, pending, retiring,
                 sweep>>

(* Time passes and session s becomes due.                                  *)
Deadline(s) ==
  /\ Yielded
  /\ sess[s] # None /\ ~sess[s].due
  /\ sess' = [sess EXCEPT ![s] = [@ EXCEPT !.due = TRUE]]
  /\ UNCHANGED <<candidateVars, attempts, byId, active, pending, retiring,
                 sweep>>

----------------------------------------------------------------------------
(* The punch loop of an attempt.                                           *)

OnConfirmedRoute(p) ==
  ConfirmedActive(p) /\ sess[active[p]].route = attempts[p].route

(* It returns, or dies on a relay it cannot send to; the entry stays.      *)
PunchStop(p) ==
  /\ Yielded
  /\ attempts[p] # None /\ attempts[p].live
  /\ OnConfirmedRoute(p) \/ ~Reachable(p, attempts[p].route)
  /\ attempts' = [attempts EXCEPT ![p] = [@ EXCEPT !.live = FALSE]]
  /\ UNCHANGED <<candidateVars, sessionVars, sweep>>

(* Its 20 rounds are over: an unproved session goes, and a direct attempt  *)
(* falls back to the relay if that removal left its routing in place.      *)
PunchEnd(p) ==
  LET fallback == attempts[p].route # Relay /\ derpUp /\ p \in derp'
                  /\ ~ConfirmedActive(p)
  IN  /\ Yielded
      /\ attempts[p] # None /\ attempts[p].live
      /\ ~OnConfirmedRoute(p)
      /\ UNCHANGED <<candidate, expected, derpUp, sweep>>
      /\ Remove({s \in Active(p) : ~sess[s].confirmed})
      /\ attempts' = [attempts EXCEPT ![p] =
                        IF fallback THEN [route |-> Relay, live |-> TRUE]
                                    ELSE None]

----------------------------------------------------------------------------
(* The maintenance loop.                                                   *)

SweepWake ==
  /\ sweep.phase = "sleep"
  /\ sweep' = At("active", ActiveSet)
  /\ UNCHANGED <<candidateVars, attempts, sessionVars>>

Swept(s) == At(sweep.phase, sweep.todo \ {s})

(* A session that is due is removed, then on_disconnected is awaited if    *)
(* the session had been confirmed.                                         *)
SweepDrop(s) ==
  /\ s \in sweep.todo
  /\ sess[s].due
  /\ sweep' = [Swept(s) EXCEPT !.awaiting = sess[s].confirmed]
  /\ UNCHANGED <<candidate, expected, derpUp, attempts>>
  /\ Remove({s})

(* The direct candidate of a relay session may be probed.                  *)
Probes(s) ==
  LET p == sess[s].peer
  IN  /\ sess[s].route = Relay /\ p \in Recovery /\ candidate[p] # None
      /\ ~(attempts[p] # None /\ attempts[p].route # Relay
           /\ attempts[p].live)

(* An active session that is not due gets a PING, a relay session also a   *)
(* probe of the direct candidate now and then.  A PING that cannot be      *)
(* sent, or a probe that finds the attempt table full, raises, and nothing *)
(* catches it: the loop is over.                                           *)
SweepKeepalive(s) ==
  LET p == sess[s].peer
      raises(probe) == ~Reachable(p, sess[s].route) \/ (probe /\ ~HasRoom(p))
  IN  /\ sweep.phase = "active" /\ s \in sweep.todo
      /\ ~sess[s].due
      /\ \E probe \in {FALSE, Probes(s) /\ sess[s].confirmed} :
           /\ sweep' = IF sess[s].confirmed /\ raises(probe)
                         THEN Dead
                         ELSE Swept(s)
           /\ attempts' = IF probe /\ ~raises(probe)
                            THEN Started(p, candidate[p]) ELSE attempts
      /\ UNCHANGED <<candidateVars, byId, active, pending, retiring>>
      /\ sess' = Collect(sess)

SweepSkip(s) ==
  /\ sweep.phase = "retiring" /\ s \in sweep.todo
  /\ ~sess[s].due
  /\ sweep' = Swept(s)
  /\ UNCHANGED <<candidateVars, attempts, byId, active, pending, retiring>>
  /\ sess' = Collect(sess)

(* Mutant of SweepPhase: the retiring sessions are not read.               *)
SweepActiveOnly ==
  /\ sweep.todo = {}
  /\ sweep.phase = "active"
  /\ sweep' = At("pending", {})
  /\ UNCHANGED <<candidateVars, attempts, sessionVars>>

SweepPhase ==
  /\ sweep.todo = {}
  /\ \/ sweep.phase = "active"
        /\ sweep' = At("retiring", retiring)
     \/ sweep.phase = "retiring"
        /\ sweep' = At("pending", {})
  /\ UNCHANGED <<candidateVars, attempts, sessionVars>>

(* Expired pending sessions go, and introductions without a session that   *)
(* are older than EXPECTED_PEER_TIMEOUT (old).                             *)
SweepPending ==
  /\ sweep.phase = "pending"
  /\ sweep' = Asleep
  /\ \E old \in SUBSET {p \in Peer : expected[p] # None /\ active[p] = None} :
       expected' = [p \in Peer |-> IF p \in old THEN None ELSE expected[p]]
  /\ UNCHANGED <<candidate, derpUp, attempts>>
  /\ Remove({s \in pending : sess[s].due})

(* As many members of S as a table of n entries takes.                     *)
Fitting(S, n) == {T \in SUBSET S : Cardinality(T) <= n
                                   /\ (T = S \/ Cardinality(T) = n)}

(* restart, after a network change: the sessions and attempts go, the      *)
(* candidates are expected again, and a new maintenance loop runs.         *)
Restart ==
  LET known == {p \in Peer : candidate[p] # None}
      relays == {p \in derp \ forgotten :
                   derpUp /\ (ForceRelay \/ p \notin known)}
  IN  /\ Yielded
      /\ derp' = derp \ forgotten /\ forgotten' = {}
      /\ \E E \in Fitting(known, MaxExpected) :
         \E D \in Fitting(IF ForceRelay THEN {} ELSE E, MaxAttempts) :
         \E R \in Fitting(relays, MaxAttempts - Cardinality(D)) :
           /\ expected' = [p \in Peer |->
                IF p \in E THEN candidate[p] ELSE None]
           /\ attempts' = [p \in Peer |->
                IF p \in R THEN [route |-> Relay, live |-> TRUE]
                ELSE IF p \in D THEN [route |-> candidate[p], live |-> TRUE]
                ELSE None]
      /\ byId' = {} /\ pending' = {} /\ retiring' = {}
      /\ active' = [p \in Peer |-> None]
      /\ sess' = [s \in Sid |-> None]
      /\ sweep' = Asleep
      /\ UNCHANGED <<candidate, derpUp>>

----------------------------------------------------------------------------
Cards ==
  \/ ConfigureDerp
  \/ \E p \in Peer : \/ \E r \in Direct : ExpectPeer(p, r)
                     \/ ExpectDerpPeer(p)
                     \/ ClearDirectCandidate(p)
                     \/ ForgetCandidate(p)

Datagrams ==
  \/ \E p \in Peer, n \in Nonce, r \in Route :
       HelloNew(p, n, r) \/ HelloSeen(p, n, r)
  \/ \E s \in Sid : Ready(s) \/ Goodbye(s) \/ Traffic(s)

Sweep ==
  \/ SweepWake \/ SweepPhase \/ SweepPending
  \/ \E s \in Sid : SweepDrop(s) \/ SweepKeepalive(s) \/ SweepSkip(s)

Next ==
  \/ Sweep
  \/ Cards \/ Datagrams \/ Restart
  \/ \E p \in Peer : PunchStop(p) \/ PunchEnd(p)
  \/ \E s \in Sid : Deadline(s)

Spec == Init /\ [][Next]_vars

(* The maintenance loop is a task of the event loop and sleeps 5 s a round:*)
(* while it is alive it goes on.  Nothing is assumed of the network.       *)
FairSpec == Spec /\ WF_vars(Sweep)

----------------------------------------------------------------------------
CandidateTypes ==
  /\ candidate \in [Peer -> Direct \cup {None}]
  /\ expected \in [Peer -> Direct \cup {None}]
  /\ derp \subseteq Peer /\ forgotten \subseteq Peer /\ derpUp \in BOOLEAN
  /\ attempts \in [Peer -> Attempt \cup {None}]

SessionTypes ==
  /\ sess \in [Sid -> Session \cup {None}]
  /\ byId \subseteq Sid /\ pending \subseteq Sid /\ retiring \subseteq Sid
  /\ active \in [Peer -> Sid \cup {None}]
  /\ sweep \in [phase : Phases, todo : SUBSET Sid, awaiting : BOOLEAN]

(* Type invariant of the tables.                                           *)
TypeOK == CandidateTypes /\ SessionTypes

(* A Session object exists as long as a table or the copied list of the    *)
(* maintenance loop refers to it.                                          *)
ObjectsKnown == byId \cup sweep.todo = {s \in Sid : sess[s] # None}

(* An active session is known by its id, filed under its own peer only.    *)
ActiveFiled ==
  \A p \in Peer : active[p] # None =>
    active[p] \in byId \ (pending \cup retiring) /\ sess[active[p]].peer = p

(* A pending session is known by its id and unproved; a route has one.     *)
PendingFiled ==
  /\ \A s \in pending : s \in byId /\ ~sess[s].confirmed
  /\ \A s, t \in pending :
       sess[s].peer = sess[t].peer /\ sess[s].route = sess[t].route => s = t

(* A retiring session is known by its id and proved, so that the packets   *)
(* in flight on the route that drains are still accepted.                  *)
RetiringFiled == \A s \in retiring : s \in byId /\ sess[s].confirmed

(* _sessions, _pending_sessions, _retiring_sessions and _sessions_by_id    *)
(* agree, through every replacement, expiry, loss of a card and restart.   *)
TablesAgree == ObjectsKnown /\ ActiveFiled /\ PendingFiled /\ RetiringFiled

(* A session that proved itself is filed where the maintenance loop looks: *)
(* it is the active session of its peer or it is retiring.                 *)
ConfirmedIsFiled ==
  \A s \in byId : sess[s].confirmed =>
    s \in retiring \/ active[sess[s].peer] = s

(* The tables stay within their limits, whatever arrives from the network  *)
(* and however attempts, cards, probes and restarts interleave: no entry   *)
(* is added without the check of its own table.                            *)
LimitsKept ==
  /\ Cardinality(byId) <= MaxSessions
  /\ Cardinality({p \in Peer : attempts[p] # None}) <= MaxAttempts
  /\ Cardinality({p \in Peer : expected[p] # None}) <= MaxExpected

(* A failed replacement handshake leaves the confirmed route unchanged     *)
(* (PROTOCOL.md 5.6): a confirmed active session gives way only to another *)
(* confirmed one and then drains, or it ends.                              *)
ConfirmedRouteKept ==
  [][\A p \in Peer : ConfirmedActive(p) /\ active'[p] \notin {active[p], None}
       => active[p] \in retiring' /\ sess'[active'[p]].confirmed]_vars

(* A confirmed session that is due does not stay so: as long as the        *)
(* maintenance loop is alive it drops idle and drained sessions.           *)
DueIsDropped ==
  \A s \in Sid :
    LET due == s \in byId /\ sess[s].confirmed /\ sess[s].due
    IN  due ~> (~due \/ sweep.phase = "dead")

(* PROTOCOL.md 6.5 says it without that proviso: the maintenance loop      *)
(* drops sessions idle longer than SESSION_TIMEOUT.                        *)
IdleIsDropped ==
  \A s \in Sid :
    LET due == s \in byId /\ sess[s].confirmed /\ sess[s].due
    IN  due ~> ~due

(* Every session the node keeps is one the maintenance loop reads, so that *)
(* none outlives its deadline: active, pending or retiring.                *)
EverySessionIsSwept ==
  \A s \in byId : s \in pending \cup retiring \/ active[sess[s].peer] = s
=============================================================================
