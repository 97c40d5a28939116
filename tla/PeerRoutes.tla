----------------------------- MODULE PeerRoutes -----------------------------
(***************************************************************************)
(* Which connection PeerManager (backend/meshtalk/peer_manager.py) uses    *)
(* for one peer: its UDP sessions come and go below it (UdpSessions.tla),  *)
(* LAN TCP connections beside it, and peers, _udp_peers and the is_online  *)
(* column have to follow, although the callbacks await the database and    *)
(* the network between their steps.                                        *)
(*                                                                         *)
(* An action is the code between two awaits.  Statements of the database   *)
(* run in the order in which they are submitted, so one takes effect in    *)
(* the step that submits it.  Other peers appear only as full: whether the *)
(* limit MAX_CONNECTED_PEERS has been reached.                             *)
(***************************************************************************)
EXTENDS Naturals, FiniteSets

CONSTANTS
  Sid,   \* UDP sessions of the peer, each with its PeerConnection
  Lid,   \* authenticated LAN connections of the peer, likewise
  None

ASSUME ConstantsAssumption ==
  /\ Sid \cap Lid = {}
  /\ None \notin Sid \cup Lid

VARIABLES
  session,     \* session[s]: what UdpTransport has of the confirmed session s
  connecting,  \* connecting[s]: where the on_connected callback of s stands
  goodbyes,    \* sessions whose on_disconnected callback has been spawned
  saving,      \* sessions whose on_disconnected awaits its database write
  loop,        \* the session of saving that the maintenance loop waits for
  lan,         \* lan[l]: how far connect_to_peer or _handle_incoming got
  up,          \* LAN connections whose state is CONNECTED
  sending,     \* connections through which send_packet awaits
  peers,       \* peers[peer_id]
  udpPeers,    \* _udp_peers[peer_id]
  online,      \* is_online in the database
  refreshing   \* refresh_network closes writers before it restarts UDP

vars == <<session, connecting, goodbyes, saving, loop, lan, up, sending,
          peers, udpPeers, online, refreshing>>
udpVars == <<session, connecting, goodbyes, saving, loop, udpPeers>>
lanVars == <<lan, up>>

Init ==
  /\ session = [s \in Sid |-> "none"]
  /\ connecting = [s \in Sid |-> "none"]
  /\ goodbyes = {} /\ saving = {} /\ loop = None
  /\ lan = [l \in Lid |-> "none"] /\ up = {} /\ sending = {}
  /\ peers = None /\ udpPeers = None
  /\ online = FALSE /\ refreshing = FALSE

----------------------------------------------------------------------------
(* The UDP sessions the transport has.                                     *)
Existing == {s \in Sid : session[s] \in {"active", "retiring"}}

LanConnected == peers \in up

(* Mutant of Fallback: a LAN connection that ends takes the peer with it.  *)
NoFallback == None

(* What takes the place of a LAN connection that ends.                     *)
Fallback == udpPeers

(* An admission has failed: the database may have missed its statement.    *)
AdmissionFailed == \E l \in Lid : lan[l] \in {"failing", "undone"}

(* Mutant of UdpDisconnected: whatever session is filed is removed.        *)
UdpDisconnectedAny(s) ==
  /\ udpPeers' = None
  /\ IF peers = udpPeers /\ peers # None
       THEN peers' = None /\ online' = FALSE /\ saving' = saving \cup {s}
       ELSE UNCHANGED <<peers, online, saving>>

(* _on_udp_disconnected up to its first await; stale calls change nothing. *)
UdpDisconnected(s) ==
  IF udpPeers # s
    THEN UNCHANGED <<udpPeers, peers, online, saving>>
    ELSE /\ udpPeers' = None
         /\ IF peers = s
              THEN peers' = None /\ online' = FALSE /\ saving' = saving \cup {s}
              ELSE UNCHANGED <<peers, online, saving>>

----------------------------------------------------------------------------
(* The UDP transport below.                                                *)

(* READY confirms s: it is active, the former active session retires, and  *)
(* the on_connected callback is spawned.                                   *)
Confirm(s) ==
  /\ session[s] = "none"
  /\ session' = [t \in Sid |-> IF t = s THEN "active"
                               ELSE IF session[t] = "active" THEN "retiring"
                               ELSE session[t]]
  /\ connecting' = [connecting EXCEPT ![s] = "spawned"]
  /\ UNCHANGED <<goodbyes, saving, loop, lanVars, sending, peers, udpPeers,
                 online, refreshing>>

(* GOODBYE ends a session; the callback is spawned if it was active.       *)
SessionGoodbye(s) ==
  /\ s \in Existing
  /\ session' = [session EXCEPT ![s] = "gone"]
  /\ goodbyes' = IF session[s] = "active" THEN goodbyes \cup {s} ELSE goodbyes
  /\ UNCHANGED <<connecting, saving, loop, lanVars, sending, peers, udpPeers,
                 online, refreshing>>

(* The maintenance loop drops s and awaits the callback.                   *)
Expire(s) ==
  /\ s \in Existing
  /\ loop = None
  /\ session' = [session EXCEPT ![s] = "gone"]
  /\ UdpDisconnected(s)
  /\ loop' = IF udpPeers = s /\ peers = s THEN s ELSE None
  /\ UNCHANGED <<connecting, goodbyes, lanVars, sending, refreshing>>

----------------------------------------------------------------------------
(* The callbacks of the transport.                                         *)

(* _dispatch_connected and _on_udp_connected up to _seed_peer_dnd: the     *)
(* callback of a session that is no longer active is dropped.              *)
Connected(s) == \E full \in BOOLEAN :
  /\ connecting[s] = "spawned"
  /\ connecting' = [connecting EXCEPT ![s] =
       IF session[s] = "active" /\ ~(peers = None /\ full)
         THEN "seeding" ELSE "done"]
  /\ UNCHANGED <<session, goodbyes, saving, loop, udpPeers, lanVars, sending,
                 peers, online, refreshing>>

(* Mutants of ConnectedFile: an older route stays in use, or a UDP session *)
(* takes over from the LAN connection.                                     *)
ConnectedFileFirst(s) ==
  /\ connecting[s] = "seeding"
  /\ connecting' = [connecting EXCEPT ![s] = "done"]
  /\ udpPeers' = s
  /\ peers' = IF peers # None THEN peers ELSE s
  /\ online' = TRUE
  /\ UNCHANGED <<session, goodbyes, saving, loop, lanVars, sending,
                 refreshing>>

ConnectedFileAlways(s) ==
  /\ connecting[s] = "seeding"
  /\ connecting' = [connecting EXCEPT ![s] = "done"]
  /\ udpPeers' = s /\ peers' = s
  /\ online' = TRUE
  /\ UNCHANGED <<session, goodbyes, saving, loop, lanVars, sending,
                 refreshing>>

(* Its rest: the session is filed and the LAN connection stays preferred.  *)
ConnectedFile(s) ==
  /\ connecting[s] = "seeding"
  /\ connecting' = [connecting EXCEPT ![s] = "done"]
  /\ udpPeers' = s
  /\ peers' = IF LanConnected THEN peers ELSE s
  /\ online' = TRUE
  /\ UNCHANGED <<session, goodbyes, saving, loop, lanVars, sending,
                 refreshing>>

(* The spawned callback of a GOODBYE runs.                                 *)
Disconnected(s) ==
  /\ s \in goodbyes
  /\ goodbyes' = goodbyes \ {s}
  /\ UdpDisconnected(s)
  /\ UNCHANGED <<session, connecting, loop, lanVars, sending, refreshing>>

(* Mutant of DisconnectSaved: the replacement is assumed.                  *)
DisconnectSavedOnline(s) ==
  /\ s \in saving
  /\ saving' = saving \ {s}
  /\ online' = TRUE
  /\ loop' = IF loop = s THEN None ELSE loop
  /\ UNCHANGED <<session, connecting, goodbyes, lanVars, sending, peers,
                 udpPeers, refreshing>>

(* The rest of _on_udp_disconnected: a replacement was filed meanwhile.    *)
DisconnectSaved(s) ==
  /\ s \in saving
  /\ saving' = saving \ {s}
  /\ online' = IF udpPeers # None \/ peers # None THEN TRUE ELSE online
  /\ loop' = IF loop = s THEN None ELSE loop
  /\ UNCHANGED <<session, connecting, goodbyes, lanVars, sending, peers,
                 udpPeers, refreshing>>

----------------------------------------------------------------------------
(* LAN connections.                                                        *)

(* A handshake has succeeded; _seed_peer_dnd is awaited.                   *)
LanHandshake(l) ==
  /\ lan[l] = "none"
  /\ lan' = [lan EXCEPT ![l] = "seeding"]
  /\ UNCHANGED <<udpVars, up, sending, peers, online, refreshing>>

(* _admit_lan_peer refuses the connection, or admits it and the database   *)
(* is told, which may fail.                                                *)
LanAdmit(l) == \E full, fails \in BOOLEAN :
  LET admitted == ~LanConnected /\ ~(peers = None /\ full)
  IN  /\ lan[l] = "seeding"
      /\ lan' = [lan EXCEPT ![l] = IF ~admitted THEN "closed"
                                   ELSE IF fails THEN "failing" ELSE "saving"]
      /\ IF admitted THEN up' = up \cup {l} /\ peers' = l
                     ELSE UNCHANGED <<up, peers>>
      /\ online' = IF admitted /\ ~fails THEN TRUE ELSE online
      /\ UNCHANGED <<udpVars, sending, refreshing>>

(* upsert_peer returns and the receive loop starts.                        *)
LanOpen(l) ==
  /\ lan[l] = "saving"
  /\ lan' = [lan EXCEPT ![l] = "open"]
  /\ UNCHANGED <<udpVars, up, sending, peers, online, refreshing>>

(* upsert_peer raises: _undo_lan_admission.                                *)
LanUndo(l) ==
  /\ lan[l] = "failing"
  /\ lan' = [lan EXCEPT ![l] = "undone"]
  /\ up' = up \ {l}
  /\ peers' = IF peers = l THEN Fallback ELSE peers
  /\ UNCHANGED <<udpVars, sending, online, refreshing>>

(* Mutant of LanClose: the peer goes offline although UDP takes over.      *)
LanCloseOffline(l) ==
  /\ lan[l] = "open"
  /\ lan' = [lan EXCEPT ![l] = "closed"]
  /\ up' = up \ {l}
  /\ peers' = IF peers = l THEN Fallback ELSE peers
  /\ online' = IF peers = l THEN FALSE ELSE online
  /\ UNCHANGED <<udpVars, sending, refreshing>>

(* The receive loop ends: GOODBYE, end of file, invalid data, or a state   *)
(* that is no longer CONNECTED.                                            *)
LanClose(l) ==
  /\ lan[l] = "open"
  /\ lan' = [lan EXCEPT ![l] = "closed"]
  /\ up' = up \ {l}
  /\ peers' = IF peers = l THEN Fallback ELSE peers
  /\ online' = IF peers = l /\ Fallback = None THEN FALSE ELSE online
  /\ UNCHANGED <<udpVars, sending, refreshing>>

----------------------------------------------------------------------------
(* PROFILE: _apply_profile_update saves the peer as online, whether or not *)
(* peers holds the connection over which the packet came.                  *)
SaveProfile ==
  /\ online' = TRUE
  /\ UNCHANGED <<udpVars, lanVars, sending, peers, refreshing>>

(* From the task of a UDP packet, which looks up the session on file.      *)
UdpProfile == udpPeers # None /\ SaveProfile

(* From a receive loop, which reads on after a failed send or a network    *)
(* change took the connection out of up or peers.                          *)
LanProfile(l) == lan[l] = "open" /\ SaveProfile

----------------------------------------------------------------------------
(* send_packet through the connection get_connected_peer returned.         *)

Send ==
  /\ peers \in Sid \cup up
  /\ sending' = sending \cup {peers}
  /\ UNCHANGED <<udpVars, lanVars, peers, online, refreshing>>

Sent(c) ==
  /\ c \in sending
  /\ sending' = sending \ {c}
  /\ UNCHANGED <<udpVars, lanVars, peers, online, refreshing>>

(* No acknowledgement after MAX_RETRIES, or the session is gone.           *)
UdpSendFails(s) ==
  /\ s \in sending
  /\ sending' = sending \ {s}
  /\ UdpDisconnected(s)
  /\ UNCHANGED <<session, connecting, goodbyes, loop, lanVars, refreshing>>

(* The TCP connection fails, or (broken) its record layer does: then there *)
(* is no fallback.                                                         *)
LanSendFails(l) == \E broken \in BOOLEAN :
  /\ l \in sending
  /\ sending' = sending \ {l}
  /\ up' = up \ {l}
  /\ peers' = IF broken \/ udpPeers = None THEN peers ELSE udpPeers
  /\ UNCHANGED <<udpVars, lan, online, refreshing>>

----------------------------------------------------------------------------
(* refresh_network, after the active route of the host changed.            *)

Refresh ==
  /\ ~refreshing
  /\ refreshing' = TRUE
  /\ up' = up \ {peers}
  /\ peers' = None /\ udpPeers' = None
  /\ UNCHANGED <<session, connecting, goodbyes, saving, loop, lan, sending,
                 online>>

(* udp.restart cancels the callbacks the transport spawned (and the loop)  *)
(* and discards the sessions.  Callbacks from send_packet go on.           *)
Restart ==
  /\ refreshing
  /\ refreshing' = FALSE
  /\ session' = [s \in Sid |-> IF session[s] = "none" THEN "none" ELSE "gone"]
  /\ connecting' = [s \in Sid |->
       IF connecting[s] = "none" THEN "none" ELSE "done"]
  /\ goodbyes' = {} /\ loop' = None
  /\ saving' \in SUBSET (saving \ {loop})
  /\ online' = IF peers \in Sid \cup up THEN online ELSE FALSE
  /\ UNCHANGED <<lanVars, sending, peers, udpPeers>>

----------------------------------------------------------------------------
Transport == \E s \in Sid : Confirm(s) \/ SessionGoodbye(s) \/ Expire(s)

Callbacks ==
  \E s \in Sid : \/ Connected(s) \/ ConnectedFile(s)
                 \/ Disconnected(s) \/ DisconnectSaved(s)

Lan == \E l \in Lid : \/ LanHandshake(l) \/ LanAdmit(l) \/ LanOpen(l)
                      \/ LanUndo(l) \/ LanClose(l) \/ LanSendFails(l)
                      \/ LanProfile(l)

Sends == \/ Send
         \/ \E c \in Sid \cup Lid : Sent(c)
         \/ \E s \in Sid : UdpSendFails(s)

Next ==
  \/ Transport \/ Callbacks \/ UdpProfile \/ Lan \/ Sends
  \/ Refresh \/ Restart

Spec == Init /\ [][Next]_vars

----------------------------------------------------------------------------
TypeOK ==
  /\ session \in [Sid -> {"none", "active", "retiring", "gone"}]
  /\ connecting \in [Sid -> {"none", "spawned", "seeding", "done"}]
  /\ goodbyes \subseteq Sid /\ saving \subseteq Sid
  /\ loop \in Sid \cup {None}
  /\ lan \in [Lid -> {"none", "seeding", "saving", "failing", "undone",
                    "open", "closed"}]
  /\ up \subseteq Lid /\ sending \subseteq Sid \cup Lid
  /\ peers \in Sid \cup Lid \cup {None}
  /\ udpPeers \in Sid \cup {None}
  /\ online \in BOOLEAN /\ refreshing \in BOOLEAN

(* A peer that is used over UDP is used over the session that _udp_peers   *)
(* holds: a callback, a fallback or a cleanup never revives an older one.  *)
RemoteAgrees == peers \in Sid => peers = udpPeers

(* UDP stays available as the fallback (PROTOCOL.md 6.6): a peer with a    *)
(* UDP session on file always has a connection in use.                     *)
FallbackKept == udpPeers # None => peers # None

(* A working connection in use shows as online in the database, however    *)
(* the statements of the callbacks interleave; a failed admission, whose   *)
(* statement the database missed, is excepted.                             *)
OnlineIsSaved ==
  peers \in up \cup Existing /\ ~AdmissionFailed => online

(* The column contradicts the tables, and nothing under way will settle it.*)
GhostOnline == peers = None /\ online /\ ~refreshing /\ ~AdmissionFailed

(* Whichever callback, send, fallback or refresh takes the last connection *)
(* of a peer away, it also writes offline, and no late statement of        *)
(* another one undoes that: only a PROFILE can, read from a LAN connection *)
(* the tables have lost.                                                   *)
OfflineIsSaved ==
  [][~GhostOnline /\ GhostOnline' => \E l \in Lid : LanProfile(l)]_vars

(* upsert_peer is the record of "online status" (database.py:546): a peer  *)
(* without a connection would show as offline, without that exception.     *)
NoGhost == ~GhostOnline

(* A UDP session leaves the tables only if it ended itself, a packet sent  *)
(* through it was not acknowledged, or the network changed: a late notice  *)
(* about the route before it never removes it.                             *)
HandoffKept ==
  [][udpPeers # None /\ udpPeers' = None
       => \/ session'[udpPeers] = "gone"
          \/ udpPeers \in sending \ sending'
          \/ refreshing']_vars

(* A LAN connection that works gives way to nothing but a network change   *)
(* and the late failure of a packet on another LAN connection.             *)
LanKept ==
  [][peers' # peers /\ peers \in up \cap up'
       => (sending \ sending') \cap (Lid \ {peers}) # {}]_vars

(* PROTOCOL.md 6.6 says it without the exception: when a peer is reachable *)
(* on both LAN TCP and remote UDP, the LAN TCP connection is the active    *)
(* transport.                                                              *)
LanPreferred ==
  ~AdmissionFailed => \A l \in up : lan[l] = "open" => peers = l

(* udp_transport.py, in the maintenance loop: the manager is notified so   *)
(* that a force-killed peer does not stay online.  A session that is on    *)
(* file exists, or the notice of its end is on the way.                    *)
NoZombie ==
  udpPeers # None /\ ~refreshing
    => udpPeers \in Existing \cup goodbyes
=============================================================================
