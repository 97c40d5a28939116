------------------------- MODULE PeerRoutes_proofs -------------------------
(***************************************************************************)
(* The connection in use for a peer and its UDP session on file agree in   *)
(* every reachable state, and what takes an entry out of the tables is     *)
(* what should, for every number of UDP sessions and LAN connections.      *)
(***************************************************************************)
EXTENDS PeerRoutes, TLAPS

(* The callback of a GOODBYE is spawned for a session that is gone.        *)
GoodbyesGone == \A s \in goodbyes : session[s] = "gone"

IInv == TypeOK /\ RemoteAgrees /\ FallbackKept /\ GoodbyesGone

----------------------------------------------------------------------------
(* _on_udp_disconnected keeps the connection in use and the session on     *)
(* file in agreement, whichever session it is called for.                  *)
LEMMA DisconnectKeeps ==
  ASSUME ConstantsAssumption, TypeOK, RemoteAgrees, FallbackKept,
         NEW s \in Sid, UdpDisconnected(s)
  PROVE  /\ peers' \in Sid \cup Lid \cup {None}
         /\ udpPeers' \in Sid \cup {None}
         /\ online' \in BOOLEAN
         /\ saving' \subseteq Sid
         /\ RemoteAgrees' /\ FallbackKept'
         /\ peers' # peers => peers = s
         /\ udpPeers' # udpPeers => udpPeers = s
BY DEF ConstantsAssumption, TypeOK, RemoteAgrees, FallbackKept, UdpDisconnected

LEMMA InitEstablishes ==
  ASSUME ConstantsAssumption, Init
  PROVE  IInv
BY DEF ConstantsAssumption, Init, IInv, TypeOK, RemoteAgrees, FallbackKept,
       GoodbyesGone

LEMMA TransportKeeps ==
  ASSUME ConstantsAssumption, IInv, Transport
  PROVE  IInv'
<1> USE DEF IInv, GoodbyesGone
<1>1. ASSUME NEW s \in Sid, Confirm(s)
      PROVE  IInv'
  BY <1>1 DEF Confirm, lanVars, TypeOK, RemoteAgrees, FallbackKept
<1>2. ASSUME NEW s \in Sid, SessionGoodbye(s)
      PROVE  IInv'
  BY <1>2 DEF SessionGoodbye, lanVars, TypeOK, RemoteAgrees, FallbackKept
<1>3. ASSUME NEW s \in Sid, Expire(s)
      PROVE  IInv'
  <2>1. /\ peers' \in Sid \cup Lid \cup {None} /\ udpPeers' \in Sid \cup {None}
        /\ online' \in BOOLEAN /\ saving' \subseteq Sid
        /\ RemoteAgrees' /\ FallbackKept'
    BY <1>3, DisconnectKeeps DEF Expire
  <2> QED BY <1>3, <2>1 DEF Expire, lanVars, TypeOK
<1> QED BY <1>1, <1>2, <1>3 DEF Transport

LEMMA CallbacksKeep ==
  ASSUME ConstantsAssumption, IInv, Callbacks
  PROVE  IInv'
<1> USE DEF IInv, GoodbyesGone
<1>1. ASSUME NEW s \in Sid, Connected(s)
      PROVE  IInv'
  BY <1>1 DEF Connected, lanVars, TypeOK, RemoteAgrees, FallbackKept
<1>2. ASSUME NEW s \in Sid, ConnectedFile(s)
      PROVE  IInv'
  BY <1>2 DEF ConnectedFile, LanConnected, ConstantsAssumption, lanVars,
              TypeOK, RemoteAgrees, FallbackKept
<1>3. ASSUME NEW s \in Sid, Disconnected(s)
      PROVE  IInv'
  <2>1. /\ peers' \in Sid \cup Lid \cup {None} /\ udpPeers' \in Sid \cup {None}
        /\ online' \in BOOLEAN /\ saving' \subseteq Sid
        /\ RemoteAgrees' /\ FallbackKept'
    BY <1>3, DisconnectKeeps DEF Disconnected
  <2> QED BY <1>3, <2>1 DEF Disconnected, lanVars, TypeOK
<1>4. ASSUME NEW s \in Sid, DisconnectSaved(s)
      PROVE  IInv'
  BY <1>4 DEF DisconnectSaved, lanVars, TypeOK, RemoteAgrees, FallbackKept
<1> QED BY <1>1, <1>2, <1>3, <1>4 DEF Callbacks

LEMMA LanKeeps ==
  ASSUME ConstantsAssumption, IInv, NEW l \in Lid,
         \/ LanHandshake(l) \/ LanAdmit(l) \/ LanOpen(l)
         \/ LanUndo(l) \/ LanClose(l) \/ LanSendFails(l)
  PROVE  IInv'
<1> USE DEF IInv, GoodbyesGone, ConstantsAssumption, udpVars,
            TypeOK, RemoteAgrees, FallbackKept
<1>1. CASE LanHandshake(l)
  BY <1>1 DEF LanHandshake
<1>2. CASE LanAdmit(l)
  <2>1. /\ UNCHANGED <<udpVars, sending, refreshing>>
        /\ online' \in {online, TRUE}
        /\ lan' = [lan EXCEPT ![l] = "closed"]
             \/ lan' = [lan EXCEPT ![l] = "failing"]
             \/ lan' = [lan EXCEPT ![l] = "saving"]
        /\ \/ up' = up \cup {l} /\ peers' = l
           \/ UNCHANGED <<up, peers>>
    BY <1>2 DEF LanAdmit
  <2> QED BY <2>1
<1>3. CASE LanOpen(l)
  BY <1>3 DEF LanOpen
<1>4. CASE LanUndo(l)
  BY <1>4 DEF LanUndo, Fallback
<1>5. CASE LanClose(l)
  BY <1>5 DEF LanClose, Fallback
<1>6. CASE LanSendFails(l)
  BY <1>6 DEF LanSendFails
<1> QED BY <1>1, <1>2, <1>3, <1>4, <1>5, <1>6

LEMMA SendsKeep ==
  ASSUME ConstantsAssumption, IInv, Sends
  PROVE  IInv'
<1> USE DEF IInv, GoodbyesGone
<1>1. CASE Send
  BY <1>1 DEF Send, udpVars, lanVars, TypeOK, RemoteAgrees, FallbackKept
<1>2. ASSUME NEW c \in Sid \cup Lid, Sent(c)
      PROVE  IInv'
  BY <1>2 DEF Sent, udpVars, lanVars, TypeOK, RemoteAgrees, FallbackKept
<1>3. ASSUME NEW s \in Sid, UdpSendFails(s)
      PROVE  IInv'
  <2>1. /\ peers' \in Sid \cup Lid \cup {None} /\ udpPeers' \in Sid \cup {None}
        /\ online' \in BOOLEAN /\ saving' \subseteq Sid
        /\ RemoteAgrees' /\ FallbackKept'
    BY <1>3, DisconnectKeeps DEF UdpSendFails
  <2> QED BY <1>3, <2>1 DEF UdpSendFails, lanVars, TypeOK
<1> QED BY <1>1, <1>2, <1>3 DEF Sends

LEMMA ProfileKeeps ==
  ASSUME IInv, UdpProfile \/ \E l \in Lid : LanProfile(l)
  PROVE  IInv'
BY DEF UdpProfile, LanProfile, SaveProfile, udpVars, lanVars, IInv, TypeOK,
       RemoteAgrees, FallbackKept, GoodbyesGone

LEMMA NetworkKeeps ==
  ASSUME ConstantsAssumption, IInv, Refresh \/ Restart \/ UNCHANGED vars
  PROVE  IInv'
<1> USE DEF IInv, GoodbyesGone, TypeOK, RemoteAgrees, FallbackKept
<1>1. CASE Refresh
  BY <1>1 DEF Refresh, ConstantsAssumption
<1>2. CASE Restart
  BY <1>2 DEF Restart, lanVars
<1>3. CASE UNCHANGED vars
  BY <1>3 DEF vars
<1> QED BY <1>1, <1>2, <1>3

(* The invariant that every step carries through.                          *)
THEOREM Invariant == Spec => []IInv
<1>1. Init => IInv
  BY ConstantsAssumption, InitEstablishes
<1>2. IInv /\ [Next]_vars => IInv'
  BY ConstantsAssumption, TransportKeeps, CallbacksKeep, LanKeeps, SendsKeep,
     ProfileKeeps, NetworkKeeps DEF Next, Lan
<1> QED BY <1>1, <1>2, PTL DEF Spec

(* The variables hold values of their kinds.                               *)
THEOREM Typed == Spec => []TypeOK
BY Invariant, PTL DEF IInv

(* A peer that is used over UDP is used over the session on file.          *)
THEOREM Remote == Spec => []RemoteAgrees
BY Invariant, PTL DEF IInv

(* A peer with a UDP session on file always has a connection in use.       *)
THEOREM FallbackStays == Spec => []FallbackKept
BY Invariant, PTL DEF IInv

----------------------------------------------------------------------------
(* What the is_online column says.                                         *)

(* A session is on file, or about to be, only once it has been confirmed.  *)
FiledConfirmed ==
  /\ \A s \in Sid : connecting[s] # "none" => session[s] # "none"
  /\ udpPeers # None => session[udpPeers] # "none"

(* While a session that exists is on file the peer shows as online, even   *)
(* when a LAN connection is in use: a fallback writes nothing.             *)
ReachableOnline ==
  (peers \in up \/ udpPeers \in Existing) /\ ~AdmissionFailed => online

SavedInv == FiledConfirmed /\ ReachableOnline

LEMMA SavedInitially ==
  ASSUME ConstantsAssumption, Init
  PROVE  SavedInv
BY DEF ConstantsAssumption, Init, SavedInv, FiledConfirmed, ReachableOnline,
       Existing, AdmissionFailed

(* _on_udp_disconnected clears the column only when it leaves the peer     *)
(* without a connection; nothing is on file then.                          *)
LEMMA DisconnectSaves ==
  ASSUME ConstantsAssumption, IInv, SavedInv, NEW s \in Sid, UdpDisconnected(s),
         \A t \in Sid : session'[t] = session[t] \/ session'[t] = "gone",
         UNCHANGED <<connecting, lan, refreshing>>, up' \subseteq up
  PROVE  SavedInv'
<1> USE DEF SavedInv
<1>1. FiledConfirmed'
  BY DEF FiledConfirmed, UdpDisconnected, IInv, TypeOK
<1>2. ReachableOnline'
  <2>1. CASE udpPeers # s
    BY <2>1 DEF UdpDisconnected, ReachableOnline, Existing, AdmissionFailed
  <2>2. CASE udpPeers = s /\ peers = s
    BY <2>2 DEF UdpDisconnected, ReachableOnline, Existing, IInv, TypeOK,
                ConstantsAssumption
  <2>3. CASE udpPeers = s /\ peers # s
    BY <2>3 DEF UdpDisconnected, ReachableOnline, Existing, AdmissionFailed,
                ConstantsAssumption
  <2> QED BY <2>1, <2>2, <2>3
<1> QED BY <1>1, <1>2

LEMMA TransportSaves ==
  ASSUME ConstantsAssumption, IInv, SavedInv, Transport
  PROVE  SavedInv'
<1>0. /\ session \in [Sid -> {"none", "active", "retiring", "gone"}]
      /\ connecting \in [Sid -> {"none", "spawned", "seeding", "done"}]
      /\ udpPeers \in Sid \cup {None} /\ None \notin Sid
  BY DEF IInv, TypeOK, ConstantsAssumption
<1>1. ASSUME NEW s \in Sid, Confirm(s)
      PROVE  SavedInv'
  <2>1. FiledConfirmed'
    BY <1>0, <1>1 DEF Confirm, SavedInv, FiledConfirmed
  <2>2. udpPeers \in Existing' => udpPeers \in Existing
    BY <1>0, <1>1 DEF Confirm, SavedInv, FiledConfirmed, Existing
  <2> QED BY <1>1, <2>1, <2>2 DEF Confirm, SavedInv, ReachableOnline, lanVars,
             AdmissionFailed
<1>2. ASSUME NEW s \in Sid, SessionGoodbye(s)
      PROVE  SavedInv'
  <2>1. FiledConfirmed'
    BY <1>0, <1>2 DEF SessionGoodbye, SavedInv, FiledConfirmed
  <2>2. udpPeers \in Existing' => udpPeers \in Existing
    BY <1>0, <1>2 DEF SessionGoodbye, Existing
  <2> QED BY <1>2, <2>1, <2>2 DEF SessionGoodbye, SavedInv, ReachableOnline,
             lanVars, AdmissionFailed
<1>3. ASSUME NEW s \in Sid, Expire(s)
      PROVE  SavedInv'
  <2>1. \A t \in Sid : session'[t] = session[t] \/ session'[t] = "gone"
    BY <1>0, <1>3 DEF Expire
  <2> QED BY <1>3, <2>1, DisconnectSaves DEF Expire, lanVars
<1> QED BY <1>1, <1>2, <1>3 DEF Transport

LEMMA CallbacksSave ==
  ASSUME ConstantsAssumption, IInv, SavedInv, Callbacks
  PROVE  SavedInv'
<1>0. /\ session \in [Sid -> {"none", "active", "retiring", "gone"}]
      /\ connecting \in [Sid -> {"none", "spawned", "seeding", "done"}]
      /\ None \notin Sid
  BY DEF IInv, TypeOK, ConstantsAssumption
<1> USE DEF SavedInv, FiledConfirmed, ReachableOnline, Existing, AdmissionFailed,
            lanVars
<1>1. ASSUME NEW s \in Sid, Connected(s)
      PROVE  SavedInv'
  BY <1>0, <1>1 DEF Connected
<1>2. ASSUME NEW s \in Sid, ConnectedFile(s)
      PROVE  SavedInv'
  BY <1>0, <1>2 DEF ConnectedFile, LanConnected, IInv, TypeOK, ConstantsAssumption
<1>3. ASSUME NEW s \in Sid, Disconnected(s)
      PROVE  SavedInv'
  BY <1>3, DisconnectSaves DEF Disconnected
<1>4. ASSUME NEW s \in Sid, DisconnectSaved(s)
      PROVE  SavedInv'
  <2>1. UNCHANGED <<session, connecting, lan, up, peers, udpPeers, refreshing>>
    BY <1>4 DEF DisconnectSaved
  <2>2. CASE peers = None
    <3>1. online' = online
      BY <1>4, <2>2 DEF DisconnectSaved, IInv, FallbackKept
    <3> QED BY <2>1, <3>1
  <2>3. CASE peers # None
    <3>1. online' = TRUE
      BY <1>4, <2>3 DEF DisconnectSaved
    <3> QED BY <2>1, <2>3, <3>1
  <2> QED BY <2>2, <2>3
<1> QED BY <1>1, <1>2, <1>3, <1>4 DEF Callbacks

LEMMA LanSaves ==
  ASSUME ConstantsAssumption, IInv, SavedInv, NEW l \in Lid,
         \/ LanHandshake(l) \/ LanAdmit(l) \/ LanOpen(l)
         \/ LanUndo(l) \/ LanClose(l) \/ LanSendFails(l)
  PROVE  SavedInv'
<1>0. /\ lan \in [Lid -> {"none", "seeding", "saving", "failing", "undone",
                          "open", "closed"}]
      /\ peers \in Sid \cup Lid \cup {None} /\ udpPeers \in Sid \cup {None}
      /\ up \subseteq Lid /\ Sid \cap Lid = {} /\ None \notin Sid \cup Lid
      /\ FallbackKept /\ RemoteAgrees
  BY DEF IInv, TypeOK, ConstantsAssumption
<1>1. FiledConfirmed' /\ UNCHANGED <<udpPeers, session, refreshing>>
  BY DEF LanHandshake, LanAdmit, LanOpen, LanUndo, LanClose, LanSendFails, udpVars,
         SavedInv, FiledConfirmed
<1>2. AdmissionFailed => AdmissionFailed'
  BY <1>0 DEF LanHandshake, LanAdmit, LanOpen, LanUndo, LanClose, LanSendFails,
              AdmissionFailed
<1> USE DEF SavedInv, ReachableOnline, Existing
<1>3. CASE LanHandshake(l) \/ LanOpen(l)
  BY <1>1, <1>2, <1>3 DEF LanHandshake, LanOpen
<1>4. CASE LanAdmit(l)
  <2>1. PICK full \in BOOLEAN, fails \in BOOLEAN :
          LET admitted == ~LanConnected /\ ~(peers = None /\ full)
          IN  /\ lan' = [lan EXCEPT ![l] = IF ~admitted THEN "closed"
                                 ELSE IF fails THEN "failing" ELSE "saving"]
              /\ IF admitted THEN up' = up \cup {l} /\ peers' = l
                             ELSE UNCHANGED <<up, peers>>
              /\ online' = IF admitted /\ ~fails THEN TRUE ELSE online
    BY <1>4 DEF LanAdmit
  <2>2. CASE UNCHANGED <<up, peers, online>>
    BY <1>1, <1>2, <2>2
  <2>3. CASE peers' = l /\ online' = TRUE
    BY <1>0, <1>1, <2>3
  <2>4. CASE lan' = [lan EXCEPT ![l] = "failing"]
    BY <1>0, <1>1, <2>4 DEF AdmissionFailed
  <2> QED BY <1>0, <2>1, <2>2, <2>3, <2>4
<1>5. CASE LanUndo(l)
  BY <1>0, <1>1, <1>5 DEF LanUndo, AdmissionFailed
<1>6. CASE LanClose(l)
  BY <1>0, <1>1, <1>2, <1>6 DEF LanClose, Fallback, FallbackKept
<1>7. CASE LanSendFails(l)
  BY <1>0, <1>1, <1>2, <1>7 DEF LanSendFails
<1> QED BY <1>3, <1>4, <1>5, <1>6, <1>7

LEMMA OthersSave ==
  ASSUME ConstantsAssumption, IInv, SavedInv,
         \/ UdpProfile \/ (\E l \in Lid : LanProfile(l))
         \/ Sends \/ Refresh \/ Restart \/ UNCHANGED vars
  PROVE  SavedInv'
<1>0. /\ session \in [Sid -> {"none", "active", "retiring", "gone"}]
      /\ udpPeers \in Sid \cup {None} /\ up \subseteq Lid
      /\ peers \in Sid \cup Lid \cup {None}
      /\ Sid \cap Lid = {} /\ None \notin Sid \cup Lid
  BY DEF IInv, TypeOK, ConstantsAssumption
<1>1. ASSUME NEW s \in Sid, UdpSendFails(s)
      PROVE  SavedInv'
  BY <1>1, DisconnectSaves DEF UdpSendFails, lanVars
<1> USE DEF SavedInv, FiledConfirmed, ReachableOnline, Existing, AdmissionFailed
<1>2. ASSUME Send \/ \E c \in Sid \cup Lid : Sent(c)
      PROVE  SavedInv'
  BY <1>2 DEF Send, Sent, udpVars, lanVars
<1>3. CASE Refresh
  BY <1>0, <1>3 DEF Refresh
<1>4. CASE Restart
  BY <1>0, <1>4 DEF Restart, lanVars
<1>5. CASE UNCHANGED vars
  BY <1>5 DEF vars
<1>6. CASE UdpProfile \/ \E l \in Lid : LanProfile(l)
  BY <1>6 DEF UdpProfile, LanProfile, SaveProfile, udpVars, lanVars
<1> QED BY <1>1, <1>2, <1>3, <1>4, <1>5, <1>6 DEF Sends

(* The invariant behind what is shown of a peer that is connected.         *)
THEOREM SavedInvariant == Spec => []SavedInv
<1>1. Init => SavedInv
  BY ConstantsAssumption, SavedInitially
<1>2. IInv /\ SavedInv /\ [Next]_vars => SavedInv'
  BY ConstantsAssumption, TransportSaves, CallbacksSave, LanSaves, OthersSave
     DEF Next, Lan
<1> QED BY <1>1, <1>2, Invariant, PTL DEF Spec

(* A connection that works shows as online in the database.                *)
THEOREM OnlineSaved == Spec => []OnlineIsSaved
<1>1. IInv /\ SavedInv => OnlineIsSaved
  BY DEF IInv, SavedInv, ReachableOnline, OnlineIsSaved, RemoteAgrees, TypeOK,
         Existing
<1> QED BY <1>1, Invariant, SavedInvariant, PTL

----------------------------------------------------------------------------
OfflineStep == ~GhostOnline /\ GhostOnline' => \E l \in Lid : LanProfile(l)

LEMMA StepKeepsOffline ==
  ASSUME ConstantsAssumption, IInv, [Next]_vars
  PROVE  OfflineStep
<1> USE DEF OfflineStep, GhostOnline
<1>0. /\ lan \in [Lid -> {"none", "seeding", "saving", "failing", "undone",
                          "open", "closed"}]
      /\ up \subseteq Lid /\ peers \in Sid \cup Lid \cup {None}
      /\ Sid \cap Lid = {} /\ None \notin Sid \cup Lid
      /\ FallbackKept
  BY DEF IInv, TypeOK, ConstantsAssumption
<1>1. UNCHANGED <<peers, online, lan, refreshing>> => OfflineStep
  BY DEF AdmissionFailed
<1>2. ASSUME NEW s \in Sid, UdpDisconnected(s), UNCHANGED <<lan, refreshing>>
      PROVE  OfflineStep
  <2>1. AdmissionFailed' = AdmissionFailed
    BY <1>2 DEF AdmissionFailed
  <2>2. UNCHANGED <<peers, online>> \/ online' = FALSE
    BY <1>2 DEF UdpDisconnected
  <2> QED BY <1>2, <2>1, <2>2
<1>3. CASE Transport
  BY <1>1, <1>2, <1>3 DEF Transport, Confirm, SessionGoodbye, Expire, lanVars
<1>4. CASE Callbacks
  <2>1. ASSUME NEW s \in Sid, ConnectedFile(s)
        PROVE  OfflineStep
    BY <1>0, <2>1 DEF ConnectedFile, LanConnected
  <2>2. ASSUME NEW s \in Sid, DisconnectSaved(s)
        PROVE  OfflineStep
    BY <2>2 DEF DisconnectSaved, IInv, FallbackKept, AdmissionFailed, lanVars
  <2> QED BY <1>1, <1>2, <1>4, <2>1, <2>2
          DEF Callbacks, Connected, Disconnected, lanVars
<1>5. ASSUME NEW l \in Lid,
             \/ LanHandshake(l) \/ LanAdmit(l) \/ LanOpen(l)
             \/ LanUndo(l) \/ LanClose(l) \/ LanSendFails(l)
      PROVE  OfflineStep
  <2>1. AdmissionFailed => AdmissionFailed'
    BY <1>0, <1>5 DEF LanHandshake, LanAdmit, LanOpen, LanUndo, LanClose,
                      LanSendFails, AdmissionFailed
  <2>2. refreshing' = refreshing
    BY <1>5 DEF LanHandshake, LanAdmit, LanOpen, LanUndo, LanClose, LanSendFails
  <2>3. CASE LanHandshake(l) \/ LanOpen(l)
    BY <2>1, <2>2, <2>3 DEF LanHandshake, LanOpen
  <2>4. CASE LanAdmit(l)
    <3>1. peers' = l \/ UNCHANGED <<peers, online>>
      BY <2>4 DEF LanAdmit
    <3> QED BY <1>0, <2>1, <2>2, <3>1
  <2>5. CASE LanUndo(l)
    BY <1>0, <2>5 DEF LanUndo, AdmissionFailed
  <2>6. CASE LanClose(l)
    <3>1. UNCHANGED <<peers, online>> \/ online' = FALSE \/ peers' # None
      BY <2>6 DEF LanClose
    <3> QED BY <2>1, <2>2, <3>1
  <2>7. CASE LanSendFails(l)
    BY <1>0, <2>1, <2>2, <2>7 DEF LanSendFails
  <2> QED BY <1>5, <2>3, <2>4, <2>5, <2>6, <2>7
<1>6. CASE Sends
  BY <1>1, <1>2, <1>6 DEF Sends, Send, Sent, UdpSendFails, lanVars
<1>7. CASE UdpProfile
  BY <1>0, <1>7 DEF UdpProfile, SaveProfile, FallbackKept
<1>8. CASE Refresh
  BY <1>8 DEF Refresh
<1>9. CASE Restart
  BY <1>0, <1>9 DEF Restart
<1>10. CASE UNCHANGED vars
  BY <1>1, <1>10 DEF vars
<1>11. CASE \E l \in Lid : LanProfile(l)
  BY <1>11
<1> QED BY <1>3, <1>4, <1>5, <1>6, <1>7, <1>8, <1>9, <1>10, <1>11 DEF Next, Lan

(* What takes the last connection of a peer away also writes offline, and  *)
(* only a PROFILE over a LAN connection no longer on file writes online.   *)
THEOREM OfflineSaved == Spec => OfflineIsSaved
<1>1. IInv /\ [Next]_vars => [OfflineStep]_vars
  BY ConstantsAssumption, StepKeepsOffline
<1> QED BY <1>1, Invariant, PTL DEF Spec, OfflineIsSaved, OfflineStep

----------------------------------------------------------------------------
HandoffStep ==
  udpPeers # None /\ udpPeers' = None
    => \/ session'[udpPeers] = "gone"
       \/ udpPeers \in sending \ sending'
       \/ refreshing'

LEMMA StepKeepsHandoff ==
  ASSUME ConstantsAssumption, IInv, [Next]_vars
  PROVE  HandoffStep
<1> USE DEF HandoffStep
<1>0. /\ session \in [Sid -> {"none", "active", "retiring", "gone"}]
      /\ sending \subseteq Sid \cup Lid
      /\ udpPeers \in Sid \cup {None} /\ None \notin Sid
  BY DEF IInv, TypeOK, ConstantsAssumption
<1>1. UNCHANGED udpPeers => HandoffStep
  OBVIOUS
<1>2. \A s \in Sid : UdpDisconnected(s) => udpPeers' = udpPeers \/ udpPeers = s
  BY DEF UdpDisconnected
<1>3. CASE Transport
  <2>1. ASSUME NEW s \in Sid, Expire(s)
        PROVE  HandoffStep
    BY <1>0, <1>2, <2>1 DEF Expire
  <2> QED BY <1>1, <1>3, <2>1 DEF Transport, Confirm, SessionGoodbye
<1>4. CASE Callbacks
  <2>1. ASSUME NEW s \in Sid, Disconnected(s)
        PROVE  HandoffStep
    BY <1>0, <1>2, <2>1 DEF Disconnected, IInv, GoodbyesGone
  <2>2. ASSUME NEW s \in Sid, ConnectedFile(s)
        PROVE  HandoffStep
    BY <1>0, <2>2 DEF ConnectedFile
  <2> QED BY <1>1, <1>4, <2>1, <2>2 DEF Callbacks, Connected, DisconnectSaved
<1>5. CASE Lan
  BY <1>1, <1>5 DEF Lan, LanHandshake, LanAdmit, LanOpen, LanUndo, LanClose,
                    LanSendFails, LanProfile, SaveProfile, udpVars
<1>6. CASE Sends
  <2>1. ASSUME NEW s \in Sid, UdpSendFails(s)
        PROVE  HandoffStep
    BY <1>0, <1>2, <2>1 DEF UdpSendFails
  <2> QED BY <1>1, <1>6, <2>1 DEF Sends, Send, Sent, udpVars
<1>7. CASE UdpProfile \/ Refresh \/ Restart \/ UNCHANGED vars
  BY <1>1, <1>7 DEF UdpProfile, SaveProfile, udpVars, Refresh, Restart, vars
<1> QED BY <1>3, <1>4, <1>5, <1>6, <1>7 DEF Next

(* A late notice about a former route never removes the session on file.   *)
THEOREM HandoffsKept == Spec => HandoffKept
<1>1. IInv /\ [Next]_vars => [HandoffStep]_vars
  BY ConstantsAssumption, StepKeepsHandoff
<1> QED BY <1>1, Invariant, PTL DEF Spec, HandoffKept, HandoffStep

LanStep ==
  peers' # peers /\ peers \in up \cap up'
    => (sending \ sending') \cap (Lid \ {peers}) # {}

LEMMA StepKeepsLan ==
  ASSUME ConstantsAssumption, IInv, [Next]_vars
  PROVE  LanStep
<1> USE DEF LanStep
<1>0. up \subseteq Lid /\ Sid \cap Lid = {}
  BY DEF IInv, TypeOK, ConstantsAssumption
<1>1. UNCHANGED peers => LanStep
  OBVIOUS
<1>2. \A s \in Sid : UdpDisconnected(s) => LanStep
  BY <1>0 DEF UdpDisconnected
<1>3. CASE Transport
  BY <1>1, <1>2, <1>3 DEF Transport, Confirm, SessionGoodbye, Expire
<1>4. CASE Callbacks
  <2>1. ASSUME NEW s \in Sid, ConnectedFile(s)
        PROVE  LanStep
    BY <2>1 DEF ConnectedFile, LanConnected
  <2> QED BY <1>1, <1>2, <1>4, <2>1
          DEF Callbacks, Connected, Disconnected, DisconnectSaved
<1>5. ASSUME NEW l \in Lid,
             \/ LanHandshake(l) \/ LanAdmit(l) \/ LanOpen(l)
             \/ LanUndo(l) \/ LanClose(l) \/ LanProfile(l)
      PROVE  LanStep
  BY <1>1, <1>5 DEF LanHandshake, LanAdmit, LanOpen, LanUndo, LanClose,
                    LanProfile, SaveProfile, LanConnected
<1>6. ASSUME NEW l \in Lid, LanSendFails(l)
      PROVE  LanStep
  BY <1>6 DEF LanSendFails
<1>7. CASE Sends
  BY <1>1, <1>2, <1>7 DEF Sends, Send, Sent, UdpSendFails
<1>8. CASE UdpProfile \/ Refresh \/ Restart \/ UNCHANGED vars
  BY <1>1, <1>8 DEF UdpProfile, SaveProfile, Refresh, Restart, vars
<1> QED BY <1>3, <1>4, <1>5, <1>6, <1>7, <1>8 DEF Next, Lan

(* A LAN connection that works is not displaced by a UDP session, by a     *)
(* callback or by another admission.                                       *)
THEOREM LanIsKept == Spec => LanKept
<1>1. IInv /\ [Next]_vars => [LanStep]_vars
  BY ConstantsAssumption, StepKeepsLan
<1> QED BY <1>1, Invariant, PTL DEF Spec, LanKept, LanStep
=============================================================================
