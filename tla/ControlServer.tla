---------------------------- MODULE ControlServer ----------------------------
(***************************************************************************)
(* The control service in its Bun runtime (control/src/index.ts): a device *)
(* connects, registers its identity, joins rooms, leaves one encrypted     *)
(* card per room with the service, and has datagrams relayed to devices it *)
(* shares a room with.  Every handler is synchronous, hence one action; a  *)
(* message the service does not accept ends the connection.                *)
(*                                                                         *)
(* Cards are known by their length.  Signatures and challenges are reduced *)
(* to whether a registration is valid.  The rate limits and the relay's    *)
(* bandwidth depend on the clock: a message may always be one too many,    *)
(* which closes the connection as any error does (Close), and a frame may  *)
(* always exceed the bandwidth (Relay).                                    *)
(***************************************************************************)
EXTENDS Integers, FiniteSets

CONSTANTS
  Socket,             \* WebSocket connections
  Peer,               \* device identities
  Room, Auth,         \* room ids, and the capabilities invites derive
  Ip, IpOf,           \* the address a socket connects from
  None,
  MaxConnections, MaxPerIp, MaxRooms, MaxRoomsPerClient, MaxMembers,
  MaxSignal,          \* MAX_SIGNAL_LENGTH
  MaxRetained,        \* MAX_RETAINED_BYTES
  MaxRelayPeers,      \* MAX_RELAY_PEERS_PER_DEVICE
  RelayEnabled        \* CONTROL_RELAY_ENABLED

(* Assumed by the module that instantiates this one.                       *)
ConstantsFit ==
  /\ None \notin Socket \cup Peer \cup Auth
  /\ IpOf \in [Socket -> Ip]
  /\ IsFiniteSet(Socket) /\ IsFiniteSet(Peer) /\ IsFiniteSet(Room)
  /\ {MaxConnections, MaxPerIp, MaxRooms, MaxRoomsPerClient, MaxMembers,
      MaxSignal, MaxRetained, MaxRelayPeers} \subseteq Nat \ {0}
  /\ RelayEnabled \in BOOLEAN

(* The messages of the protocol; "other" is anything malformed.            *)
Message ==
  [type : {"device_register"}, peer : Peer, valid : BOOLEAN]
    \cup [type : {"join"}, room : Room, auth : Auth]
    \cup [type : {"leave", "get_peers"}, room : Room]
    \cup [type : {"signal"}, room : Room, length : 0 .. MaxSignal + 1]
    \cup [type : {"relay"}, to : Peer]
    \cup [type : {"other"}]

VARIABLES
  open,         \* sockets that are connected and not closed
  peer,         \* data.peerId
  joined,       \* data.rooms
  signals,      \* lengths of data.signals, 0 if there is none
  members,      \* rooms, those without members do not exist
  auth,         \* the capability a room was created with
  owner,        \* socketsByPeerId
  limited,      \* the devices in deviceLimits
  relayPeers,   \* deviceLimits[...].relayPeers
  connections, byIp, retained   \* the counters of the service

roomVars == <<joined, signals, members, auth, retained>>
deviceVars == <<peer, owner, limited, relayPeers>>
countVars == <<open, connections, byIp>>
vars == <<roomVars, deviceVars, countVars>>

NoSignals == [r \in Room |-> 0]

Init ==
  /\ open = {} /\ connections = 0 /\ byIp = [i \in Ip |-> 0]
  /\ peer = [s \in Socket |-> None]
  /\ joined = [s \in Socket |-> {}]
  /\ signals = [s \in Socket |-> NoSignals]
  /\ members = [r \in Room |-> {}] /\ auth = [r \in Room |-> None]
  /\ owner = [p \in Peer |-> None]
  /\ limited = {} /\ relayPeers = [p \in Peer |-> {}]
  /\ retained = 0

----------------------------------------------------------------------------
(* Connections.                                                            *)

Connect(s) ==
  /\ s \notin open
  /\ connections < MaxConnections /\ byIp[IpOf[s]] < MaxPerIp
  /\ open' = open \cup {s}
  /\ connections' = connections + 1
  /\ byIp' = [byIp EXCEPT ![IpOf[s]] = @ + 1]
  /\ UNCHANGED <<roomVars, deviceVars>>

(* The bytes of the cards that socket s left in rooms.                     *)
LengthOver(s, rooms) ==
  Cardinality({c \in rooms \X (1 .. MaxSignal) : c[2] <= signals[s][c[1]]})

Without(s, rooms) ==
  [r \in Room |-> IF r \in rooms THEN members[r] \ {s} ELSE members[r]]

(* Socket s leaves rooms, with the cards it left there.                    *)
LeaveRooms(s, rooms) ==
  /\ members' = Without(s, rooms)
  /\ auth' = [r \in Room |-> IF Without(s, rooms)[r] = {} THEN None ELSE auth[r]]
  /\ joined' = [joined EXCEPT ![s] = @ \ rooms]
  /\ signals' = [signals EXCEPT
                   ![s] = [r \in Room |-> IF r \in rooms THEN 0 ELSE @[r]]]
  /\ retained' = retained - LengthOver(s, rooms)

Uncount(s) ==
  /\ open' = open \ {s}
  /\ connections' = IF connections > 0 THEN connections - 1 ELSE 0
  /\ byIp' = [byIp EXCEPT ![IpOf[s]] = IF @ > 1 THEN @ - 1 ELSE 0]

(* closeClient when own says which sockets the devices have and lim which  *)
(* have quotas: the device of a socket that closes loses its quotas and    *)
(* its slots with others, unless a newer session has taken it over.        *)
CloseClient(s, own, lim) ==
  LET left == {p \in Peer : own[p] = s /\ peer[s] = p}
  IN  /\ Uncount(s)
      /\ LeaveRooms(s, joined[s])
      /\ owner' = [p \in Peer |-> IF p \in left THEN None ELSE own[p]]
      /\ limited' = lim \ left
      /\ relayPeers' = [p \in Peer |-> IF p \in left THEN {}
                                       ELSE relayPeers[p] \ left]

Close(s) ==
  /\ s \in open
  /\ CloseClient(s, owner, limited)
  /\ peer' = [peer EXCEPT ![s] = None]

----------------------------------------------------------------------------
(* Registration.                                                           *)

Registrable(s, m) == m.valid /\ peer[s] \in {None, m.peer}

(* The newer session takes the device over, before the older is closed.    *)
Register(s, p) ==
  LET own == [owner EXCEPT ![p] = s]
      previous == owner[p]
  IN  \/ /\ previous \in {None, s}
         /\ owner' = own
         /\ limited' = limited \cup {p}
         /\ peer' = [peer EXCEPT ![s] = p]
         /\ UNCHANGED <<relayPeers, roomVars, countVars>>
      \/ /\ previous \notin {None, s}
         /\ CloseClient(previous, own, limited \cup {p})
         /\ peer' = [peer EXCEPT ![s] = p, ![previous] = None]

----------------------------------------------------------------------------
(* Rooms.                                                                  *)

Existing == {r \in Room : members[r] # {}}

MayJoin(s, m) ==
  \/ m.room \in joined[s]
  \/ /\ Cardinality(joined[s]) < MaxRoomsPerClient
     /\ m.room \notin Existing => Cardinality(Existing) < MaxRooms
     /\ m.room \in Existing =>
          auth[m.room] = m.auth /\ Cardinality(members[m.room]) < MaxMembers

Join(s, r, a) ==
  /\ IF r \in joined[s] THEN UNCHANGED <<members, auth, joined>>
     ELSE /\ members' = [members EXCEPT ![r] = @ \cup {s}]
          /\ auth' = [auth EXCEPT ![r] = a]
          /\ joined' = [joined EXCEPT ![s] = @ \cup {r}]
  /\ UNCHANGED <<signals, retained, deviceVars, countVars>>

Leave(s, r) ==
  /\ LeaveRooms(s, {r} \cap Existing)
  /\ UNCHANGED <<deviceVars, countVars>>

MaySignal(s, m) ==
  /\ m.room \in joined[s] /\ m.length \in 1 .. MaxSignal
  /\ retained - signals[s][m.room] + m.length <= MaxRetained

Signal(s, r, length) ==
  /\ signals' = [signals EXCEPT ![s][r] = length]
  /\ retained' = retained + length - signals[s][r]
  /\ UNCHANGED <<joined, members, auth, deviceVars, countVars>>

----------------------------------------------------------------------------
(* The relay.                                                              *)

ShareRoom(s, p) ==
  peer[s] # p /\ \E r \in joined[s] : \E t \in members[r] : peer[t] = p

(* The frame goes through if the recipient can be reached; both must have  *)
(* quotas.                                                                 *)
Reaches(s, p) == ShareRoom(s, p) /\ owner[p] # None

MayRelay(s, m) ==
  RelayEnabled /\ (Reaches(s, m.to) => {peer[s], m.to} \subseteq limited)

(* Slots of peers that were idle are freed first; the frame is dropped if  *)
(* the bandwidth or the slots are used up.                                 *)
Relay(s, p) ==
  LET from == peer[s]
  IN  \/ ~Reaches(s, p) /\ UNCHANGED vars
      \/ /\ Reaches(s, p)
         /\ \E kept \in SUBSET relayPeers[from] :
              \/ relayPeers' = [relayPeers EXCEPT ![from] = kept]
              \/ /\ p \in kept \/ Cardinality(kept) < MaxRelayPeers
                 /\ relayPeers' = [relayPeers EXCEPT ![from] = kept \cup {p}]
         /\ UNCHANGED <<peer, owner, limited, roomVars, countVars>>

----------------------------------------------------------------------------
(* What the service accepts of socket s, and what it does with it.         *)

(* checkRateLimit and checkRelayRateLimit: it depends on the clock whether *)
(* a message is one too many in its window.                                *)
OneTooMany(s) == Close(s)

(* fetchPeers answers with the cards of the room.                          *)
FetchPeers == UNCHANGED vars

Accepted(s, m) ==
  CASE m.type = "device_register" -> Registrable(s, m)
    [] m.type = "join"      -> peer[s] # None /\ MayJoin(s, m)
    [] m.type = "leave"     -> peer[s] # None
    [] m.type = "get_peers" -> peer[s] # None /\ m.room \in joined[s]
    [] m.type = "signal"    -> peer[s] # None /\ MaySignal(s, m)
    [] m.type = "relay"     -> peer[s] # None /\ MayRelay(s, m)
    [] m.type = "other"     -> FALSE

Apply(s, m) ==
  \/ m.type = "device_register" /\ Register(s, m.peer)
  \/ m.type = "join" /\ Join(s, m.room, m.auth)
  \/ m.type = "leave" /\ Leave(s, m.room)
  \/ m.type = "get_peers" /\ FetchPeers
  \/ m.type = "signal" /\ Signal(s, m.room, m.length)
  \/ m.type = "relay" /\ Relay(s, m.to)

Handle(s, m) ==
  /\ s \in open
  /\ \/ Accepted(s, m) /\ Apply(s, m)
     \/ ~Accepted(s, m) /\ Close(s)

Next ==
  \E s \in Socket :
    \/ Connect(s) \/ Close(s) \/ OneTooMany(s)
    \/ \E m \in Message : Handle(s, m)

Spec == Init /\ [][Next]_vars
=============================================================================
