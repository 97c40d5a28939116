---------------------------- MODULE ControlWorker ----------------------------
(***************************************************************************)
(* The control service as a Cloudflare Durable Object                      *)
(* (control/src/worker.ts), the second runtime of the protocol of          *)
(* ControlServer.  Checking a signature awaits the crypto library, so      *)
(* messages wait in a queue while a registration is verified, and a        *)
(* connection may close with messages of its own in the queue or in work.  *)
(* Admission bounds what waits.                                            *)
(*                                                                         *)
(* Bytes that wait are bounded like messages and counted as such.          *)
(***************************************************************************)
EXTENDS Integers, Sequences, FiniteSets

CONSTANTS
  Socket, Peer, Room, Auth, Ip, IpOf, None,
  MaxConnections, MaxPerIp, MaxRooms, MaxRoomsPerClient, MaxMembers,
  MaxSignal, MaxRetained, MaxRelayPeers, RelayEnabled,
  MaxPending,            \* MAX_PENDING_MESSAGES
  MaxPendingPerClient,   \* MAX_PENDING_MESSAGES_PER_CLIENT
  MaxPendingPerIp        \* MAX_PENDING_MESSAGES_PER_IP

VARIABLES
  clients,         \* the ClientData of a socket
  rooms, auth,     \* members and capability of a room
  socketsByPeerId,
  deviceLimits,    \* the relayPeers of a device with quotas
  connections, connectionsByIp, retainedBytes,
  queue,           \* messages that wait
  running,         \* the registration that is being verified
  pendingMessages, pendingByClient, pendingByIp

dataVars == <<clients, rooms, auth, retainedBytes>>
deviceVars == <<socketsByPeerId, deviceLimits>>
countVars == <<connections, connectionsByIp>>
queueVars == <<queue, running, pendingMessages, pendingByClient, pendingByIp>>
vars == <<dataVars, deviceVars, countVars, queueVars>>

Connected == {s \in Socket : clients[s] # None}
PeerOf(s) == IF clients[s] = None THEN None ELSE clients[s].peer
RoomsOf(s) == IF clients[s] = None THEN {} ELSE clients[s].rooms
SignalsOf(s) ==
  IF clients[s] = None THEN [r \in Room |-> 0] ELSE clients[s].signals
Limited == {p \in Peer : deviceLimits[p] # None}

(* The two runtimes cannot be told apart (worker.ts:3-6).                  *)
Server == INSTANCE ControlServer WITH
  open <- Connected,
  peer <- [s \in Socket |-> PeerOf(s)],
  joined <- [s \in Socket |-> RoomsOf(s)],
  signals <- [s \in Socket |-> SignalsOf(s)],
  members <- rooms,
  owner <- socketsByPeerId,
  limited <- Limited,
  relayPeers <- [p \in Peer |-> IF p \in Limited THEN deviceLimits[p] ELSE {}],
  byIp <- connectionsByIp,
  retained <- retainedBytes

Message == Server!Message
Entry == [socket : Socket, message : Message]
Client == [peer : Peer \cup {None}, rooms : SUBSET Room,
           signals : [Room -> 0 .. MaxSignal]]

ASSUME ConstantsAssumption ==
  /\ Server!ConstantsFit
  /\ {MaxPending, MaxPendingPerClient, MaxPendingPerIp} \subseteq Nat \ {0}
  /\ None \notin Client /\ None \notin Entry
  /\ \A P \in SUBSET Peer : None # P

Init ==
  /\ clients = [s \in Socket |-> None]
  /\ rooms = [r \in Room |-> {}] /\ auth = [r \in Room |-> None]
  /\ socketsByPeerId = [p \in Peer |-> None]
  /\ deviceLimits = [p \in Peer |-> None]
  /\ connections = 0 /\ connectionsByIp = [i \in Ip |-> 0]
  /\ retainedBytes = 0
  /\ queue = <<>> /\ running = None /\ pendingMessages = 0
  /\ pendingByClient = [s \in Socket |-> 0] /\ pendingByIp = [i \in Ip |-> 0]

----------------------------------------------------------------------------
(* The queue.                                                              *)

From(i) == {s \in Socket : IpOf[s] = i}

(* How many entries of q are of the sockets S.                             *)
Count(q, S) == Cardinality({n \in DOMAIN q : q[n].socket \in S})
Queued(q, s) == Count(q, {s})

(* What is left of q, in order, without the entries of the sockets gone.   *)
Filtered(q, gone) ==
  LET kept == {n \in DOMAIN q : q[n].socket \notin gone}
      rank(n) == Cardinality({m \in kept : m <= n})
  IN  [k \in 1 .. Cardinality(kept) |-> q[CHOOSE n \in kept : rank(n) = k]]

(* How many of the messages that a step releases are of the sockets S: it  *)
(* drops the entries of closing from q, and done holds the socket whose    *)
(* message was handled.                                                    *)
Freed(q, closing, done, S) == Count(q, S \cap closing) + Cardinality(S \cap done)

(* releasePending, for each of them.                                       *)
Release(q, closing, done) ==
  /\ pendingMessages' = pendingMessages - Freed(q, closing, done, Socket)
  /\ pendingByClient' =
       [s \in Socket |-> pendingByClient[s] - Freed(q, closing, done, {s})]
  /\ pendingByIp' =
       [i \in Ip |-> pendingByIp[i] - Freed(q, closing, done, From(i))]

(* Mutant of Settle: the messages of a closing connection are dropped      *)
(* without being released.                                                 *)
SettleUnreleased(q, closing, done) ==
  queue' = Filtered(q, closing) /\ Release(q, {}, done)

(* q, the rest of the queue, loses the entries of the sockets that close.  *)
Settle(q, closing, done) ==
  queue' = Filtered(q, closing) /\ Release(q, closing, done)

Full(s) ==
  \/ pendingMessages >= MaxPending
  \/ pendingByClient[s] >= MaxPendingPerClient
  \/ pendingByIp[IpOf[s]] >= MaxPendingPerIp

----------------------------------------------------------------------------
(* Connections.                                                            *)

Connect(s) ==
  /\ clients[s] = None /\ pendingByClient[s] = 0
  /\ connections < MaxConnections /\ connectionsByIp[IpOf[s]] < MaxPerIp
  /\ clients' = [clients EXCEPT
       ![s] = [peer |-> None, rooms |-> {}, signals |-> [r \in Room |-> 0]]]
  /\ connections' = connections + 1
  /\ connectionsByIp' = [connectionsByIp EXCEPT ![IpOf[s]] = @ + 1]
  /\ UNCHANGED <<rooms, auth, retainedBytes, deviceVars, queueVars>>

(* The bytes of the cards that the sockets S left with the service.        *)
Bytes(S) ==
  Cardinality({c \in S \X Room \X (1 .. MaxSignal) :
                 c[3] <= clients[c[1]].signals[c[2]]})
AtLeastZero(n) == IF n > 0 THEN n ELSE 0

(* Mutant of HandleClose: the device of a closed socket loses its quotas   *)
(* even when a newer session owns it.                                      *)
HandleCloseUnowned(gone, cl, own, limits) ==
  LET rest == [r \in Room |-> rooms[r] \ gone]
      left == {cl[s].peer : s \in gone} \ {None}
  IN  /\ clients' = [s \in Socket |-> IF s \in gone THEN None ELSE cl[s]]
      /\ rooms' = rest
      /\ auth' = [r \in Room |-> IF rest[r] = {} THEN None ELSE auth[r]]
      /\ retainedBytes' = retainedBytes - Bytes(gone)
      /\ connections' = AtLeastZero(connections - Cardinality(gone))
      /\ connectionsByIp' = [i \in Ip |-> AtLeastZero(
           connectionsByIp[i] - Cardinality({s \in gone : IpOf[s] = i}))]
      /\ socketsByPeerId' =
           [p \in Peer |-> IF p \in left THEN None ELSE own[p]]
      /\ deviceLimits' = [p \in Peer |->
           IF p \in left \/ limits[p] = None THEN None ELSE limits[p] \ left]

(* handleClose of the sockets gone, none or one, when cl, own and limits   *)
(* are the clients, socketsByPeerId and deviceLimits: the device of such a *)
(* socket loses its quotas and its slots with others, unless a newer       *)
(* session has taken it over.                                              *)
HandleClose(gone, cl, own, limits) ==
  LET rest == [r \in Room |-> rooms[r] \ gone]
      left == {p \in Peer : own[p] \in gone /\ cl[own[p]].peer = p}
  IN  /\ clients' = [s \in Socket |-> IF s \in gone THEN None ELSE cl[s]]
      /\ rooms' = rest
      /\ auth' = [r \in Room |-> IF rest[r] = {} THEN None ELSE auth[r]]
      /\ retainedBytes' = retainedBytes - Bytes(gone)
      /\ connections' = AtLeastZero(connections - Cardinality(gone))
      /\ connectionsByIp' = [i \in Ip |-> AtLeastZero(
           connectionsByIp[i] - Cardinality({s \in gone : IpOf[s] = i}))]
      /\ socketsByPeerId' =
           [p \in Peer |-> IF p \in left THEN None ELSE own[p]]
      /\ deviceLimits' = [p \in Peer |->
           IF p \in left \/ limits[p] = None THEN None ELSE limits[p] \ left]

Reject(gone) == HandleClose(gone, clients, socketsByPeerId, deviceLimits)

(* The connection closes, fails, or sends what is not admitted: too large, *)
(* no JSON object, or one too many that wait.                              *)
Close(s) ==
  /\ clients[s] # None
  /\ Reject({s}) /\ Settle(queue, {s}, {})
  /\ UNCHANGED running

----------------------------------------------------------------------------
(* Admission.                                                              *)

(* checkRateLimit and checkRelayRateLimit: it depends on the clock whether *)
(* a message is one too many in its window.                                *)
OneTooMany(s) == Close(s)

Admit(s, m) ==
  /\ clients[s] # None /\ ~Full(s)
  /\ queue' = Append(queue, [socket |-> s, message |-> m])
  /\ pendingMessages' = pendingMessages + 1
  /\ pendingByClient' = [pendingByClient EXCEPT ![s] = @ + 1]
  /\ pendingByIp' = [pendingByIp EXCEPT ![IpOf[s]] = @ + 1]
  /\ UNCHANGED <<dataVars, deviceVars, countVars, running>>

----------------------------------------------------------------------------
(* handleMessage of the head of the queue, while none is in work.          *)

JoinRoom(s, r, a) ==
  LET joining == r \notin clients[s].rooms
  IN  /\ clients' = [clients EXCEPT ![s].rooms = @ \cup {r}]
      /\ rooms' = [rooms EXCEPT ![r] = IF joining THEN @ \cup {s} ELSE @]
      /\ auth' = [auth EXCEPT ![r] = IF joining /\ rooms[r] = {} THEN a ELSE @]
      /\ UNCHANGED <<retainedBytes, deviceVars, countVars>>

MayJoin(s, r, a) ==
  \/ r \in clients[s].rooms
  \/ /\ Cardinality(clients[s].rooms) < MaxRoomsPerClient
     /\ \/ rooms[r] = {} /\ Cardinality({x \in Room : rooms[x] # {}}) < MaxRooms
        \/ rooms[r] # {} /\ auth[r] = a /\ Cardinality(rooms[r]) < MaxMembers

LeaveRoom(s, r) ==
  LET room == rooms[r] \ {s}
  IN  IF rooms[r] = {} THEN UNCHANGED <<dataVars, deviceVars, countVars>>
      ELSE /\ rooms' = [rooms EXCEPT ![r] = room]
           /\ auth' = [auth EXCEPT ![r] = IF room = {} THEN None ELSE @]
           /\ clients' = [clients EXCEPT ![s].rooms = @ \ {r}, ![s].signals[r] = 0]
           /\ retainedBytes' = retainedBytes - clients[s].signals[r]
           /\ UNCHANGED <<deviceVars, countVars>>

MaySignal(s, r, length) ==
  /\ r \in clients[s].rooms /\ length \in 1 .. MaxSignal
  /\ retainedBytes - clients[s].signals[r] + length <= MaxRetained

(* Mutant of SignalRoom: the card that is replaced stays counted.          *)
SignalRoomAdds(s, r, length) ==
  /\ clients' = [clients EXCEPT ![s].signals[r] = length]
  /\ retainedBytes' = retainedBytes + length
  /\ UNCHANGED <<rooms, auth, deviceVars, countVars>>

SignalRoom(s, r, length) ==
  /\ clients' = [clients EXCEPT ![s].signals[r] = length]
  /\ retainedBytes' = retainedBytes + length - clients[s].signals[r]
  /\ UNCHANGED <<rooms, auth, deviceVars, countVars>>

PeersShareRoom(s, p) ==
  /\ clients[s].peer # p
  /\ \E r \in clients[s].rooms : \E t \in rooms[r] : PeerOf(t) = p

Delivers(s, p) == PeersShareRoom(s, p) /\ socketsByPeerId[p] # None

(* Idle slots are freed; the frame takes a slot unless it is dropped.      *)
RelayDatagram(s, p) ==
  LET from == clients[s].peer
  IN  /\ \/ ~Delivers(s, p) /\ UNCHANGED deviceLimits
         \/ /\ Delivers(s, p)
            /\ \E kept \in SUBSET deviceLimits[from] :
                 \/ deviceLimits' = [deviceLimits EXCEPT ![from] = kept]
                 \/ /\ p \in kept \/ Cardinality(kept) < MaxRelayPeers
                    /\ deviceLimits' =
                         [deviceLimits EXCEPT ![from] = kept \cup {p}]
      /\ UNCHANGED <<dataVars, socketsByPeerId, countVars>>

MayRelay(s, p) ==
  /\ RelayEnabled
  /\ Delivers(s, p) => None \notin {deviceLimits[clients[s].peer], deviceLimits[p]}

(* fetchPeers answers with the cards of the room.                          *)
FetchPeers == UNCHANGED <<dataVars, deviceVars, countVars>>

Accepted(s, m) ==
  /\ clients[s].peer # None
  /\ \/ m.type = "join" /\ MayJoin(s, m.room, m.auth)
     \/ m.type = "leave"
     \/ m.type = "signal" /\ MaySignal(s, m.room, m.length)
     \/ m.type = "get_peers" /\ m.room \in clients[s].rooms
     \/ m.type = "relay" /\ MayRelay(s, m.to)

Apply(s, m) ==
  \/ m.type = "join" /\ JoinRoom(s, m.room, m.auth)
  \/ m.type = "leave" /\ LeaveRoom(s, m.room)
  \/ m.type = "signal" /\ SignalRoom(s, m.room, m.length)
  \/ m.type = "get_peers" /\ FetchPeers
  \/ m.type = "relay" /\ RelayDatagram(s, m.to)

Registers(e) == e.message.type = "device_register"

(* Mutant of StartRegister: a client may change its identity.              *)
StartRegisterAnew(e) ==
  /\ running' = e /\ queue' = Tail(queue)
  /\ UNCHANGED <<dataVars, deviceVars, countVars,
                 pendingMessages, pendingByClient, pendingByIp>>

(* A registration is started: its identity may not change.                 *)
StartRegister(e) ==
  /\ clients[e.socket].peer \in {None, e.message.peer}
  /\ running' = e /\ queue' = Tail(queue)
  /\ UNCHANGED <<dataVars, deviceVars, countVars,
                 pendingMessages, pendingByClient, pendingByIp>>

Take ==
  LET e == Head(queue)
      s == e.socket
      m == e.message
  IN  /\ queue # <<>> /\ running = None
      /\ \/ Registers(e) /\ StartRegister(e)
         \/ /\ ~Registers(e) /\ Accepted(s, m)
            /\ Apply(s, m)
            /\ Settle(Tail(queue), {}, {s}) /\ UNCHANGED running
         \/ /\ IF Registers(e) THEN clients[s].peer \notin {None, m.peer}
               ELSE ~Accepted(s, m)
            /\ Reject({s})
            /\ Settle(Tail(queue), {s}, {s}) /\ UNCHANGED running

(* registerDevice goes on after the crypto: the connection may be gone.    *)
Replaced(s, p) == {socketsByPeerId[p]} \ {None, s}

Commit(s, p) ==
  HandleClose(Replaced(s, p),
              [clients EXCEPT ![s].peer = p],
              [socketsByPeerId EXCEPT ![p] = s],
              [deviceLimits EXCEPT ![p] = IF @ = None THEN {} ELSE @])

(* Mutant of FinishRegister: the queue is not resumed when the connection  *)
(* has closed meanwhile.                                                   *)
FinishRegisterStuck ==
  LET s == running.socket
      m == running.message
  IN  /\ running # None
      /\ \/ clients[s] = None /\ UNCHANGED vars
         \/ /\ clients[s] # None /\ ~m.valid /\ running' = None
            /\ Reject({s}) /\ Settle(queue, {s}, {s})
         \/ /\ clients[s] # None /\ m.valid /\ running' = None
            /\ Commit(s, m.peer)
            /\ Settle(queue, Replaced(s, m.peer), {s})

FinishRegister ==
  LET s == running.socket
      m == running.message
  IN  /\ running # None /\ running' = None
      /\ \/ /\ clients[s] = None
            /\ UNCHANGED <<dataVars, deviceVars, countVars>>
            /\ Settle(queue, {}, {s})
         \/ /\ clients[s] # None /\ ~m.valid
            /\ Reject({s}) /\ Settle(queue, {s}, {s})
         \/ /\ clients[s] # None /\ m.valid
            /\ Commit(s, m.peer)
            /\ Settle(queue, Replaced(s, m.peer), {s})

Next ==
  \/ \E s \in Socket :
       \/ Connect(s) \/ Close(s) \/ OneTooMany(s)
       \/ \E m \in Message : Admit(s, m)
  \/ Take \/ FinishRegister

Spec == Init /\ [][Next]_vars

(* drainQueue loops and the crypto library answers.                        *)
FairSpec == Spec /\ WF_vars(Take) /\ WF_vars(FinishRegister)
----------------------------------------------------------------------------
(* Properties.                                                             *)

(* A device has one session, the latest to prove its identity, and quotas  *)
(* exactly while it has one: every cleanup of a session that was replaced  *)
(* or closed during its verification leaves the device of the other alone. *)
OneSession ==
  /\ \A s \in Connected : clients[s].peer # None =>
       socketsByPeerId[clients[s].peer] = s
  /\ \A p \in Peer :
       /\ socketsByPeerId[p] # None => PeerOf(socketsByPeerId[p]) = p
       /\ deviceLimits[p] # None <=> socketsByPeerId[p] # None
  /\ \A p \in Limited : deviceLimits[p] \subseteq Limited \ {p}

(* The bytes retained are those of the cards of the sockets in rooms, and  *)
(* within bounds: none is counted for a socket or a room that is gone.     *)
RetainedTrue ==
  /\ retainedBytes = Bytes(Connected)
  /\ retainedBytes <= MaxRetained
  /\ \A s \in Connected, r \in Room :
       /\ s \in rooms[r] <=> r \in clients[s].rooms
       /\ clients[s].signals[r] > 0 => s \in rooms[r]

(* What admission counts is what waits or is in work, of open connections  *)
(* or in work: closing a connection while one of its messages is verified  *)
(* releases every message once.                                            *)
PendingTrue ==
  LET held(S) == Count(queue, S)
                   + (IF running # None /\ running.socket \in S THEN 1 ELSE 0)
  IN  /\ pendingMessages = held(Socket)
      /\ \A s \in Socket : pendingByClient[s] = held({s})
      /\ \A i \in Ip : pendingByIp[i] = held(From(i))
      /\ \A n \in DOMAIN queue : queue[n].socket \in Connected

(* The worker implements the service as the Bun server does: what a client *)
(* sees of a registration that awaits is what a synchronous one shows.     *)
ServerSpec == Server!Spec

(* No message waits for ever: whoever has one in the queue gets its turn,  *)
(* with nothing in work, however much the others send and however often    *)
(* they close while theirs is verified.                                    *)
Turn(s) == running = None /\ queue # <<>> /\ Head(queue).socket = s
TurnComes == \A s \in Socket : Queued(queue, s) > 0 ~> Turn(s) \/ s \notin Connected

=============================================================================
