# MeshTalk: TLA+ models, checks and proofs

MeshTalk is a peer-to-peer chat program.  Every node runs a Python backend
(`src/backend/meshtalk`, one asyncio event loop), which keeps a SQLite
database, talks to other nodes over TCP on the LAN and over UDP (direct or
through the relay of a control server) elsewhere, and serves its user
interfaces over a local socket.  The interfaces and the program around them
are TypeScript: a terminal interface (`src/tui`), the launcher (`src/bin`) with
its release store (`src/common`), and the control server (`src/control`), which
runs under Bun or as a Cloudflare Durable Object.  This directory models the
parts of all of them whose correctness depends on the order of events.

Paths of Python files are relative to `src/backend/meshtalk`, all others to
`src`.

## 1. Inventory

Everything in the backend runs on one event loop: code between two `await`s is
atomic, and any other task may run at an `await`.  `aiosqlite` executes the
statements of one connection in the order they are submitted, so a statement
takes effect, for every later reader, when it is submitted.  The TypeScript
parts are single-threaded as well: what interleaves there are awaits, callbacks
of React (an effect's cleanup runs after the next render), and, for the
launcher and the release store, whole processes that share files.

| component | state | operations | hard behaviour |
|---|---|---|---|
| UDP session manager (`udp_transport.py`) | sessions in four tables (active, pending, retiring, by id), punch attempts, introduced endpoints, relay routing | endpoint cards, HELLO / READY / GOODBYE, punch loop, maintenance loop, restart | replacement of a live route by an unproven one; a loop that awaits callbacks over copied lists; full tables; a relay that goes away |
| Peer manager (`peer_manager.py`) | `peers`, `_udp_peers`, LAN connections, the column `is_online` | callbacks of the UDP manager, LAN handshakes and receive loops, `send_packet`, `refresh_network` | callbacks that await between check and filing, late failures, fallback |
| Friendship and blocking (`friends.py`, triggers in `database.py`) | tables `friends`, `friend_requests`, `blocked_peers` | seven commands, four packet handlers, cleanup, repair at start | commands and packets interleave at every statement; limits checked before the insert |
| Direct messages (`message_router.py`, `flush_outgoing` in `__main__.py`, `database.py`) | tables `messages`, `outgoing_queue`, `seen_messages` on both sides | send, flush on reconnect, receipts, delete, cleanup | loss and repetition, restarts, concurrent flushes, friendship that ends during decryption |
| Control server (`control/src/index.ts`, `worker.ts`) | connections, devices, rooms, cards, relay quotas; in the worker also a queue and what it admits | connect, register, join, leave, signal, relay, close | two runtimes of one protocol; the worker awaits the check of a signature with other messages in the queue, and the connection may close meanwhile |
| Release store (`common/release-install.ts`) | selection and backup, releases on disk, links, leases | stage, activate, launch, confirm, recover, prune | a crash between any two writes, damaged files, processes that start without the lock |
| Launcher (`bin/meshtalk.ts`, `common/install-processes.ts`) | the backend a window has started, the pid file | open, share, stop, daemonise, restart into an update, close an installation | identifiers that change hands, a backend that ignores requests or SIGTERM |
| Terminal interface: screens (`tui/src/navigation.ts`, `useChatActions.ts`, `components`) | the dialog shown, whether it is busy, the counter of actions | 133 links between 65 screens, 47 operations, go back, startup, updates, events | an answer that comes when another screen is shown or another operation runs |
| Terminal interface: conversation (`ChatApp.tsx`, `useChatActions.ts`, `ipc-client.ts`) | rows, rows put aside, sends under way | send, reply, delete, switch, histories, reports | rows without an id of the backend; histories asked for before and answered after |
| Group messages (`group_router.py`) | members, deliveries, relay cursors | send, relay history, acknowledge | sticky states, restart of pending rows, caps |
| File transfer (`file_transfer.py`) | transfers, received chunks, early chunks, resend budgets | offer, request ranges, chunk, complete, expire | timeouts against late chunks, batched commits |
| Rendezvous client (`rendezvous.py`), network monitor, LAN discovery | control link, endpoint cards, known network state | register, reconnect with backoff, publish | loss of the link while relay sessions are in use |
| TCP records (`tcp_transport.py`), protocol, identity, encryption | sequence numbers, keys | encode, decode, encrypt | replay; otherwise pure data |
| Storage migration (`storage.py`) | the data directory | copy, verify, switch, delete | crash between the steps |
| IPC, desktop queries, settings, analytics | client connections, counters | requests and events | a task for every client, so commands interleave |
| Update download, Windows installation, desktop, web, command line | none shared | - | I/O that ends in operations of the parts above |

Interactions: the control client feeds endpoint cards and relay availability
to the UDP manager; the UDP manager calls `on_connected`, `on_packet` and
`on_disconnected` of the peer manager as tasks of their own; the peer manager
reports every change to `handle_peer_changed`, which flushes the queue; packets
go to the message router, which hands friend packets to the friend manager and
asks it whether a sender is a friend.  The terminal interface sends the backend
one request after the other over IPC and takes answers and events from the same
stream.  The launcher starts the backend and the interface, asks the release
store which release to run, and replaces itself when the interface wants the
update that has been staged.

What makes each component correct is stated as properties in its module
(section 4).  The hazards they were derived from are listed, with lines, in
`PROJECT.json`.  One more is known and has neither a property nor an entry: a
crash between the row of a message and its entry in `outgoing_queue`
(`message_router.py:75`) leaves a row marked as queued that no flush will find;
`Kept` excepts a send that was cut short.

## 2. Modules

| module | models | composed with |
|---|---|---|
| `UdpSessions` (+ `MC`; proofs in `UdpTransport_proofs`) | the UDP session manager, without the transfer of DATA, which is `ReliableUdp` | offers the sessions whose ends `PeerRoutes` handles |
| `ReliableUdp` (+ `MC`; proofs in `UdpTransport_proofs`), `PacketChannel` | the packets sent over one UDP session; what `send_packet` promises | `ReliableUdp` implements `PacketChannel`; its `sender`, `receiver` and `routed` are what `UdpSessions` does to one session (theorem `SessionsLive`) |
| `PeerRoutes` (+ `_proofs`) | the choice of the connection to one peer | its actions `Confirm`, `SessionGoodbye`, `Expire`, `Restart` are what `UdpSessions` does to the sessions of one peer (theorem `SessionsSeen`) |
| `FriendAuth` (+ `MC`, `_proofs`) | the friendship tables and everything that runs statements on them | answers the question `friend` of `MessageDelivery` |
| `MessageDelivery` (+ `MC`, `_proofs`) | a sender and a recipient of direct messages | its `connected` abstracts `PeerRoutes` |
| `ControlServer` | the control service with synchronous handlers (Bun) | the specification of the next one |
| `ControlWorker` (+ `MC`, `_proofs`) | the control service with a queue and an awaited check (Durable Object) | implements `ControlServer` |
| `ReleaseStore` (+ `MC`, `_proofs`) | the files of an installation and the processes that run from it | its processes are the windows of `Launcher` |
| `Launcher` (+ `MC`, `_proofs`) | windows, commands, installers and backends by process identifier | its `Replace` is `RestartInto` of `ReleaseStore` |
| `TuiDialogs` (proofs in `Tui_proofs`) | the screens of the terminal interface | its operations are requests of which only the answer matters |
| `TuiConversation` (proofs in `Tui_proofs`) | the rows of the conversation, with the IPC connection | the backend's part is what `MessageDelivery` models in detail |

### UdpSessions

`sess` holds the Session objects that are still referenced; `byId`, `active`,
`pending` and `retiring` stand for `_sessions_by_id`, `_sessions`,
`_pending_sessions` and `_retiring_sessions`; `candidate`, `expected`, `derp`,
`forgotten`, `derpUp`, `attempts` for the tables of introductions, relay
routing and punch attempts.  Time is reduced to one bit of a session: `due`
says that the deadline the maintenance loop looks at has passed
(10 s unconfirmed, `SESSION_TIMEOUT` idle, the drain period).  `sweep` is the
program counter of the maintenance loop with the list it has copied; it yields
only while it sleeps or awaits `on_disconnected`, and every other action
requires that (`Yielded`).  A HELLO is a pair of peer and nonce on a route;
cryptography is abstracted to the fact that READY proves the keys.  An
endpoint belongs to a host (`HostOf`), since the code accepts a changed port.
The loop dies (`Dead`) where the code raises.

### ReliableUdp and PacketChannel

One direction of one session.  `call[m]` is where `send_packet` stands for the
packet with message id `m`, `left` and `timer` are the rounds and the
`wait_for` it has left, `event` its acknowledged event; `parts` stands for
`session.reassemblies`, `seen` for `session.seen`.  All fragments of a round
leave in one step of the event loop, so the network is a countdown per packet
(`air`, and `ackAir` for acknowledgements): while it runs, each fragment may
arrive any number of times, in any order, or never.  Time passes by `Tick`,
which waits until tasks whose timer is over or whose event is set have run.
The receiver's session starts unconfirmed, since the sender may have READY
first.  `_send_ack` cannot raise here: a datagram that arrived over the relay
proves that the relay is there.  `PacketChannel` is the abstract specification:
handed over at most once, a return only after that, never after a refusal.  Its
two variables are `call` and the history variable `handed`, so the refinement
mapping is the identity on them.

### PeerRoutes

One peer, its UDP sessions `Sid` and LAN connections `Lid`; other peers appear
as `full`.  Each callback is cut at its awaits: `connecting[s]` is the progress
of `_on_udp_connected`, `goodbyes` the spawned `_dispatch_disconnected` tasks,
`saving` the ones that await `set_peer_online`, `loop` the one the maintenance
loop waits for, `lan[l]` the progress of a LAN admission, `sending` the
connections with a packet under way, `refreshing` the pause in
`refresh_network`.  A PROFILE matters for the column `is_online` only:
`_apply_profile_update` saves the peer as online whether or not `peers` holds
the connection the packet came from (`LanProfile`, `UdpProfile`).  `up` is the
set of LAN connections whose state is CONNECTED. The packet type GOODBYE of the
application protocol is handled by the code but sent by none of it, and is left
out for UDP.

### FriendAuth

A task is an IPC command or a packet handler; `task[t].at` is the statement it
executes next, so any two interleave at every statement.  Triggers belong to
the statement that fires them (`Update`, `AddFriend`, `Block`), as do the
`WHERE` clauses that re-check what the handler checked before (`Admissible`,
`Resolvable`).  `Own` are ids of requests of this node (random UUIDs nobody
guesses before they are stored), `Theirs` those of others.  `recent` holds the
requests admitted within the last hour.  The remote side is unconstrained: any
peer may send any packet at any time.

### MessageDelivery

`command[m]` is where `send_message` stands, `flush[f]` one run of
`flush_outgoing`, `handler[h]` one run of the recipient's `_handle_message`.
`queue[m]` is the number of attempts of the message's row in `outgoing_queue`.
`wire` holds packets under way; it may lose any of them, and a flush or a
direct send puts the same message there again.  `send_packet` may raise after
the packet was delivered and return although it was not, because the transport
acknowledges before the application handles it and TCP only buffers.
`deleting` holds the messages of which `delete_message_locally` has deleted the
row in `outgoing_queue` and awaits the statement that deletes the message
(`SenderDelete`, `SenderErase`).  The
friendship is read as an arbitrary boolean each time.  `outcome`, `shown` and
`deleted` are history variables for the properties.

### ControlServer and ControlWorker

`ControlServer` has one action per message, since the Bun handlers do not
await; a message that is refused closes the connection (`Close`), and so does
one that exceeds a rate limit, which depends on the clock and is therefore
always possible.  A card is known by its length, a registration by whether it
is valid.  `ControlWorker` adds what the Durable Object needs because checking
a signature awaits: `queue`, `running` (the registration being verified) and
three counters of what waits, per connection, address and in all.  `Take`
handles the first message or starts a verification, `FinishRegister` is the
code after the await, `Close` may come in between and releases what the
connection has in the queue; what is in work is released when it is done.
The refinement mapping reads `None` for a socket whose `ClientData` is gone and
forgets the queue: the
moment a message takes effect is the moment the Bun server would have handled
it.

### ReleaseStore

Each write to a file is an action of the transaction `tx` (a sequence of the
steps the code still has to do) of the one process that holds the lock:
`DoBackup`, `DoSelect`, `DoLink`, `DoCommand`, `DoLease`, `DoPrune`.  `Die` may
come between any two and drops the lock with the transaction.  `proc[p]` is how
far a process is (starting, running, waiting for a restart, installing, ...) and
what it runs; `alone` is what it has seen of the others when it listed the
processes, and may be out of date when it is used.  `Damage` is a fault of the
disk.

### Launcher

`table[q]` is the process that has identifier `q`: its kind, its stage, its
`child`, and for an installer the list `snap` of what it is about to signal.
Identifiers are given again once free (`Appear`), also to processes that have
nothing to do with MeshTalk; `born` tells one owner of an identifier from the
next, as the start time in `install-processes.ts` does.  An installer lists the
processes again before each signal (`LookUp`, which keeps what it has found as
`target`) and then signals the identifier (`Close`); other processes go on in
between, so the identifier may change hands there too.  The backend may answer
and refuse to shut down (`deaf`) and may ignore SIGTERM.  `harmed` and
`cleaned` are history variables for the properties.

### TuiDialogs

`LinksOf` is what every screen offers, `CallOf` what each operation waits for,
after which of the answers it compares its value of `dialogActionRef` with the
current one, and how it may end (`CallTables`, one table for each group of
operations).  `Screens` are the kinds of `types.ts`, told apart where a variant
leads elsewhere.  Only equality with the counter is ever tested, so `holder`,
the call whose value is current, stands for it.  `tasks` are what is under way
without the counter: the startup (`FinishStartup` shows the setup over whatever
the keys have opened while the splash is drawn), the check for an update, the
staging of a pasted file, the system's file picker.  While the splash is drawn
no screen takes a key or a click, but the hooks of the program are live, and
`runStartup` selects a conversation before it ends: the global keys, pasting,
the picker and the inline friend actions (`KeyLinks`) work then too.  The text
fields, the help overlay and popups inside a screen are left out: they take a
key before the screen does and change no screen.

### TuiConversation

`messages` are the rows shown, `buffer` the ones put aside
(`pendingMessageBuffer`), `meta` what became of a send (`resolvedSendMeta`),
`queue` the chain of sends of each conversation.  `requests` and `replies` are
the two directions of the IPC connection, first in first out; `store` is what
the backend has.  A history carries the contents of `store` at the time it was
served.  When the connection is lost (`Disconnect`) the send at the head of
each queue that is under way fails, and those behind it are written to a dead
connection and stay queued.

The interface starts with no conversation selected.  `Select` is a change to a
conversation: the effect's cleanup puts aside what is pending under the key the
render has already changed (see section 7), as much as `MaxAside`
(`MAX_PENDING_BUFFER`) leaves room for (`Capped`).  `Deselect` is a change to
none, when the list of peers and groups has become empty: there is no key to
put the rows under.  The eviction of entries from `resolvedSendMeta` beyond
1000 (`useChatActions.ts:129-136`) is not modelled.

## 3. Plan

Done: `UdpSessions`, `ReliableUdp` with `PacketChannel`, `PeerRoutes`,
`FriendAuth`, `MessageDelivery`, `ControlServer` and `ControlWorker`,
`ReleaseStore`, `Launcher`, `TuiDialogs`, `TuiConversation`, and proofs of
every safety property of theirs that a run checks.  Next, in this order:

1. `GroupDelivery`: delivery states per member, relaying of history, the queue
   rows of groups.
2. `FileTransfer`: offer to completion for one file, with loss, repetition and
   restart.
3. The rendezvous client as the environment of `UdpSessions` and the client of
   `ControlServer`.
4. `StorageMigration`: copy, verify, switch, delete with crashes; the
   relocation of an installation, which has the same shape.
5. Compositions: `PeerRoutes` over `UdpSessions` (a packet that times out, a
   packet that comes before its session is filed); two `FriendAuth` nodes and
   the convergence of their views; the queue of `TuiConversation` over
   `MessageDelivery`.
6. Unread marks, typing notices, the state of the network monitor.

Theorems worth adding: that the sends of `TuiConversation` are those of
`MessageDelivery`; that `UdpSessions` announces a session to `PeerRoutes` by the
callback its actions name, which `SessionsSeen` leaves out because the
callbacks are not part of the tables.

## 4. Runs

| run | question | bounds |
|---|---|---|
| `UdpSessions` | do the tables agree, is a proven route kept, is everything due dropped while the loop lives | one peer, a direct and the relay route, two nonces, two sessions at a time: enough for a handoff in both directions with a replacement that fails |
| `UdpPeers` | do the limits hold when two peers compete | tables of one entry, two peers |
| `ReliableUdp` | is a packet handed over at most once and acknowledged truly, does every call end | two packets of two fragments, three rounds one tick apart, datagrams that live one tick, ids remembered for three: exactly as long as needed; one call and one reassembly at a time, so that both limits are reached |
| `PeerRoutes` | do tables and fallback follow, and who may contradict them in the online flag | two UDP sessions, two LAN connections: an old and a new one of each kind |
| `FriendAuth` | does a block win, do the limits hold, who becomes a friend | two tasks at a time, two peers, one own and two foreign requests, the window limit and one pending request per peer are reached, the limits on stored requests are not exceeded with two foreign ids and are left to the theorem `Limits` |
| `MessageDelivery` | are receipts true, events single, messages kept, retries bounded | one message (messages do not interact but through the list of a flush), two flushes, two handlers, two attempts |
| `ControlWorker` | does a device have one session, are bytes and waiting messages counted truly, does every message get its turn, is the worker a `ControlServer` | two connections from one address, two devices, one room with two capabilities, cards of one byte; every limit is 1 or 2, so each is reached |
| `ReleaseStore` | is what runs or is named ever deleted, is there a way back | three processes (one to install, one to run, one to clean), two releases over a flat installation, one fault of the disk |
| `Launcher` | is the backend stopped, what may an installer signal, can two windows restart at once | three identifiers (symmetric) for five processes, so that an identifier changes hands before and after a look-up; longer histories are left to the theorems |
| `TuiDialogs` | does a late answer disturb another screen, is a busy screen released, is there always a way out | all screens and links; two operations at a time, one that holds the screen and one it has overtaken; one task besides the startup |
| `TuiConversation` | when are rows lost, is one stuck or linked wrongly, is every send answered | a peer and a group, two own messages (one can reply to the other), one received message or one report, one deletion, three changes of conversation (the first selection, away and back, or to none), room for one row put aside of two |
| `ConversationStash` | the statement of a comment the code does not keep | as `TuiConversation` |

The passing runs show:

* `TablesAgree`, `ConfirmedIsFiled`: no order of handshakes, expiry, card loss
  and restart files a session in the wrong table, twice, or (once it is
  confirmed) nowhere.  `ConfirmedRouteKept`: an unproven replacement never
  displaces a proven route, and the replaced route drains.  `DueIsDropped`:
  under fairness of the maintenance loop only.  `LimitsKept`: the three tables
  strangers can fill.
* `ChannelSpec`: retransmission, lost acknowledgements and duplicates neither
  deliver twice nor make a call return early.  It rests on
  `SeenOutlivesFragments`.  `EveryCallEnds`: whatever becomes of the sessions.
* `RemoteAgrees`, `FallbackKept`, `HandoffKept`: late callbacks about an older
  session change nothing.  `OnlineIsSaved`: a connection in use shows as online.
  `OfflineIsSaved`: only a PROFILE, read from a LAN connection that `peers` and
  `up` have lost, makes a peer without a connection show as online with nothing
  under way to correct it (section 7).  `LanKept`: what can take a LAN
  connection away.
* `BlockWins`, `LimitsHold`, `FriendsAsked`, `AnswersKept`: re-checks in the
  `WHERE` clauses and triggers make up for checks that became stale.
* `DeliveredIsReceived`, `ShownOnce`, `RetriesBounded`: receipts, events and
  attempts stay right when flushes and handlers overlap.  `Kept`: once
  `send_message` is over, what is neither sent nor failed is in the queue, unless
  it is being deleted or a crash cut its send or its deletion off.
* `ServerSpec`: a client cannot tell the worker from the Bun server, as
  `worker.ts:3-6` says; the mapped connections, rooms, cards and quotas take the
  same steps.  `OneSession`: a session that is replaced while it is verified
  leaves its successor alone.  `RetainedTrue`, `PendingTrue`: counters kept by
  differences equal what they count.  `TurnComes`: the queue goes on when the
  connection whose registration is verified closes.
* `InUseKept`, `ReferencedKept`, `WayBack`: no crash or failed publication
  deletes what runs or what the files name, or, with one fault of the disk,
  gives up the release to go back to before its successor has started.
* `ChildStopped`: a window that ends in good order leaves no backend of its own
  running, even one that ignores SIGTERM.  `CloseExact`: what an installer
  signals is what it looked up right before, or has got the identifier since;
  a change of hands before the look-up is noticed.  The second case is real
  (section 7).  `OneRestart`: two windows never restart into an update at once,
  though each only looks for the others when it begins.
* `BusyTrue`, `StaleNeverShows`, `WayOut`: the convention of
  `beginDialogAction`, `failDialogAction` and `finishDialogAction` is kept
  by all operations, and `goBack` has no cycle that holds the user.
* `PendingKept`: histories, deletions, answers and the loss of the connection
  never take the row of an unsettled message from sight; a change of
  conversation does only when the row was shown and there is no key, or no room,
  to put it aside under, and a row put aside is never lost.  `SettledNotPending`,
  `LinksTrue`, `AllSettle`: the reconciliation of rows shown early with what the
  backend says.

The violation run `ConversationStash` exhibits a behaviour in which the code
departs from its own comment; `PROJECT.json`, "findings", quotes it.

Deadlock is checked in the runs of the backend and of the control server.  It
is not where the modelled part really stops: processes of `ReleaseStore` and
`Launcher` end and their number is bounded, the user of `TuiDialogs` leaves,
and `TuiConversation` ends when its bounds are used up or the connection is
lost.  Symmetry over ids, tasks, processes and releases is used only in runs
without liveness.

**Fairness.** `FairSpec` of `UdpSessions` assumes weak fairness of `Sweep`, the
steps of the maintenance loop: a task of the event loop that sleeps 5 s a round
goes on as long as it is alive (it awaits only callbacks that are bounded by a
database write).  `FairTransfer` of `ReliableUdp` assumes that time passes and
that a task whose `wait_for` is over or whose event is set runs.  That of
`ControlWorker` assumes that `drainQueue` loops and that the crypto library
answers.  That of `TuiConversation` assumes that the backend serves what it is
asked and that the event loop runs.  `FairDialogs` of `TuiDialogs` assumes
strong fairness of answers (the backend does not refuse a screen every time it
is asked) and that a user who wants to leave goes on pressing Esc or the
updater's buttons.  Nothing is assumed of the network, of peers, of other users,
or of the time a startup takes.

**Abstractions of time.** A deadline is a nondeterministic event.  Three
deadlines are assumed to be longer than what they race with: no friend task
lasts 30 days (`Expire`), no packet or handler lives 24 hours (`SeenExpires`),
and a request admitted within the hour is not 30 days old.  `ReliableUdp` counts
time: its `LifetimeAssumption` says that the rounds (9 intervals of 0.45 s) and
the life of a datagram fit into the 12 s an id is remembered, that is, that no
datagram arrives later than 7.95 s after it was sent.  The code has no other
protection against a later one.  A busy event loop that delays its timers uses
up the same margin; the model's loop is never late.

**Crashes.** In the backend a restart loses the tasks and keeps the tables.  A
crash between a statement and its commit is the same as one before the
statement.  In `ReleaseStore` a crash comes between any two writes, each of
which replaces a file atomically, and releases the lock.  In `Launcher` any
process may end at any time.

## 5. Proofs

The theorems hold for every value of the constants: any number of peers,
sessions, routes, requests, tasks, messages, handlers, connections, rooms,
releases, processes, conversations and operations, and any value of the limits.
The assumptions are those named `ConstantsAssumption` in most modules
(`TransferAssumption` and `LifetimeAssumption` in `ReliableUdp`,
`BoundsAssumption` in `TuiDialogs`, `ConversationAssumption` in
`TuiConversation`): `None` is no other value, ids of different kinds are
disjoint, limits are numbers, and the sets that are counted are finite.
`ReleaseStore` assumes besides that what stands for no file, for a damaged one
and for the flat pair is neither a release nor the content of a selection.  Each
module also has a theorem of type correctness, which no run checks as a property
of its own: it is part of the inductive invariants.

* `UdpTransport_proofs`, the tables.  The invariant `IInv` adds to the types
  that the tables agree (`Tables`) and that the loop's copied list is empty
  while it sleeps (`SleepsEmpty`), without which a restart or a phase change
  could leave a dangling list.  The lemma `ShrinkKeepsTables` covers every
  action that only takes sessions out.  That the tables are finite (`LimitsInv`)
  makes their limits provable: an entry is added one at a time, below the limit,
  and everything else only takes entries out (`OneEntryFits`).  `SessionsLive`
  says what becomes of one session: from unconfirmed to active, retiring and
  gone, never back, always with the same peer, endpoint and keys (`QuietLives`
  covers the steps that file, prove and retire none; `HelloNewLives` and
  `ReadyLives` the two others).  These are the changes `ReliableUdp` allows its
  sessions (`Confirm`, `Replace`, `SenderRemoves`, `ReceiverRemoves`), so what
  is proved of packets holds over the sessions of the tables.  `SessionsSeen`
  says the same towards `PeerRoutes`: of the proved sessions of a peer (`Seen`),
  a step shows one more, the active one retiring (`SeenConfirm`), one less
  (`SeenEnd`), none (`SeenRestart`), or the same.  It needs `ConfirmedIsFiled`,
  since READY retires the session filed as active and no other may be left that
  looks active (`ReadySeen`), and that pending sessions are unproved, since the
  loss of a candidate removes several at once (`UnprovedUnseen`).  Theorems:
  `Invariant`, `Typed`, `Agreement`, `Filed`, `RoutesKept`, `WithinLimits`,
  `SessionsLive`, `SessionsSeen`.
* `UdpTransport_proofs`, the packets.  The time until the last fragment of a
  call can arrive (`RoundsTime`) only shrinks: a retransmission takes its
  interval from the rounds left, and `Tick` takes as much from it as from the
  life of a remembered id.  It fits into `SeenLife` when a call starts
  (`RoundsFit`, from `LifetimeAssumption`), so the id is there for as long as
  fragments arrive.  With `HandedOnce` (only what was handed over is seen,
  acknowledged or returned) every step is a step of `PacketChannel` or a
  stutter.  Theorems: `TransferTyped`, `Remembered`, `Implements`.
* `PeerRoutes_proofs`.  `RemoteAgrees` and `FallbackKept` are inductive with the
  types and `GoodbyesGone` (a session whose notice is on the way is gone), which
  the theorem `HandoffsKept` needs.  `DisconnectKeeps` is the fact about
  `_on_udp_disconnected` that four actions share.  For the column `is_online`
  (`SavedInv`) the two properties are not enough: a fallback to the session on
  file writes nothing, so the column must be right before it (`ReachableOnline`:
  true while a session that exists is on file, even with a LAN connection in
  use), and what is on file or about to be has been confirmed
  (`FiledConfirmed`).  `OfflineSaved` is a property of steps: it is shown for
  each action from the same invariant, and `LanProfile` is the one exception;
  `UdpProfile` writes online only for a session on file, which `FallbackKept`
  says is in use or replaced by a connection that is.  Theorems: `Typed`,
  `Remote`, `FallbackStays`, `HandoffsKept`, `LanIsKept`, `OnlineSaved`,
  `OfflineSaved`.
* `FriendAuth_proofs`.  What one statement may do to the tables is proved once
  (`Effects`), from what a task knows about the request it works on
  (`TasksKnow`: an id being sent is unused, an id being answered is stored and
  belongs to that peer).  `BlockWins` and `LimitsHold` follow per effect, the
  latter by counting lemmas about inserting one element and about subsets.
* `MessageDelivery_proofs`.  `Receipts` orders the recipient's evidence: seen,
  acknowledged, shown and delivered all come after stored.  `Waiting` says what
  flushes and the queue know of a message that is not settled: nobody has
  touched it before `send_message` queued it, a flush removes only what it
  settled; a message in `deleting` has left the queue.  `Kept` follows from
  `Waiting`, `DeliveredIsReceived` from
  `Receipts`, and `ShownOnce` is inductive with both.  `Retries` charges every
  flush that has listed a message with the attempt it may still add
  (`Charged`); a flush lists a message once, and only below the limit, which
  gives `RetriesBounded`.
* `ControlWorker_proofs`.  Over the data of the service, what every handler
  keeps (`DataInv`) is that rooms hold connected members, a device has one
  session, and the bytes retained are those of the cards; the bytes of a set of
  sockets are the number of pairs of a card and a position in it, so lemmas about
  disjoint finite sets (`CardBytesSplit`, `CardReplaced`) take the place of a
  sum.  `HandleCloseKeeps` is proved once, for the socket that ends and for the
  older session a registration replaces.  Over the queue, `PendingTrue` counts
  positions (`CountAppend`, `CountTail`, `FilterKeeps`, the last for a
  connection that takes its messages with it), and `RunningTrue` says that what
  is verified still belongs to a client without another identity.  Then
  every action is shown to be a step of `ControlServer` or a stutter: the
  handlers one by one (`JoinRefines` to `RelayRefines`), the two halves of a
  registration (`Take` stutters, `CommitRefines` is where it takes effect), and
  a close during the verification.  Theorems: `Invariant`, `Typed`,
  `SessionsTrue`, `CardsTrue`, `CountersTrue`, `Refinement`.
* `ReleaseStore_proofs`.  The difficulty is that a property must hold between
  any two writes, so the invariant `Inv` speaks of the program a transaction has
  yet to run.  `Shape` says which steps follow each other (a selection is
  written right after its backup, an activation is ended before a confirmation)
  and is shown of every program an entry point may start with (`RepairsProgram`,
  `ActivateProgram`, `FinishProgram`) and of what is left after a step (`Rest`).
  Against that, `Selects`, `Publishes` and `Returns` say that what is about to
  be named, linked or gone back to is on disk or is staged first; `Processes`
  and `Leases` that what a process runs is there and is leased, or that the
  process shows as untracked; `Kept` that a selection, once it is needed, stays.
  `InUseKept` and `ReferencedKept` need these.  `WayBack` needs three more: who
  may confirm (`Confirms`), that the backup of a confirmed release is taken
  after the confirmation (`Starts`), and what may stand in the selection before
  there is a backup (`Unbacked`), the only part that bounds the faults of the
  disk.  `Begun` reduces the ways to start a transaction, and `WriteKeeps` and
  `WritesKeep` the writes, to what they have in common.  Theorems: `Invariant`,
  `Typed`, `InUse`, `Referenced`, `Way`.
* `Launcher_proofs`.  Everything rests on one fact, `Evolves`: from one state to
  the next an identifier is freed, stays with its process, or goes to a process
  born later than any before.  So what is remembered of a process by identifier
  and birth is never mistaken for another (`StillEnded`).  `IInv` adds `Ages`
  (nothing known was born after the last process, a child is younger than its
  parent), `HasChild`, `ReapedStopped` (what a window has waited for does not
  run), `SnapshotOwn` and `TargetOwn` (what an installer has listed or looked up
  belongs to the installation as long as it runs).  `Exact` follows from the
  last two: whoever has the identifier at the signal is the process looked up,
  or younger than the look-up.  `Alone` is inductive by itself: a window begins
  to restart only when no other window is there.  Each action is reduced once to
  what it does to a process (`Moves`), and the invariants are proved from that.
  Theorems: `Typed`, `Stopped`, `Exact`, `Alone`.

* `Tui_proofs`, the screens.  `BusyTrue` is inductive with the types, once it is
  known that every link, key and button leads to a screen of `types.ts` and to
  an operation of the tables (`LinksKnown`, `BackKnown`).  `StaleNeverShows`
  needs what no run states: every call that waits compares the counter after its
  last answer, or ends by closing the screen, staying, or loading a list
  (`CallsTrue`).  `CallsGuarded` shows this of all 47 operations from any
  screen, table by table; an operation that compares too early is what the
  mutant `RoomCallsEarly` puts in, of which the lemma is false.  Theorems:
  `DialogTyped`, `BusyEnds`, `StaleAnswersHidden`.
* `Tui_proofs`, the conversation.  The three properties speak of rows and links,
  but rest on the order of requests, so `ConversationInv` says what is under
  way.  A queue has all the unsettled sends of its conversation, in the order
  they were typed (`QueuesTrue`); of each conversation at most one send is on
  the way in either direction, that of the head of its queue (`RequestsTrue`;
  the lemmas `FlightAsks` to `FlightStays` say what adding and taking one does
  to this, so that an answer is known to be that of the head); and a link is
  decided when its message becomes the head, with everything typed before it in
  that conversation settled (`LinksDecided`).  All this ends when the connection
  is lost, after which only what is shown matters (`closed \/ Going`).
  `RowsTrue`, `StoreTrue` and `TypedInOrder` say that rows, histories and events
  are of messages there are.  `PendingKept` is a property of steps and rests on
  that invariant (`StaysInSight`, `SightKept`): one lemma for each way of
  replacing rows, a merge with a history (`PreserveKeepsPending`), the return of
  rows put aside (`RevivedRows`), an answer (`SettledRows`).  Theorems:
  `ConversationTyped`, `PendingRowsKept`, `NoSettledRowPending`,
  `ReplyLinksTrue`.

Proved but in no run: `SessionsLive`, `SessionsSeen`, and the theorems of type
correctness.

Only model-checked: `DueIsDropped`, `EveryCallEnds`, `TurnComes`, `WayOut` and
`AllSettle`, since liveness under fairness is out of the prover's reach, and the
violation in `ConversationStash`, which is a counterexample.  Every other
property of a run is also a theorem.

## 6. Not modelled

Group messages, files, the control client, storage migration, TCP records and
discovery are planned (section 3).  Encoding, encryption, settings, IPC
framing, analytics, the download of an update, and the desktop, web and
command-line interfaces are not: pure data, I/O or presentation.

In the modules above the following is left out.

* Backend: display names, do-not-disturb, capabilities (a boolean where they
  decide), the key exchange and the packets that tell the other side of a
  friend command.
* Control server: the HTTP requests (health, headers), the format of messages;
  the clock (rate limits, bandwidth and the idle connections) is a choice.
* Release store: the entries of Windows and the digest of their bootstrap, the
  relocation of an installation to another directory
  (`release-install.ts:140-232`, `547-632`), uninstalling (`641-715`), the
  migration of an older manifest, and launching without write access
  (`919-931`).
* Launcher: the consent screen, logging, the development mode, the commands
  that only talk to a running backend.
* Terminal interface: unread marks, typing notices, mentions, rows of files,
  layout, the help overlay.

## 7. Known disagreements

Where the code departs from its documentation or comments.  The first is the run
`ConversationStash`; the definitions of the following nine stand in their
modules, and putting one in place of the properties of that module's run
(`IdleIsDropped` and `CancelledIsFinal` as a PROPERTY, the others as an
INVARIANT) shows the behaviour.

* `TuiConversation.PutAsideAtHome`: rows still being sent are put aside under
  the conversation that is entered (`tui/src/ChatApp.tsx:1678`), against the
  comment at 1675-1676.
* `UdpSessions.IdleIsDropped`: a PING on a relay route whose sender
  `rendezvous.py:300` has removed raises in the maintenance loop
  (`udp_transport.py:873`), and so does a full attempt table (928); nothing
  catches it, the task ends, and idle sessions stay until a restart.
  `docs/PROTOCOL.md:606-607`: "The maintenance loop (every 5 s) sends PING and
  drops sessions idle longer than SESSION_TIMEOUT."
* `UdpSessions.EverySessionIsSwept`: an unconfirmed active session that is
  overwritten by a HELLO on another route (`udp_transport.py:708`) stays in
  `_sessions_by_id`, where no loop looks, and counts towards `MAX_SESSIONS`.
  `docs/DESIGN.md:166`: "expire dead sessions".
* `PeerRoutes.NoZombie`: `_on_udp_connected` awaits between the check that the
  session is current (`peer_manager.py:488`) and its filing (489); a session
  that ends in between is filed all the same.  The comment at
  `udp_transport.py:895-899` wants the manager notified "so a force-killed peer
  does not stay online".
* `PeerRoutes.LanPreferred`: the late failure of a packet on an old LAN
  connection (`peer_manager.py:858`) replaces a newer, working one by UDP.
  `docs/PROTOCOL.md:611-612`: "the LAN TCP connection is the active transport
  and remote UDP is a fallback".
* `PeerRoutes.NoGhost`: a receive loop goes on after a failed send or a network
  change took its connection out of `peers`, and a PROFILE it then reads saves
  the peer as online (`peer_manager.py:762`, 821, `database.py:554`) although
  there is no connection in use; nothing corrects it until the peer connects
  again.  `database.py:546` calls `upsert_peer` the record of the "online
  status".
* `FriendAuth.CancelledIsFinal`: the statement that accepts a request has only
  its id in the `WHERE` clause (`friends.py:112`, `database.py:1524`) and
  overwrites a cancellation handled meanwhile.  `docs/DESIGN.md:217`: it
  "revokes an outgoing pending request before it is answered".
* `MessageDelivery.NothingStranded`: a message sent while the peer connects is
  queued (`message_router.py:94`) after the flush has listed the queue
  (`__main__.py:174`), and waits although the peer is connected.
  `docs/PROTOCOL.md:697-699`: "until the peer reconnects, then replays it".
* `Launcher.UpdateSpares`: the pid file of a daemonised backend is never
  removed; when the window did not start the backend and the one that answers
  refuses to shut down, the identifier in the file is signalled as it stands
  (`bin/meshtalk.ts:728`), although the comment at 720-724 says of an unrelated
  process with a recycled identifier that it "must never be signaled".
* `Launcher.CloseSpares`: an identifier that changes hands between the look-up
  (`common/install-processes.ts:256-259`) and the signal (261) has a stranger
  signalled.  The test at `common/install-processes.test.ts:115` says "PID reuse
  with a different executable never receives a signal"; it changes hands before
  the look-up only.

Seen while modelling, with no property of their own:

* `delete_message_locally` deletes the row in `outgoing_queue`
  (`database.py:1008`) and then the message (1010).  When another task commits
  in between and the process then crashes, the message stays, shown as queued,
  and no flush will find it (hence the exception of `Kept`).
* Rows still being sent are dropped from sight when more than
  `MAX_PENDING_BUFFER` are put aside under one key (`tui/src/ChatApp.tsx:1684`),
  and when no conversation is left to select (1678); their sends go on (hence
  the two exceptions of `PendingKept`).
* The rate limits of the control server count in fixed windows; a "rolling" one
  is documented (`docs/PROTOCOL.md:406`).  `challengeExpiresAt` is sent and
  never compared (`control/src/index.ts:313`, `worker.ts:228`).
  `rateLimitsByIp` never shrinks.
* After a recovery from the backup, the `pending` of the selection may name a
  release that was pruned (hence the condition `faults = 0` of
  `ReferencedKept`).
* `writeSelection` (`release-install.ts:107-112`) makes a backup only of a
  selection it can parse, and the first one whatever it is.  When the disk
  damages the selection twice, each time just before it is kept, the first
  backup names a release that has not started although an earlier one was
  confirmed (hence the condition `faults <= 1` of `WayBack`; without it
  `MaxFaults = 2` violates the property).
* Ctrl+F shows the friends on any screen, also a busy one and the updater,
  which `navigation.ts:66-67` calls a "sticky modal".  The screen
  "about" keeps `checking: true` when its check fails.  A late answer that
  closes the screen also clears the mark of a newer operation; `copyInvite`
  sets the error of whatever screen is shown.
* A group history that is answered late may be shown in another conversation.  A
  row whose send failed is gone after a change of conversation; one that was
  acknowledged while put aside elsewhere stays until the next refresh.  A send
  asked for after the connection is lost stays pending.  A status report that
  comes before the answer of its send leaves the row as queued.
* `connectUnix` of `common/ipc-client.ts` (76-82) falls back to TCP after its
  `error`, but the `close` of the first socket has rejected the connection by
  then; the line buffer of a lost connection is kept for the next.
