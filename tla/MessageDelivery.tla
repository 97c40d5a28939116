--------------------------- MODULE MessageDelivery ---------------------------
(***************************************************************************)
(* Direct messages from one node to one peer, from the command that sends  *)
(* them to the event that shows them (backend/meshtalk/message_router.py,  *)
(* flush_outgoing in __main__.py, and the tables of database.py).          *)
(*                                                                         *)
(* The sender writes the message to its database, then sends it or leaves  *)
(* it in outgoing_queue; every notice that the peer changed starts a flush *)
(* of that queue, and flushes run concurrently.  The recipient checks the  *)
(* friendship, drops what it has seen, stores, acknowledges and shows.     *)
(*                                                                         *)
(* An action is the code between two awaits; a statement takes effect when *)
(* it is submitted.  send_packet may raise although the packet arrives,    *)
(* and return although it does not: the transport acknowledges a packet    *)
(* before the application handles it, and TCP only buffers it.             *)
(***************************************************************************)
EXTENDS Naturals, FiniteSets

CONSTANTS
  Msg,          \* ids of the messages that are sent (uuid4)
  Flush,        \* runs of flush_outgoing at the same time
  Handler,      \* packets the recipient handles at the same time
  None,
  MaxAttempts   \* the attempts a queue row gets

Row == [queued : BOOLEAN, delivered : BOOLEAN, failed : BOOLEAN]

(* MESSAGE_BLOCKED, the reply to a sender who is no friend, is left to     *)
(* FriendAuth; the flag blocked it sets in the row has no other use.       *)
Packet == [type : {"MESSAGE", "ACK"}, id : Msg]

(* at: where a flush stands, item: the row it works on, todo: the others.  *)
FlushRun == [at : {"notified", "listing", "next", "sending", "failing",
                   "removing"},
             item : Msg \cup {None}, todo : SUBSET Msg]

Handling == [at : {"seen", "again", "save", "mark", "ack", "show"}, id : Msg]

ASSUME ConstantsAssumption ==
  /\ None \notin Msg \cup Nat \cup Row \cup FlushRun \cup Handling
  /\ IsFiniteSet(Flush)
  /\ MaxAttempts \in Nat \ {0}

VARIABLES
  connected,  \* whether get_connected_peer finds the peer
  command,    \* where send_message stands for a message
  row,        \* the sender's row in messages
  queue,      \* attempts of the message's row in outgoing_queue
  flush,      \* the runs of flush_outgoing
  deleting,   \* messages whose deletion has removed the queue row only
  outcome,    \* history: over once a message was sent, given up or cut off
  wire,       \* packets that are under way
  stored,     \* the recipient's table messages
  seen,       \* the recipient's table seen_messages
  handler,    \* the MESSAGE packets being handled
  shown,      \* history: messages whose "message" event was emitted
  deleted     \* history: messages the recipient's user deleted

senderVars == <<connected, command, row, queue, flush, deleting, outcome>>
recipientVars == <<stored, seen, handler, shown, deleted>>
vars == <<senderVars, wire, recipientVars>>

Init ==
  /\ connected = FALSE
  /\ command = [m \in Msg |-> "new"]
  /\ row = [m \in Msg |-> None]
  /\ queue = [m \in Msg |-> None]
  /\ flush = [f \in Flush |-> None]
  /\ deleting = {}
  /\ outcome = [m \in Msg |-> "open"]
  /\ wire = {}
  /\ stored = {} /\ seen = {} /\ shown = {} /\ deleted = {}
  /\ handler = [h \in Handler |-> None]

----------------------------------------------------------------------------
(* The tables of the sender, and the transport.                            *)

Pkt(type, m) == [type |-> type, id |-> m]

(* UPDATE messages: without effect if the row was deleted.                 *)
Mark(m, new) == row' = IF row[m] = None THEN row ELSE [row EXCEPT ![m] = new]

(* A packet is handed to the transport, which may lose it (Lose).          *)
Transmit(p) == wire' = wire \cup {p}

(* send_packet raises: the connection is dropped, unless another one took  *)
(* its place meanwhile.                                                    *)
SendRaises == connected' \in {connected, FALSE}

(* Mutant of Listed: rows that have used up their attempts are retried.    *)
ListedAll == {m \in Msg : queue[m] # None}

(* get_pending_outgoing.                                                   *)
Listed == {m \in Msg : queue[m] # None /\ queue[m] < MaxAttempts}

----------------------------------------------------------------------------
(* send_message.                                                           *)

Insert(m, queued) ==
  row' = [row EXCEPT ![m] =
            [queued |-> queued, delivered |-> FALSE, failed |-> FALSE]]

(* The connection is looked up, once, and the row is written.              *)
SendOnline(m) ==
  /\ command[m] = "new"
  /\ connected
  /\ command' = [command EXCEPT ![m] = "directSaved"]
  /\ Insert(m, FALSE)
  /\ UNCHANGED <<connected, queue, flush, deleting, outcome,
                 wire, recipientVars>>

(* Without a connection the key of the peer is read first.                 *)
SendKey(m) ==
  /\ command[m] = "new"
  /\ ~connected
  /\ command' = [command EXCEPT ![m] = "offline"]
  /\ UNCHANGED <<connected, row, queue, flush, deleting, outcome,
                 wire, recipientVars>>

SendSave(m) ==
  /\ command[m] = "offline"
  /\ command' = [command EXCEPT ![m] = "offlineSaved"]
  /\ Insert(m, TRUE)
  /\ UNCHANGED <<connected, queue, flush, deleting, outcome,
                 wire, recipientVars>>

SendDirect(m) ==
  /\ command[m] = "directSaved"
  /\ command' = [command EXCEPT ![m] = "sending"]
  /\ Transmit(Pkt("MESSAGE", m))
  /\ UNCHANGED <<connected, row, queue, flush, deleting, outcome,
                 recipientVars>>

SendReturns(m) ==
  /\ command[m] = "sending"
  /\ command' = [command EXCEPT ![m] = "done"]
  /\ outcome' = [outcome EXCEPT ![m] = "over"]
  /\ UNCHANGED <<connected, row, queue, flush, deleting, wire, recipientVars>>

(* Mutant of SendFails: the failure is only logged.                        *)
SendFailsLogged(m) ==
  /\ command[m] = "sending"
  /\ command' = [command EXCEPT ![m] = "marking"]
  /\ SendRaises
  /\ UNCHANGED <<row, queue, flush, deleting, outcome, wire, recipientVars>>

(* The direct send raises: the message goes to the queue after all ...     *)
SendFails(m) ==
  /\ command[m] = "sending"
  /\ command' = [command EXCEPT ![m] = "marking"]
  /\ queue' = [queue EXCEPT ![m] = 0]
  /\ SendRaises
  /\ UNCHANGED <<row, flush, deleting, outcome, wire, recipientVars>>

(* ... and is then marked as queued.                                       *)
SendQueued(m) ==
  /\ command[m] = "marking"
  /\ command' = [command EXCEPT ![m] = "done"]
  /\ Mark(m, [row[m] EXCEPT !.queued = TRUE])
  /\ UNCHANGED <<connected, queue, flush, deleting, outcome,
                 wire, recipientVars>>

(* The peer was offline.                                                   *)
SendOffline(m) ==
  /\ command[m] = "offlineSaved"
  /\ command' = [command EXCEPT ![m] = "done"]
  /\ queue' = [queue EXCEPT ![m] = 0]
  /\ UNCHANGED <<connected, row, flush, deleting, outcome,
                 wire, recipientVars>>

----------------------------------------------------------------------------
(* The connection, and flush_outgoing.                                     *)

FlushUnchanged == UNCHANGED <<command, deleting, wire, recipientVars>>

(* The peer is connected, or its connection or profile changed: a notice   *)
(* starts a flush.                                                         *)
PeerChanged(f) ==
  /\ flush[f] = None
  /\ connected' = TRUE
  /\ flush' = [flush EXCEPT ![f] =
       [at |-> "notified", item |-> None, todo |-> {}]]
  /\ UNCHANGED <<row, queue, outcome>> /\ FlushUnchanged

Disconnect ==
  /\ connected
  /\ connected' = FALSE
  /\ UNCHANGED <<row, queue, flush, outcome>> /\ FlushUnchanged

FlushAt(f, here) == flush[f] # None /\ flush[f].at = here

FlushGoto(f, next) == flush' = [flush EXCEPT ![f] = [@ EXCEPT !.at = next]]

(* The next item of the list, or the end.                                  *)
FlushNext(f) ==
  flush' = [flush EXCEPT ![f] =
    IF @.todo = {} THEN None ELSE [@ EXCEPT !.at = "next", !.item = None]]

FlushLookup(f) ==
  /\ FlushAt(f, "notified")
  /\ IF connected THEN FlushGoto(f, "listing")
                  ELSE flush' = [flush EXCEPT ![f] = None]
  /\ UNCHANGED <<connected, row, queue, outcome>> /\ FlushUnchanged

FlushList(f) ==
  /\ FlushAt(f, "listing")
  /\ flush' = [flush EXCEPT ![f] =
       IF Listed = {} THEN None
       ELSE [at |-> "next", item |-> None, todo |-> Listed]]
  /\ UNCHANGED <<connected, row, queue, outcome>> /\ FlushUnchanged

(* The next row of the list: it is sent, or the peer does not take it      *)
(* (capable).  The list has no order of its own.                           *)
FlushTake(f) ==
  /\ FlushAt(f, "next")
  /\ \E m \in flush[f].todo, capable \in BOOLEAN :
       /\ flush' = [flush EXCEPT ![f] =
            [at |-> IF capable THEN "sending" ELSE "failing", item |-> m,
             todo |-> @.todo \ {m}]]
       /\ IF capable THEN Transmit(Pkt("MESSAGE", m)) ELSE UNCHANGED wire
  /\ UNCHANGED <<connected, command, row, queue, deleting, outcome,
                 recipientVars>>

(* mark_message_failed.                                                    *)
FlushRefused(f) ==
  /\ FlushAt(f, "failing")
  /\ Mark(flush[f].item, [row[flush[f].item] EXCEPT !.failed = TRUE,
                                                    !.queued = FALSE])
  /\ FlushGoto(f, "removing")
  /\ UNCHANGED <<connected, queue, outcome>> /\ FlushUnchanged

(* send_packet returned: mark_message_sent.                                *)
FlushSent(f) ==
  /\ FlushAt(f, "sending")
  /\ Mark(flush[f].item, [row[flush[f].item] EXCEPT !.queued = FALSE])
  /\ FlushGoto(f, "removing")
  /\ outcome' = [outcome EXCEPT ![flush[f].item] = "over"]
  /\ UNCHANGED <<connected, queue>> /\ FlushUnchanged

(* send_packet raised: one more attempt is counted, and the flush goes on. *)
FlushFails(f) ==
  LET m == flush[f].item
  IN  /\ FlushAt(f, "sending")
      /\ queue' = IF queue[m] = None THEN queue
                  ELSE [queue EXCEPT ![m] = @ + 1]
      /\ FlushNext(f)
      /\ SendRaises
      /\ UNCHANGED <<row, outcome>> /\ FlushUnchanged

FlushRemove(f) ==
  /\ FlushAt(f, "removing")
  /\ queue' = [queue EXCEPT ![flush[f].item] = None]
  /\ FlushNext(f)
  /\ UNCHANGED <<connected, row, outcome>> /\ FlushUnchanged

(* cleanup_expired drops rows that have used up their attempts.            *)
Reap(m) ==
  /\ queue[m] # None /\ queue[m] >= MaxAttempts
  /\ queue' = [queue EXCEPT ![m] = None]
  /\ outcome' = [outcome EXCEPT ![m] = "over"]
  /\ UNCHANGED <<connected, row, flush>> /\ FlushUnchanged

(* The user deletes a message, once or more: delete_message_locally, which *)
(* looks at nothing first, removes the row of the queue ...                *)
SenderDelete(m) ==
  /\ command[m] \notin {"new", "offline"}
  /\ queue' = [queue EXCEPT ![m] = None]
  /\ deleting' = deleting \cup {m}
  /\ UNCHANGED <<connected, command, row, flush, outcome>>
  /\ UNCHANGED <<wire, recipientVars>>

(* ... and then the message, which everything may come between.            *)
SenderErase(m) ==
  /\ m \in deleting
  /\ row' = [row EXCEPT ![m] = None]
  /\ deleting' = deleting \ {m}
  /\ UNCHANGED <<connected, command, queue, flush, outcome>>
  /\ UNCHANGED <<wire, recipientVars>>

(* The sender's process ends and starts again, and cuts off the commands   *)
(* under way.  A statement that was not committed is undone, as if the     *)
(* process had ended before it: the tasks share one connection, and each   *)
(* commits what it writes, with what others have written by then.          *)
Cut(m) ==
  \/ command[m] \notin {"new", "done"} /\ outcome[m] = "open"
  \/ m \in deleting

SenderRestart ==
  /\ connected' = FALSE
  /\ command' = [m \in Msg |-> IF command[m] = "new" THEN "new" ELSE "done"]
  /\ flush' = [f \in Flush |-> None]
  /\ deleting' = {}
  /\ outcome' = [m \in Msg |-> IF Cut(m) THEN "over" ELSE outcome[m]]
  /\ UNCHANGED <<row, queue, wire, recipientVars>>

----------------------------------------------------------------------------
(* What comes back.                                                        *)

(* MESSAGE_ACK: mark_message_delivered.                                    *)
OnAck(m) ==
  /\ Pkt("ACK", m) \in wire
  /\ wire' = wire \ {Pkt("ACK", m)}
  /\ Mark(m, [row[m] EXCEPT !.delivered = TRUE, !.queued = FALSE])
  /\ UNCHANGED <<connected, command, queue, flush, deleting, outcome,
                 recipientVars>>

(* A packet that was handed to the transport is lost with the connection.  *)
Lose(p) ==
  /\ p \in wire
  /\ wire' = wire \ {p}
  /\ UNCHANGED <<senderVars, recipientVars>>

----------------------------------------------------------------------------
(* The recipient: _handle_message, a task for every packet.                *)

HandlerAt(h, here) == handler[h] # None /\ handler[h].at = here

HandlerGoto(h, next) == handler' = [handler EXCEPT ![h] = [@ EXCEPT !.at = next]]

HandlerEnd(h) == handler' = [handler EXCEPT ![h] = None]

(* A packet arrives; the message of one who is no friend is refused.  The  *)
(* friendship is the recipient's business (FriendAuth): it may have        *)
(* changed whenever it is read.                                            *)
Receive(h) == \E m \in Msg, friend \in BOOLEAN :
  /\ Pkt("MESSAGE", m) \in wire
  /\ wire' = wire \ {Pkt("MESSAGE", m)}
  /\ handler[h] = None
  /\ handler' = IF friend THEN [handler EXCEPT ![h] = [at |-> "seen", id |-> m]]
                          ELSE handler
  /\ UNCHANGED <<senderVars, stored, seen, shown, deleted>>

(* is_message_seen.                                                        *)
IsSeen(h) ==
  /\ HandlerAt(h, "seen")
  /\ HandlerGoto(h, IF handler[h].id \in seen THEN "again" ELSE "save")
  /\ UNCHANGED <<senderVars, wire, stored, seen, shown, deleted>>

(* A message seen before is acknowledged again.                            *)
AckAgain(h) ==
  /\ HandlerAt(h, "again")
  /\ Transmit(Pkt("ACK", handler[h].id))
  /\ HandlerEnd(h)
  /\ UNCHANGED <<senderVars, stored, seen, shown, deleted>>

(* Mutants of Save: a message that is not saved is acknowledged, too, or   *)
(* one that was stored before is taken for saved.                          *)
SaveRegardless(h) == \E friend \in BOOLEAN :
  LET m == handler[h].id
  IN  /\ HandlerAt(h, "save")
      /\ stored' = IF friend THEN stored \cup {m} ELSE stored
      /\ HandlerGoto(h, "mark")
      /\ UNCHANGED <<senderVars, wire, seen, shown, deleted>>

SaveAgain(h) == \E friend \in BOOLEAN :
  LET m == handler[h].id
  IN  /\ HandlerAt(h, "save")
      /\ IF friend
           THEN stored' = stored \cup {m} /\ HandlerGoto(h, "mark")
           ELSE UNCHANGED stored /\ HandlerEnd(h)
      /\ UNCHANGED <<senderVars, wire, seen, shown, deleted>>

(* INSERT OR IGNORE ... WHERE EXISTS (SELECT 1 FROM friends ...).          *)
Save(h) == \E friend \in BOOLEAN :
  LET m == handler[h].id
  IN  /\ HandlerAt(h, "save")
      /\ IF friend /\ m \notin stored
           THEN stored' = stored \cup {m} /\ HandlerGoto(h, "mark")
           ELSE UNCHANGED stored /\ HandlerEnd(h)
      /\ UNCHANGED <<senderVars, wire, seen, shown, deleted>>

MarkSeen(h) ==
  /\ HandlerAt(h, "mark")
  /\ seen' = seen \cup {handler[h].id}
  /\ HandlerGoto(h, "ack")
  /\ UNCHANGED <<senderVars, wire, stored, shown, deleted>>

(* The receipt is sent; if that raises, the handler is over.               *)
Acknowledge(h) ==
  /\ HandlerAt(h, "ack")
  /\ Transmit(Pkt("ACK", handler[h].id))
  /\ HandlerGoto(h, "show") \/ HandlerEnd(h)
  /\ UNCHANGED <<senderVars, stored, seen, shown, deleted>>

(* on_received.                                                            *)
Show(h) ==
  /\ HandlerAt(h, "show")
  /\ shown' = shown \cup {handler[h].id}
  /\ HandlerEnd(h)
  /\ UNCHANGED <<senderVars, wire, stored, seen, deleted>>

RecipientDelete(m) ==
  /\ m \in stored
  /\ stored' = stored \ {m}
  /\ deleted' = deleted \cup {m}
  /\ UNCHANGED <<senderVars, wire, seen, handler, shown>>

(* cleanup_expired forgets a message seen a day ago; no handler and no     *)
(* packet under way is that old.                                           *)
SeenExpires(m) ==
  /\ m \in seen
  /\ Pkt("MESSAGE", m) \notin wire
  /\ \A h \in Handler : handler[h] # None => handler[h].id # m
  /\ seen' = seen \ {m}
  /\ UNCHANGED <<senderVars, wire, stored, handler, shown, deleted>>

RecipientRestart ==
  /\ handler' = [h \in Handler |-> None]
  /\ UNCHANGED <<senderVars, wire, stored, seen, shown, deleted>>

----------------------------------------------------------------------------
Sending ==
  \/ \E m \in Msg :
       \/ SendOnline(m) \/ SendKey(m) \/ SendSave(m) \/ SendDirect(m)
       \/ SendReturns(m) \/ SendFails(m) \/ SendQueued(m) \/ SendOffline(m)
       \/ Reap(m) \/ SenderDelete(m) \/ SenderErase(m) \/ OnAck(m)
  \/ Disconnect \/ SenderRestart

Flushing == \E f \in Flush :
  \/ PeerChanged(f) \/ FlushLookup(f) \/ FlushList(f) \/ FlushTake(f)
  \/ FlushRefused(f) \/ FlushSent(f) \/ FlushFails(f)
  \/ FlushRemove(f)

Receiving ==
  \/ \E h \in Handler :
       \/ Receive(h) \/ IsSeen(h) \/ AckAgain(h)
       \/ Save(h) \/ MarkSeen(h) \/ Acknowledge(h) \/ Show(h)
  \/ \E m \in Msg : RecipientDelete(m) \/ SeenExpires(m)
  \/ RecipientRestart

Next == Sending \/ Flushing \/ Receiving \/ \E p \in Packet : Lose(p)

Spec == Init /\ [][Next]_vars

----------------------------------------------------------------------------
TypeOK ==
  /\ connected \in BOOLEAN
  /\ command \in [Msg -> {"new", "offline", "directSaved", "offlineSaved",
                          "sending", "marking", "done"}]
  /\ row \in [Msg -> Row \cup {None}]
  /\ queue \in [Msg -> Nat \cup {None}]
  /\ flush \in [Flush -> FlushRun \cup {None}]
  /\ deleting \subseteq Msg
  /\ outcome \in [Msg -> {"open", "over"}]
  /\ wire \subseteq Packet
  /\ stored \subseteq Msg /\ seen \subseteq Msg
  /\ shown \subseteq Msg /\ deleted \subseteq Msg
  /\ handler \in [Handler -> Handling \cup {None}]
  /\ \A f \in Flush :
       flush[f] # None /\ flush[f].at \in {"sending", "failing", "removing"}
         => flush[f].item \in Msg

(* A message that shows as delivered is in the recipient's database, or    *)
(* its user has deleted it: no interleaving of handlers, change of mind    *)
(* about the friendship, crash or forgotten id leads to a false receipt.   *)
DeliveredIsReceived ==
  \A m \in Msg : row[m] # None /\ row[m].delivered => m \in stored \cup deleted

(* Handlers that have stored a message and will show it.                   *)
Showing(m) ==
  {h \in Handler : handler[h] # None /\ handler[h].id = m
                   /\ handler[h].at \in {"mark", "ack", "show"}}

(* A message is shown once, however often it is sent and handled: one task *)
(* at most will show it, and none once it was shown.  (A message that was  *)
(* deleted may come back when its id has been forgotten.)                  *)
ShownOnce ==
  \A m \in Msg \ deleted :
    /\ \A g, h \in Showing(m) : g = h
    /\ m \in shown => Showing(m) = {}

(* PROTOCOL.md 7.4: a message is not dropped silently.  When send_message  *)
(* is over, a message that was neither sent nor marked as failed, and is   *)
(* not being deleted, waits in the queue, and says so unless it got        *)
(* through all the same.  A crash that cuts off send_message or a deletion *)
(* is excepted: either may leave a message that is nowhere queued.         *)
Kept ==
  \A m \in Msg :
    /\ command[m] = "done" /\ outcome[m] = "open" /\ m \notin deleting
    /\ row[m] # None /\ ~row[m].failed
    => queue[m] # None /\ (row[m].queued \/ row[m].delivered)

(* PROTOCOL.md 7.4, Bounds: concurrent flushes may each add an attempt to  *)
(* a row they listed before, and no more than that.                        *)
RetriesBounded ==
  \A m \in Msg : queue[m] # None => queue[m] < MaxAttempts + Cardinality(Flush)

(* PROTOCOL.md 7.4: the message is held in the queue until the peer        *)
(* reconnects, and then replayed.  Once the notices of a connection have   *)
(* been worked off, no message waits for its first attempt.                *)
NothingStranded ==
  connected /\ (\A f \in Flush : flush[f] = None)
    => \A m \in Msg : command[m] = "done" => queue[m] # 0
=============================================================================
