---------------------------- MODULE TuiConversation ----------------------------
(***************************************************************************)
(* The conversation shown by the terminal interface (src/tui/src): rows    *)
(* that appear before the backend has the message, the queue of sends of   *)
(* each conversation, the histories that replace the rows, and the switch  *)
(* from one conversation to another while all of this is under way.  The   *)
(* interface and the backend talk over one local connection                *)
(* (src/common/ipc-client.ts): the backend serves a client's requests one  *)
(* after the other, and sends events in between.                           *)
(*                                                                         *)
(* Own messages are numbered in the order they are typed, from 1; received *)
(* ones follow from MaxSends + 1.  A row is a message under the id it has: *)
(* the temporary one (`pending-...') or the one the backend gave.          *)
(***************************************************************************)
EXTENDS Naturals, Sequences, FiniteSets

CONSTANTS Peers, Groups,   \* the conversations
          MaxSends,        \* own messages
          MaxEvents,       \* received messages and reports of a delivery
          MaxVisits,       \* changes of conversation
          MaxDeletes,      \* deletions
          MaxAside         \* MAX_PENDING_BUFFER

ASSUME ConversationAssumption ==
  /\ Peers \cap Groups = {}
  /\ "none" \notin Peers \cup Groups
  /\ {MaxSends, MaxEvents, MaxVisits, MaxDeletes, MaxAside} \subseteq Nat

Conversations == Peers \cup Groups
Own == 1..MaxSends
Received == MaxSends + 1..MaxSends + MaxEvents
NoReply == 0
None == "none"

VARIABLES selected,  \* selectionKey: a conversation, or none
          messages,  \* the rows shown
          buffer,    \* pendingMessageBuffer
          meta,      \* resolvedSendMeta: "none", "acked" or "failed"
          queue,     \* sendQueues: the messages whose sends have not settled
          home,      \* the conversation of each message there is, in order
          replyTo,   \* the message each own message was typed as a reply to
          requests,  \* to the backend
          replies,   \* from the backend: answers and events
          store,     \* what the backend has in each conversation
          link,      \* the reply link each own message was sent with
          reported,  \* the group messages whose delivery has been reported
          closed,    \* the connection is lost
          visits, deletes

vars == <<selected, messages, buffer, meta, queue, home, replyTo, requests,
          replies, store, link, reported, closed, visits, deletes>>
-----------------------------------------------------------------------------
Row(i, temp, state) == [id |-> i, temp |-> temp, state |-> state]
SameId(r, s) == r.id = s.id /\ r.temp = s.temp
Known(S) == {Row(i, FALSE, "sent") : i \in S}
IsPending(r) == r.state = "pending"
Typed(i) == home[i] # None
Arrived == {j \in Received : Typed(j)}
MoreEvents == Cardinality(Arrived) + Cardinality(reported) < MaxEvents
Request(do, c, i) == [do |-> do, conversation |-> c, message |-> i]
Ignored == Request("cancelled", None, NoReply)
Reply(request, ok) ==
  IF request = Ignored THEN request
  ELSE [do |-> request.do, conversation |-> request.conversation,
        message |-> request.message, ok |-> ok,
        history |-> IF ok /\ request.do \in {"history", "refresh"}
                    THEN store[request.conversation] ELSE {}]

Init ==
  /\ selected = None
  /\ messages = {}
  /\ buffer = [c \in Conversations |-> {}]
  /\ meta = [i \in Own |-> "none"]
  /\ queue = [c \in Conversations |-> <<>>]
  /\ home = [i \in Own \cup Received |-> None]
  /\ replyTo = [i \in Own |-> NoReply]
  /\ requests = <<>>
  /\ replies = <<>>
  /\ store = [c \in Conversations |-> {}]
  /\ link = [i \in Own |-> NoReply]
  /\ reported = {}
  /\ closed = FALSE
  /\ visits = 0 /\ deletes = 0

-----------------------------------------------------------------------------
(* deliverQueuedMessage up to the request: the reply link is what has      *)
(* become of the message replied to.                                       *)
LinkTo(parent, known) ==
  IF parent \in Own /\ known[parent] # "acked" THEN NoReply ELSE parent

(* Mutant of Send: the requests are made without waiting for each other.   *)
SendAtOnce(parent) ==
  LET i == 1 + Cardinality({j \in Own : Typed(j)}) IN
    /\ ~closed /\ selected # None /\ i \in Own
    /\ parent \in {r.id : r \in messages} \cup {NoReply}
    /\ home' = [home EXCEPT ![i] = selected]
    /\ replyTo' = [replyTo EXCEPT ![i] = parent]
    /\ messages' = messages \cup {Row(i, TRUE, "pending")}
    /\ requests' = Append(requests, Request("send", selected, i))
    /\ link' = [link EXCEPT ![i] = LinkTo(parent, meta)]
    /\ UNCHANGED <<queue, selected, buffer, meta, replies, store, reported, closed,
                   visits, deletes>>

(* send: the row appears at once, and the request is made when the ones    *)
(* before it in the conversation have settled.                             *)
Send(parent) ==
  LET i == 1 + Cardinality({j \in Own : Typed(j)}) IN
    /\ ~closed /\ selected # None /\ i \in Own
    /\ parent \in {r.id : r \in messages} \cup {NoReply}
    /\ home' = [home EXCEPT ![i] = selected]
    /\ replyTo' = [replyTo EXCEPT ![i] = parent]
    /\ messages' = messages \cup {Row(i, TRUE, "pending")}
    /\ queue' = [queue EXCEPT ![selected] = Append(@, i)]
    /\ IF queue[selected] = <<>>
       THEN /\ requests' = Append(requests, Request("send", selected, i))
            /\ link' = [link EXCEPT ![i] = LinkTo(parent, meta)]
       ELSE UNCHANGED <<requests, link>>
    /\ UNCHANGED <<selected, buffer, meta, replies, store, reported, closed,
                   visits, deletes>>

(* The change of selectionKey: the cleanup of the effect runs when         *)
(* selectionKeyRef already has the new key and puts the pending rows aside *)
(* for it, as many as fit; then the effect asks for the history; the       *)
(* answer to the one asked before is ignored (`cancelled').  With no       *)
(* conversation shown no row is pending, and nothing is put aside.         *)
Cancelled(s) == [k \in 1..Len(s) |->
                   IF s[k].do = "history" THEN Ignored ELSE s[k]]

(* What the cap may leave of the rows: those already aside, and all or the *)
(* first of the others; which ones are the first is left open.             *)
Capped(aside, rows) ==
  {kept \in SUBSET (aside \cup rows) :
     /\ aside \subseteq kept /\ Cardinality(kept) <= MaxAside
     /\ kept = aside \cup rows \/ Cardinality(kept) = MaxAside}

Turn(key) ==
  /\ ~closed /\ key # selected /\ visits < MaxVisits
  /\ visits' = visits + 1
  /\ selected' = key
  /\ messages' = {}
  /\ replies' = Cancelled(replies)
  /\ UNCHANGED <<meta, queue, home, replyTo, store, link, reported, closed, deletes>>

Select(c) ==
  /\ Turn(c)
  /\ \E kept \in Capped(buffer[c], {r \in messages : IsPending(r)}) :
       buffer' = [buffer EXCEPT ![c] = kept]
  /\ requests' = Append(Cancelled(requests), Request("history", c, NoReply))

(* No conversation is left to show (refreshPeers, refreshGroups,           *)
(* leaveGroup): the cleanup has no key to put the pending rows under.      *)
Deselect ==
  /\ Turn(None)
  /\ requests' = Cancelled(requests)
  /\ UNCHANGED buffer

(* The confirmation of a deletion: a message still being sent is kept, a   *)
(* failed one is dropped here, another one is deleted by the backend.      *)
Without(rows, i) == {r \in rows : r.id # i}

Delete(i) ==
  /\ ~closed /\ deletes < MaxDeletes
  /\ \E r \in messages : r.id = i
  /\ i \in Own => meta[i] # "none"
  /\ deletes' = deletes + 1
  /\ IF i \in Own /\ meta[i] = "failed"
     THEN /\ messages' = Without(messages, i)
          /\ buffer' = [c \in Conversations |-> Without(buffer[c], i)]
          /\ UNCHANGED requests
     ELSE /\ requests' = Append(requests, Request("delete", home[i], i))
          /\ UNCHANGED <<messages, buffer>>
  /\ UNCHANGED <<selected, meta, queue, home, replyTo, replies, store, link,
                 reported, closed, visits>>
-----------------------------------------------------------------------------
(* The backend: a client's next request, and messages of others.           *)
Serve(ok) ==
  /\ ~closed /\ requests # <<>>
  /\ LET request == Head(requests)  c == request.conversation  i == request.message IN
       /\ store' = CASE ok /\ request.do = "send" -> [store EXCEPT ![c] = @ \cup {i}]
                     [] ok /\ request.do = "delete" -> [store EXCEPT ![c] = @ \ {i}]
                     [] OTHER -> store
       /\ replies' = Append(replies, Reply(request, ok))
  /\ requests' = Tail(requests)
  /\ UNCHANGED <<selected, messages, buffer, meta, queue, home, replyTo, link,
                 reported, closed, visits, deletes>>

Incoming(c) ==
  LET i == MaxSends + 1 + Cardinality(Arrived) IN
    /\ ~closed /\ MoreEvents /\ i \in Received
    /\ home' = [home EXCEPT ![i] = c]
    /\ store' = [store EXCEPT ![c] = @ \cup {i}]
    /\ replies' = Append(replies, Reply(Request("event", c, i), TRUE))
    /\ UNCHANGED <<selected, messages, buffer, meta, queue, replyTo, requests,
                   link, reported, closed, visits, deletes>>

(* group_sent, group_delivered: once for each own message.                 *)
GroupStatus(i) ==
  /\ ~closed /\ i \notin reported /\ MoreEvents
  /\ home[i] \in Groups /\ i \in store[home[i]]
  /\ reported' = reported \cup {i}
  /\ replies' = Append(replies, Reply(Request("status", home[i], i), TRUE))
  /\ UNCHANGED <<selected, messages, buffer, meta, queue, home, replyTo, requests,
                 store, link, closed, visits, deletes>>
-----------------------------------------------------------------------------
(* Mutant of Preserve: a history replaces all rows.                        *)
PreserveNone(current, server) == server

(* preservePendingMessages: a history replaces the rows, except those the  *)
(* backend does not have yet or never will.                                *)
Preserve(current, server) ==
  server \cup {r \in current : /\ IsPending(r) \/ (r.state = "failed" /\ r.temp)
                               /\ ~\E s \in server : SameId(r, s)}

(* Mutant of Revived: a failure is not recorded for rows put aside.        *)
RevivedFailedPending(rows, S) ==
  {IF meta[r.id] = "acked" THEN Row(r.id, FALSE, "sent") ELSE r :
     r \in {q \in rows : ~(meta[q.id] = "acked" /\ q.id \in S)}}

(* reviveBufferedPending: a row put aside comes back as what its send has  *)
(* become meanwhile.                                                       *)
Revived(rows, S) ==
  {CASE meta[r.id] = "failed" -> Row(r.id, TRUE, "failed")
     [] meta[r.id] = "acked" -> Row(r.id, FALSE, "sent")
     [] OTHER -> r :
     r \in {q \in rows : ~(meta[q.id] = "acked" /\ q.id \in S)}}

(* The end of deliverQueuedMessage, and the next send of the conversation. *)
Settled(rows, i, ok) ==
  {IF r.id = i /\ r.temp
   THEN IF ok THEN Row(i, FALSE, "sent") ELSE Row(i, TRUE, "failed")
   ELSE r : r \in rows}

(* Mutant of SendAnswered: a failed send ends the chain.                   *)
SendAnsweredStops(answer) ==
  LET i == answer.message  c == answer.conversation
      rest == IF answer.ok THEN Tail(queue[c]) ELSE <<>>
      known == [meta EXCEPT ![i] = IF answer.ok THEN "acked" ELSE "failed"] IN
    /\ meta' = known
    /\ messages' = Settled(messages, i, answer.ok)
    /\ queue' = [queue EXCEPT ![c] = rest]
    /\ IF rest = <<>>
       THEN UNCHANGED <<requests, link>>
       ELSE /\ requests' = Append(requests, Request("send", c, Head(rest)))
            /\ link' = [link EXCEPT ![Head(rest)] = LinkTo(replyTo[Head(rest)], known)]
    /\ UNCHANGED buffer

SendAnswered(answer) ==
  LET i == answer.message  c == answer.conversation
      rest == Tail(queue[c])
      known == [meta EXCEPT ![i] = IF answer.ok THEN "acked" ELSE "failed"] IN
    /\ meta' = known
    /\ messages' = Settled(messages, i, answer.ok)
    /\ queue' = [queue EXCEPT ![c] = rest]
    /\ IF rest = <<>>
       THEN UNCHANGED <<requests, link>>
       ELSE /\ requests' = Append(requests, Request("send", c, Head(rest)))
            /\ link' = [link EXCEPT ![Head(rest)] = LinkTo(replyTo[Head(rest)], known)]
    /\ UNCHANGED buffer

(* The first history of a visit takes back the rows put aside.             *)
HistoryAnswered(answer) ==
  LET c == answer.conversation IN
    /\ IF answer.ok
       THEN /\ messages' = Preserve(messages,
                 Known(answer.history) \cup Revived(buffer[c], answer.history))
            /\ buffer' = [buffer EXCEPT ![c] = {}]
       ELSE UNCHANGED <<messages, buffer>>
    /\ UNCHANGED <<meta, queue, requests, link>>

(* The history asked for after an event: that of a peer is compared with   *)
(* the conversation shown now, that of a group is not.                     *)
RefreshAnswered(answer) ==
  /\ messages' = IF answer.ok /\ (answer.conversation \in Peers
                                    => selected = answer.conversation)
                 THEN Preserve(messages, Known(answer.history)) ELSE messages
  /\ UNCHANGED <<buffer, meta, queue, requests, link>>

Refresh(c) == requests' = Append(requests, Request("refresh", c, NoReply))

PeerMessageEvent(event) ==
  /\ event.conversation \in Peers
  /\ IF event.conversation = selected
     THEN /\ messages' = messages \cup Known({event.message})
          /\ Refresh(selected)
     ELSE UNCHANGED <<messages, requests>>
  /\ UNCHANGED <<buffer, meta, queue, link>>

GroupMessageEvent(event) ==
  /\ event.conversation \in Groups
  /\ IF event.conversation = selected THEN Refresh(selected) ELSE UNCHANGED requests
  /\ UNCHANGED <<messages, buffer, meta, queue, link>>

(* The delivery marks of the row are not kept: the history has them.       *)
GroupStatusEvent(event) ==
  /\ IF event.conversation = selected THEN Refresh(selected) ELSE UNCHANGED requests
  /\ UNCHANGED <<messages, buffer, meta, queue, link>>

DeleteAnswered(answer) ==
  LET i == answer.message IN
    /\ messages' = IF answer.ok THEN Without(messages, i) ELSE messages
    /\ buffer' = IF answer.ok /\ \E r \in messages : r.id = i /\ IsPending(r)
                 THEN [c \in Conversations |->
                         IF c = selected THEN Without(buffer[c], i) ELSE buffer[c]]
                 ELSE buffer
    /\ UNCHANGED <<meta, queue, requests, link>>

(* IPCClient.onData: the next answer or event.                             *)
Receive ==
  /\ ~closed /\ replies # <<>>
  /\ replies' = Tail(replies)
  /\ LET reply == Head(replies) IN
       \/ reply.do = "send" /\ SendAnswered(reply)
       \/ reply.do = "history" /\ HistoryAnswered(reply)
       \/ reply.do = "refresh" /\ RefreshAnswered(reply)
       \/ reply.do = "event" /\ (PeerMessageEvent(reply) \/ GroupMessageEvent(reply))
       \/ reply.do = "status" /\ GroupStatusEvent(reply)
       \/ reply.do = "delete" /\ DeleteAnswered(reply)
       \/ reply = Ignored /\ UNCHANGED <<messages, buffer, meta, queue, requests, link>>
  /\ UNCHANGED <<selected, home, replyTo, store, reported, closed, visits, deletes>>

(* IPCClient.onClose: what has been asked fails, and the interface closes. *)
(* A send asked for now is written to the dead connection.                 *)
Disconnect ==
  /\ ~closed /\ closed' = TRUE
  /\ LET lost == {i \in Own : \E s \in {requests, replies} : \E k \in DOMAIN s :
                    s[k].do = "send" /\ s[k].message = i} IN
       /\ meta' = [i \in Own |-> IF i \in lost THEN "failed" ELSE meta[i]]
       /\ messages' = {IF r.id \in lost THEN Row(r.id, TRUE, "failed") ELSE r :
                         r \in messages}
       /\ queue' = [c \in Conversations |->
                      IF queue[c] # <<>> /\ Head(queue[c]) \in lost
                      THEN Tail(queue[c]) ELSE queue[c]]
  /\ requests' = <<>> /\ replies' = <<>>
  /\ UNCHANGED <<selected, buffer, home, replyTo, store, link, reported, visits,
                 deletes>>

Next ==
  \/ \E parent \in Own \cup Received \cup {NoReply} : Send(parent)
  \/ \E c \in Conversations : Select(c) \/ Incoming(c)
  \/ \E i \in Own \cup Received : Delete(i)
  \/ \E i \in Own : GroupStatus(i)
  \/ \E ok \in BOOLEAN : Serve(ok)
  \/ Receive \/ Deselect \/ Disconnect

Spec == Init /\ [][Next]_vars

(* The backend serves what it is asked, and the event loop runs.           *)
FairSpec == Spec /\ WF_vars(\E ok \in BOOLEAN : Serve(ok)) /\ WF_vars(Receive)
-----------------------------------------------------------------------------
(* The row of a message whose send has not settled stays, shown or put     *)
(* aside for a later visit, through every history that replaces the rows,  *)
(* every deletion and the loss of the connection (preservePendingMessages, *)
(* reviveBufferedPending).  It is lost from sight only as the conversation *)
(* shown is left, while it is shown: for none, or for one under which no   *)
(* more rows can be put aside.  A row put aside is never lost.             *)
InSight(i) ==
  Row(i, TRUE, "pending") \in messages \cup UNION {buffer[c] : c \in Conversations}
LostOnLeaving(i) ==
  /\ \E r \in messages : r.id = i
  /\ selected' # selected
  /\ selected' = None \/ Cardinality(buffer'[selected']) = MaxAside
PendingKept ==
  [][\A i \in Own :
       (Typed(i) => InSight(i)) /\ Typed(i)' /\ meta'[i] = "none" =>
         InSight(i)' \/ LostOnLeaving(i)]_vars

(* A row is not shown as still sending when its send has been answered,    *)
(* also when the answer came while the row was put aside                   *)
(* (useChatActions.ts, the failed entry of resolvedSendMeta).              *)
SettledNotPending ==
  \A r \in messages : IsPending(r) => meta[r.id] = "none"

(* A reply reaches the backend with a link to the message it answers, also *)
(* when that one was still being sent: the link is dropped only if the     *)
(* message has failed, or belongs to another conversation.                 *)
LinksTrue ==
  \A i \in Own :
    (Typed(i) /\ i \in store[home[i]]) =>
      \/ link[i] = replyTo[i]
      \/ link[i] = NoReply /\ \/ meta[replyTo[i]] = "failed"
                              \/ home[replyTo[i]] # home[i]

(* Every message typed is answered, or the connection is lost: a failed    *)
(* send does not stop those typed after it.                                *)
AllSettle == \A i \in Own : Typed(i) ~> (closed \/ meta[i] # "none")

(* ChatApp.tsx:1675-1676: the rows put aside are "re-attached on the next  *)
(* history load for this conversation", the one they were typed in.        *)
PutAsideAtHome == \A c \in Conversations : \A r \in buffer[c] : home[r.id] = c
=============================================================================
