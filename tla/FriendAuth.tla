----------------------------- MODULE FriendAuth -----------------------------
(***************************************************************************)
(* The friends, friend_requests and blocked_peers tables of one node: who  *)
(* may write to it.  FriendManager (backend/meshtalk/friends.py) changes   *)
(* them for IPC commands and for packets, and each command or packet is a  *)
(* task of its own that awaits the database after every statement.         *)
(*                                                                         *)
(* An action is one statement, together with its triggers (database.py)    *)
(* and the test of its result: a statement takes effect when it is         *)
(* submitted, and any other task may run before the next one.  Remote      *)
(* peers are the environment: a packet with a valid signature of its       *)
(* sender may name any request, at any time and more than once.            *)
(***************************************************************************)
EXTENDS Naturals, FiniteSets

CONSTANTS
  Peer,                \* remote identities
  Own,                 \* ids of requests this node sends (uuid4)
  Theirs,              \* ids of requests that peers send
  Task,                \* commands and packets handled at the same time
  None,
  MaxIncoming,         \* MAX_INCOMING_REQUESTS
  MaxIncomingPerPeer,  \* MAX_INCOMING_REQUESTS_PER_PEER
  MaxPending,          \* MAX_PENDING_INCOMING_REQUESTS
  MaxPerWindow         \* MAX_REQUESTS_PER_WINDOW

Id == Own \cup Theirs
Status == {"pending", "accepted", "declined", "cancelled"}

(* peer: the other party, the sender of an incoming request and the        *)
(* recipient of an outgoing one.                                           *)
Request == [peer : Peer, status : Status]

(* at: the statement a task executes next.                                 *)
Statements ==
  {"sendBlocked", "sendPending", "sendSave",
   "respondUpdate", "respondAdd", "respondPending", "respondCancel",
   "cancelUpdate", "unfriendRemove",
   "blockRemove", "blockDecline", "blockInsert", "unblockRemove",
   "requestKnown", "requestFriend", "requestPending", "requestSave",
   "responseResolve", "responseAdd", "cancelledResolve",
   "noticeFriend", "noticeRemove"}

Work == [at : Statements, peer : Peer, id : Id \cup {None}, accept : BOOLEAN]

ASSUME ConstantsAssumption ==
  /\ Own \cap Theirs = {}
  /\ None \notin Id \cup Request \cup Work
  /\ IsFiniteSet(Theirs)
  /\ MaxIncoming \in Nat /\ MaxIncomingPerPeer \in Nat
  /\ MaxPending \in Nat /\ MaxPerWindow \in Nat

VARIABLES
  friends,   \* table friends
  blocked,   \* table blocked_peers
  requests,  \* table friend_requests
  recent,    \* incoming requests admitted within FRIEND_REQUEST_WINDOW
  task       \* the commands and packets that are being handled

tables == <<friends, blocked, requests, recent>>
vars == <<friends, blocked, requests, recent, task>>

Init ==
  /\ friends = {} /\ blocked = {} /\ recent = {}
  /\ requests = [r \in Id |-> None]
  /\ task = [t \in Task |-> None]

----------------------------------------------------------------------------
(* Queries.                                                                *)

Stored(r) == requests[r] # None

Pending(r) == Stored(r) /\ requests[r].status = "pending"

Incoming == {r \in Theirs : Stored(r)}

(* get_pending_request_with, by direction.                                 *)
PendingWith(ids, p) == {r \in ids : Pending(r) /\ requests[r].peer = p}

From(ids, p) == {r \in ids : requests[r].peer = p}

IsFriend(p) == p \in friends \ blocked

(* Mutant of Admissible: the insert relies on the check made before it.    *)
AdmissibleChecked(p) ==
  /\ p \notin blocked
  /\ Cardinality(Incoming) < MaxIncoming
  /\ Cardinality(From(Incoming, p)) < MaxIncomingPerPeer
  /\ Cardinality({r \in Incoming : Pending(r)}) < MaxPending
  /\ Cardinality(From(recent, p)) < MaxPerWindow

(* The WHERE clause of save_friend_request for an incoming request.        *)
Admissible(p) ==
  /\ p \notin blocked
  /\ Cardinality(Incoming) < MaxIncoming
  /\ Cardinality(From(Incoming, p)) < MaxIncomingPerPeer
  /\ Cardinality({r \in Incoming : Pending(r)}) < MaxPending
  /\ PendingWith(Theirs, p) = {}
  /\ Cardinality(From(recent, p)) < MaxPerWindow

----------------------------------------------------------------------------
(* Statements that change the tables.                                      *)

WithStatus(S, status) ==
  [r \in Id |-> IF r \in S THEN [requests[r] EXCEPT !.status = status]
                ELSE requests[r]]

(* UPDATE of the status of r, with blocked_request_acceptance, which       *)
(* ignores it, and accepted_request_grants_permission.                     *)
Update(r, status) ==
  LET p == requests[r].peer
      ignored == status = "accepted" /\ p \in blocked
  IN  /\ requests' = IF ignored THEN requests ELSE WithStatus({r}, status)
      /\ friends' = IF Pending(r) /\ status = "accepted" /\ ~ignored
                      THEN friends \cup {p} ELSE friends
      /\ UNCHANGED <<blocked, recent>>

(* Mutants of Resolvable: whoever answers resolves the request, or an      *)
(* answer changes a request that was answered before.                      *)
ResolvableByAnyone(r, p) == Pending(r) /\ p \notin blocked

ResolvableAgain(r, p) == Stored(r) /\ requests[r].peer = p /\ p \notin blocked

(* The WHERE clause of resolve_friend_request.                             *)
Resolvable(r, p) == Pending(r) /\ requests[r].peer = p /\ p \notin blocked

(* Mutant of AddFriend: without the trigger blocked_friend_insert.         *)
AddFriendAnyway(p) ==
  /\ friends' = friends \cup {p}
  /\ UNCHANGED <<blocked, requests, recent>>

(* INSERT into friends, with blocked_friend_insert, which ignores it.      *)
AddFriend(p) ==
  /\ friends' = friends \cup ({p} \ blocked)
  /\ UNCHANGED <<blocked, requests, recent>>

RemoveFriend(p) ==
  /\ friends' = friends \ {p}
  /\ UNCHANGED <<blocked, requests, recent>>

DeclinePending(p) ==
  /\ requests' = WithStatus(PendingWith(Id, p), "declined")
  /\ UNCHANGED <<friends, blocked, recent>>

(* INSERT into blocked_peers, with block_revokes_permission, which does    *)
(* not run when the row is there and only its name is updated.             *)
Block(p) ==
  /\ blocked' = blocked \cup {p}
  /\ IF p \in blocked
       THEN UNCHANGED <<friends, requests>>
       ELSE /\ friends' = friends \ {p}
            /\ requests' = WithStatus(PendingWith(Id, p), "declined")
  /\ UNCHANGED recent

Insert(r, p) ==
  requests' = [requests EXCEPT ![r] = [peer |-> p, status |-> "pending"]]

----------------------------------------------------------------------------
(* The control flow of a task.                                             *)

(* Task t begins: its first statement is a query whose result is goOn.     *)
Begin(t, goOn, first, p, r, accept) ==
  /\ task[t] = None
  /\ goOn
  /\ task' = [task EXCEPT ![t] =
               [at |-> first, peer |-> p, id |-> r, accept |-> accept]]
  /\ UNCHANGED tables

IsAt(t, here) == task[t] # None /\ task[t].at = here

Goto(t, next) == task' = [task EXCEPT ![t] = [@ EXCEPT !.at = next]]

End(t) == task' = [task EXCEPT ![t] = None]

(* The query at here: the task goes on with next, or it is over.           *)
Query(t, here, goOn, next) ==
  /\ IsAt(t, here)
  /\ IF goOn THEN Goto(t, next) ELSE End(t)
  /\ UNCHANGED tables

----------------------------------------------------------------------------
(* send_friend_request; the id is fresh, and the insert may be ignored.    *)

Unused(r) == ~Stored(r) /\ \A t \in Task : task[t] # None => task[t].id # r

Send(t) == \E p \in Peer, r \in Own :
  Begin(t, ~IsFriend(p) /\ Unused(r), "sendBlocked", p, r, FALSE)

Sending(t) ==
  LET p == task[t].peer
  IN  \/ Query(t, "sendBlocked", p \notin blocked, "sendPending")
      \/ Query(t, "sendPending", PendingWith(Own, p) = {}, "sendSave")
      \/ /\ IsAt(t, "sendSave")
         /\ IF p \in blocked THEN UNCHANGED requests ELSE Insert(task[t].id, p)
         /\ End(t)
         /\ UNCHANGED <<friends, blocked, recent>>

(* respond_to_friend_request: the status is updated, whatever it is by     *)
(* then; an acceptance also cancels a request of ours to that peer.        *)
Respond(t) == \E r \in Theirs, accept \in BOOLEAN :
  Begin(t, Pending(r), "respondUpdate", requests[r].peer, r, accept)

Responding(t) ==
  LET p == task[t].peer
      r == task[t].id
  IN  \/ /\ IsAt(t, "respondUpdate")
         /\ Update(r, IF task[t].accept THEN "accepted" ELSE "declined")
         /\ IF task[t].accept THEN Goto(t, "respondAdd") ELSE End(t)
      \/ /\ IsAt(t, "respondAdd")
         /\ AddFriend(p)
         /\ Goto(t, "respondPending")
      \/ /\ IsAt(t, "respondPending")
         /\ IF PendingWith(Own, p) = {} THEN End(t)
            ELSE \E s \in PendingWith(Own, p) :
                   task' = [task EXCEPT ![t] =
                              [at |-> "respondCancel", peer |-> p,
                               id |-> s, accept |-> TRUE]]
         /\ UNCHANGED tables
      \/ /\ IsAt(t, "respondCancel")
         /\ Update(r, "cancelled")
         /\ End(t)

(* cancel_friend_request, likewise.                                        *)
Cancel(t) == \E r \in Own :
  Begin(t, Pending(r), "cancelUpdate", requests[r].peer, r, FALSE)

Cancelling(t) ==
  /\ IsAt(t, "cancelUpdate")
  /\ Update(task[t].id, "cancelled")
  /\ End(t)

(* unfriend, block_peer and unblock_peer.                                  *)
Unfriend(t) == \E p \in Peer :
  Begin(t, IsFriend(p), "unfriendRemove", p, None, FALSE)

Unfriending(t) ==
  /\ IsAt(t, "unfriendRemove")
  /\ RemoveFriend(task[t].peer)
  /\ End(t)

BlockPeer(t) == \E p \in Peer :
  Begin(t, p \notin blocked, "blockRemove", p, None, FALSE)

Blocking(t) ==
  LET p == task[t].peer
  IN  \/ IsAt(t, "blockRemove") /\ RemoveFriend(p) /\ Goto(t, "blockDecline")
      \/ IsAt(t, "blockDecline") /\ DeclinePending(p) /\ Goto(t, "blockInsert")
      \/ IsAt(t, "blockInsert") /\ Block(p) /\ End(t)

UnblockPeer(t) == \E p \in Peer :
  Begin(t, p \in blocked, "unblockRemove", p, None, FALSE)

Unblocking(t) ==
  /\ IsAt(t, "unblockRemove")
  /\ blocked' = blocked \ {task[t].peer}
  /\ UNCHANGED <<friends, requests, recent>>
  /\ End(t)

----------------------------------------------------------------------------
(* Packets.  An id of Own that is not stored is one no peer knows of.      *)

(* _handle_friend_request; a friend gets an automatic acceptance.          *)
OnRequest(t) == \E p \in Peer, r \in Theirs :
  Begin(t, p \notin blocked, "requestKnown", p, r, FALSE)

Requesting(t) ==
  LET p == task[t].peer
      r == task[t].id
  IN  \/ Query(t, "requestKnown", ~Stored(r), "requestFriend")
      \/ Query(t, "requestFriend", ~IsFriend(p), "requestPending")
      \/ Query(t, "requestPending", PendingWith(Theirs, p) = {}, "requestSave")
      \/ /\ IsAt(t, "requestSave")
         /\ IF Admissible(p) /\ ~Stored(r)
              THEN Insert(r, p) /\ recent' = recent \cup {r}
              ELSE UNCHANGED <<requests, recent>>
         /\ End(t)
         /\ UNCHANGED <<friends, blocked>>

(* _handle_friend_response, from any peer.                                 *)
OnResponse(t) == \E p \in Peer, r \in Own, accept \in BOOLEAN :
  Begin(t, Pending(r), "responseResolve", p, r, accept)

OnResponding(t) ==
  LET p == task[t].peer
      r == task[t].id
      accept == task[t].accept
  IN  \/ /\ IsAt(t, "responseResolve")
         /\ IF Resolvable(r, p)
              THEN /\ Update(r, IF accept THEN "accepted" ELSE "declined")
                   /\ IF accept THEN Goto(t, "responseAdd") ELSE End(t)
              ELSE UNCHANGED tables /\ End(t)
      \/ IsAt(t, "responseAdd") /\ AddFriend(p) /\ End(t)

(* _handle_friend_cancelled, from any peer.                                *)
OnCancelled(t) == \E p \in Peer, r \in Theirs :
  Begin(t, Pending(r), "cancelledResolve", p, r, FALSE)

OnCancelling(t) ==
  LET p == task[t].peer
      r == task[t].id
  IN  /\ IsAt(t, "cancelledResolve")
      /\ IF Resolvable(r, p) THEN Update(r, "cancelled")
                             ELSE UNCHANGED tables
      /\ End(t)

(* _handle_message_blocked, for a message this node did send to the peer.  *)
OnNotice(t) == \E p \in Peer :
  Begin(t, TRUE, "noticeFriend", p, None, FALSE)

OnNoticing(t) ==
  \/ Query(t, "noticeFriend", IsFriend(task[t].peer), "noticeRemove")
  \/ IsAt(t, "noticeRemove") /\ RemoveFriend(task[t].peer) /\ End(t)

----------------------------------------------------------------------------
(* An admitted request leaves the window of an hour.                       *)
WindowPasses(r) ==
  /\ r \in recent
  /\ recent' = recent \ {r}
  /\ UNCHANGED <<friends, blocked, requests, task>>

(* cleanup_expired drops an incoming request answered 30 days ago; no task *)
(* takes that long.                                                        *)
Expire(r) ==
  /\ Stored(r) /\ ~Pending(r)
  /\ r \notin recent
  /\ \A t \in Task : task[t] # None => task[t].id # r
  /\ requests' = [requests EXCEPT ![r] = None]
  /\ UNCHANGED <<friends, blocked, recent, task>>

(* The process ends and starts again: the tasks are lost, and the start    *)
(* repairs rows that contradict the block list.                            *)
Restart ==
  /\ task' = [t \in Task |-> None]
  /\ friends' = friends \ blocked
  /\ requests' = WithStatus({r \in Id : Pending(r)
                               /\ requests[r].peer \in blocked}, "declined")
  /\ UNCHANGED <<blocked, recent>>

----------------------------------------------------------------------------
Commands(t) ==
  \/ Send(t) \/ Sending(t) \/ Respond(t) \/ Responding(t)
  \/ Cancel(t) \/ Cancelling(t) \/ Unfriend(t) \/ Unfriending(t)
  \/ BlockPeer(t) \/ Blocking(t) \/ UnblockPeer(t) \/ Unblocking(t)

Packets(t) ==
  \/ OnRequest(t) \/ Requesting(t) \/ OnResponse(t) \/ OnResponding(t)
  \/ OnCancelled(t) \/ OnCancelling(t) \/ OnNotice(t) \/ OnNoticing(t)

Next ==
  \/ \E t \in Task : Commands(t) \/ Packets(t)
  \/ \E r \in Theirs : WindowPasses(r) \/ Expire(r)
  \/ Restart

Spec == Init /\ [][Next]_vars

----------------------------------------------------------------------------
TypeOK ==
  /\ friends \subseteq Peer /\ blocked \subseteq Peer
  /\ requests \in [Id -> Request \cup {None}]
  /\ recent \subseteq Incoming
  /\ task \in [Task -> Work \cup {None}]

(* PROTOCOL.md 9: a blocked peer has no friendship and no request it could *)
(* still be answered on, whatever an acceptance, a request or a command    *)
(* had read before the block.                                              *)
BlockWins ==
  \A p \in blocked : p \notin friends /\ PendingWith(Id, p) = {}

(* PROTOCOL.md 9: one pending incoming request per peer and the limits on  *)
(* stored requests, although the checks of several packets interleave.     *)
LimitsHold ==
  /\ Cardinality(Incoming) <= MaxIncoming
  /\ Cardinality({r \in Incoming : Pending(r)}) <= MaxPending
  /\ \A p \in Peer :
       /\ Cardinality(From(Incoming, p)) <= MaxIncomingPerPeer
       /\ Cardinality(From(recent, p)) <= MaxPerWindow
       /\ \A r, s \in PendingWith(Theirs, p) : r = s

(* A peer becomes a friend only by a request to it or from it: nobody is   *)
(* made a friend by answering or repeating the request of someone else.    *)
FriendsAsked ==
  [][\A p \in friends' \ friends :
       \E r \in Id : Stored(r) /\ requests[r].peer = p]_vars

(* A packet never changes a request that has been answered, however late   *)
(* or often it arrives: only a command of the user that read the request   *)
(* as pending may overwrite the answer.                                    *)
AnswersKept ==
  [][\A r \in Id :
       Stored(r) /\ ~Pending(r) /\ requests'[r] \notin {requests[r], None}
         => \E t \in Task :
              /\ task[t] # None /\ task[t].id = r
              /\ task[t].at \in
                   {"respondUpdate", "respondCancel", "cancelUpdate"}]_vars

(* PROTOCOL.md 9: a cancellation clears a pending request.  What was       *)
(* cancelled is not accepted afterwards.                                   *)
CancelledIsFinal ==
  [][\A r \in Id :
       Stored(r) /\ requests[r].status = "cancelled" /\ requests'[r] # None
         => requests'[r].status # "accepted"]_vars
=============================================================================
