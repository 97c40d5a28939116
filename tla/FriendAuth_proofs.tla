------------------------- MODULE FriendAuth_proofs -------------------------
(***************************************************************************)
(* What one statement may do to the friend tables is proved once, for      *)
(* every task (Effects).  That a block wins, that the limits on requests   *)
(* hold and who may become a friend follow from that and from what a task  *)
(* knows of the request it works on (TasksKnow).                           *)
(***************************************************************************)
EXTENDS FriendAuth, FiniteSetTheorems, TLAPS

Answers == Status \ {"pending"}

SendSteps == {"sendBlocked", "sendPending", "sendSave"}
ArrivalSteps ==
  {"requestKnown", "requestFriend", "requestPending", "requestSave"}
AnswerSteps ==
  {"respondUpdate", "respondAdd", "responseAdd", "responseResolve",
   "respondCancel", "cancelUpdate", "cancelledResolve"}
GrantSteps == {"respondUpdate", "respondAdd", "respondPending", "responseAdd"}

(* What a task knows of the request it works on: the id of a request that  *)
(* is being sent is unused, one that is answered is stored, and where an   *)
(* acceptance leads to a friendship it is the request of that peer.        *)
Knows(t) ==
  LET w == task[t]
  IN  /\ w.at \in SendSteps =>
           /\ w.id \in Own /\ ~Stored(w.id)
           /\ \A u \in Task \ {t} : task[u] # None => task[u].id # w.id
      /\ w.at \in ArrivalSteps => w.id \in Theirs
      /\ w.at \in AnswerSteps => w.id \in Id /\ Stored(w.id)
      /\ w.at \in GrantSteps =>
           w.id \in Id /\ Stored(w.id) /\ requests[w.id].peer = w.peer

TasksKnow == \A t \in Task : task[t] # None => Knows(t)

TableTypes ==
  /\ friends \subseteq Peer /\ blocked \subseteq Peer
  /\ requests \in [Id -> Request \cup {None}]
  /\ recent \subseteq Incoming

IInv == TypeOK /\ TasksKnow /\ BlockWins /\ LimitsHold

----------------------------------------------------------------------------
(* What a step does to the tables.                                         *)

(* A stored request is answered, or answered again by a command.           *)
UpdateStep ==
  \E r \in Id, status \in Answers :
    /\ Stored(r)
    /\ \/ Pending(r)
       \/ \E t \in Task :
            /\ task[t] # None /\ task[t].id = r
            /\ task[t].at \in {"respondUpdate", "respondCancel", "cancelUpdate"}
    /\ Update(r, status)

AddStep ==
  \E p \in Peer :
    /\ \E r \in Id : Stored(r) /\ requests[r].peer = p
    /\ AddFriend(p)

SendStep ==
  \E r \in Own, p \in Peer \ blocked :
    /\ ~Stored(r) /\ Insert(r, p) /\ UNCHANGED <<friends, blocked, recent>>
    /\ \E t \in Task : /\ task[t] # None /\ task[t].at = "sendSave"
                       /\ task[t].id = r /\ task'[t] = None

ArrivalStep ==
  \E r \in Theirs, p \in Peer :
    /\ ~Stored(r) /\ Admissible(p) /\ Insert(r, p)
    /\ recent' = recent \cup {r} /\ UNCHANGED <<friends, blocked>>

RemoveStep == \E p \in Peer : RemoveFriend(p)
DeclineStep == \E p \in Peer : DeclinePending(p)
BlockStep == \E p \in Peer : Block(p)
UnblockStep ==
  \E p \in Peer :
    blocked' = blocked \ {p} /\ UNCHANGED <<friends, requests, recent>>

Effect ==
  \/ UNCHANGED tables \/ UpdateStep \/ AddStep \/ SendStep \/ ArrivalStep
  \/ RemoveStep \/ DeclineStep \/ BlockStep \/ UnblockStep
  \/ \E r \in Theirs : WindowPasses(r) \/ Expire(r)
  \/ Restart

LEMMA TaskTyped ==
  ASSUME TypeOK, NEW t \in Task, task[t] # None
  PROVE  /\ task[t].at \in Statements /\ task[t].peer \in Peer
         /\ task[t].id \in Id \cup {None} /\ task[t].accept \in BOOLEAN
BY DEF TypeOK, Work

LEMMA CommandEffects ==
  ASSUME TypeOK, TasksKnow, NEW t \in Task, Commands(t)
  PROVE  Effect
<1>1. CASE Send(t) \/ Respond(t) \/ Cancel(t) \/ Unfriend(t) \/ BlockPeer(t)
           \/ UnblockPeer(t)
  BY <1>1 DEF Send, Respond, Cancel, Unfriend, BlockPeer, UnblockPeer, Begin,
              Effect
<1>2. CASE Sending(t)
  <2>1. task[t] # None
    BY <1>2 DEF Sending, Query, IsAt
  <2>2. Knows(t) /\ task[t].peer \in Peer
    BY <2>1, TaskTyped DEF TasksKnow
  <2>3. CASE IsAt(t, "sendSave") /\ task[t].peer \notin blocked
    <3>1. /\ Insert(task[t].id, task[t].peer) /\ task'[t] = None
          /\ UNCHANGED <<friends, blocked, recent>>
      BY <1>2, <2>3 DEF Sending, Query, IsAt, End, TypeOK
    <3>2. task[t].id \in Own /\ ~Stored(task[t].id)
      BY <2>2, <2>3 DEF Knows, IsAt, SendSteps
    <3> QED BY <2>1, <2>2, <2>3, <3>1, <3>2 DEF Effect, SendStep, IsAt
  <2>4. CASE ~(IsAt(t, "sendSave") /\ task[t].peer \notin blocked)
    BY <1>2, <2>4 DEF Sending, Query, IsAt, Effect, tables
  <2> QED BY <2>3, <2>4
<1>3. CASE Responding(t)
  <2>1. task[t] # None
    BY <1>3 DEF Responding, IsAt
  <2>2. Knows(t) /\ task[t].peer \in Peer /\ task[t].accept \in BOOLEAN
    BY <2>1, TaskTyped DEF TasksKnow
  <2>3. CASE IsAt(t, "respondUpdate")
    <3>1. Stored(task[t].id) /\ task[t].id \in Id
      BY <2>2, <2>3 DEF Knows, IsAt, AnswerSteps
    <3>2. Update(task[t].id, IF task[t].accept THEN "accepted" ELSE "declined")
      BY <1>3, <2>3 DEF Responding, IsAt
    <3> QED BY <2>1, <2>3, <3>1, <3>2 DEF IsAt, Effect, UpdateStep, Answers,
                                          Status
  <2>4. CASE IsAt(t, "respondAdd")
    <3>1. /\ Stored(task[t].id) /\ task[t].id \in Id
          /\ requests[task[t].id].peer = task[t].peer
      BY <2>2, <2>4 DEF Knows, IsAt, GrantSteps
    <3>2. AddFriend(task[t].peer)
      BY <1>3, <2>4 DEF Responding, IsAt
    <3> QED BY <2>2, <3>1, <3>2 DEF Effect, AddStep
  <2>5. CASE IsAt(t, "respondPending")
    BY <1>3, <2>5 DEF Responding, IsAt, Effect
  <2>6. CASE IsAt(t, "respondCancel")
    <3>1. Stored(task[t].id) /\ task[t].id \in Id
      BY <2>2, <2>6 DEF Knows, IsAt, AnswerSteps
    <3>2. Update(task[t].id, "cancelled")
      BY <1>3, <2>6 DEF Responding, IsAt
    <3> QED BY <2>1, <2>6, <3>1, <3>2 DEF IsAt, Effect, UpdateStep, Answers,
                                          Status
  <2> QED BY <1>3, <2>3, <2>4, <2>5, <2>6 DEF Responding
<1>4. CASE Cancelling(t)
  <2>1. task[t] # None /\ task[t].at = "cancelUpdate"
        /\ Update(task[t].id, "cancelled")
    BY <1>4 DEF Cancelling, IsAt
  <2>2. Stored(task[t].id) /\ task[t].id \in Id
    BY <2>1 DEF TasksKnow, Knows, AnswerSteps
  <2> QED BY <2>1, <2>2 DEF Effect, UpdateStep, Answers, Status
<1>5. CASE Unfriending(t)
  BY <1>5, TaskTyped DEF Unfriending, IsAt, Effect, RemoveStep
<1>6. CASE Blocking(t)
  BY <1>6, TaskTyped DEF Blocking, IsAt, Effect, RemoveStep, DeclineStep,
                         BlockStep
<1>7. CASE Unblocking(t)
  BY <1>7, TaskTyped DEF Unblocking, IsAt, Effect, UnblockStep
<1> QED BY <1>1, <1>2, <1>3, <1>4, <1>5, <1>6, <1>7 DEF Commands

LEMMA PacketEffects ==
  ASSUME TypeOK, TasksKnow, NEW t \in Task, Packets(t)
  PROVE  Effect
<1>1. CASE OnRequest(t) \/ OnResponse(t) \/ OnCancelled(t) \/ OnNotice(t)
  BY <1>1 DEF OnRequest, OnResponse, OnCancelled, OnNotice, Begin, Effect
<1>2. CASE Requesting(t)
  <2>1. task[t] # None
    BY <1>2 DEF Requesting, Query, IsAt
  <2>2. Knows(t) /\ task[t].peer \in Peer
    BY <2>1, TaskTyped DEF TasksKnow
  <2> QED BY <1>2, <2>2 DEF Requesting, Query, IsAt, Knows, ArrivalSteps,
                            Effect, ArrivalStep, tables
<1>3. CASE OnResponding(t)
  <2>1. task[t] # None
    BY <1>3 DEF OnResponding, IsAt
  <2>2. Knows(t) /\ task[t].peer \in Peer
    BY <2>1, TaskTyped DEF TasksKnow
  <2>3. CASE IsAt(t, "responseResolve")
    <3>1. Stored(task[t].id) /\ task[t].id \in Id
      BY <2>2, <2>3 DEF Knows, IsAt, AnswerSteps
    <3>2. \/ UNCHANGED tables
          \/ /\ Pending(task[t].id)
             /\ \E status \in {"accepted", "declined"} :
                  Update(task[t].id, status)
      BY <1>3, <2>3 DEF OnResponding, IsAt, Resolvable
    <3> QED BY <3>1, <3>2 DEF Effect, UpdateStep, Answers, Status
  <2>4. CASE IsAt(t, "responseAdd")
    <3>1. /\ Stored(task[t].id) /\ task[t].id \in Id
          /\ requests[task[t].id].peer = task[t].peer
      BY <2>2, <2>4 DEF Knows, IsAt, GrantSteps
    <3>2. AddFriend(task[t].peer)
      BY <1>3, <2>4 DEF OnResponding, IsAt
    <3> QED BY <2>2, <3>1, <3>2 DEF Effect, AddStep
  <2> QED BY <1>3, <2>3, <2>4 DEF OnResponding
<1>4. CASE OnCancelling(t)
  <2>1. task[t] # None /\ task[t].at = "cancelledResolve"
    BY <1>4 DEF OnCancelling, IsAt
  <2>2. Stored(task[t].id) /\ task[t].id \in Id
    BY <2>1 DEF TasksKnow, Knows, AnswerSteps
  <2>3. \/ UNCHANGED tables
        \/ Pending(task[t].id) /\ Update(task[t].id, "cancelled")
    BY <1>4 DEF OnCancelling, Resolvable
  <2> QED BY <2>2, <2>3 DEF Effect, UpdateStep, Answers, Status
<1>5. CASE OnNoticing(t)
  <2>1. task[t] # None
    BY <1>5 DEF OnNoticing, Query, IsAt
  <2>2. UNCHANGED tables \/ RemoveFriend(task[t].peer)
    BY <1>5 DEF OnNoticing, Query
  <2> QED BY <2>1, <2>2, TaskTyped DEF Effect, RemoveStep
<1> QED BY <1>1, <1>2, <1>3, <1>4, <1>5 DEF Packets

(* Every step has one of these effects on the tables.                      *)
LEMMA Effects ==
  ASSUME TypeOK, TasksKnow, [Next]_vars
  PROVE  Effect
<1>1. CASE \E t \in Task : Commands(t) \/ Packets(t)
  BY <1>1, CommandEffects, PacketEffects
<1>2. CASE (\E r \in Theirs : WindowPasses(r) \/ Expire(r)) \/ Restart
  BY <1>2 DEF Effect
<1>3. CASE UNCHANGED vars
  BY <1>3 DEF vars, tables, Effect
<1> QED BY <1>1, <1>2, <1>3 DEF Next

----------------------------------------------------------------------------
(* Types of the tables.  A step that does not insert answers requests, or  *)
(* forgets one that no task works on.                                      *)

(* Row r is what it was, or it has an answer now.                          *)
RowKept(r) ==
  \/ requests'[r] = requests[r]
  \/ /\ Stored(r) /\ Stored(r)' /\ ~Pending(r)'
     /\ requests'[r].peer = requests[r].peer

RowsKept == \A r \in Id : RowKept(r)

LEMMA AnsweredRows ==
  ASSUME ConstantsAssumption, requests \in [Id -> Request \cup {None}],
         NEW S \in SUBSET {r \in Id : Stored(r)}, NEW status \in Answers,
         requests' = WithStatus(S, status)
  PROVE  /\ requests' \in [Id -> Request \cup {None}]
         /\ RowsKept
         /\ \A r \in S : ~Pending(r)'
<1>1. ASSUME NEW r \in S
      PROVE  [requests[r] EXCEPT !.status = status]
               = [peer |-> requests[r].peer, status |-> status]
  BY DEF Stored, Request
<1>2. ASSUME NEW r \in S
      PROVE  requests[r] \in Request
  BY DEF Stored
<1> QED
  BY <1>1, <1>2 DEF WithStatus, Request, RowsKept, RowKept, Stored, Pending,
                    Answers, Status, ConstantsAssumption

LEMMA UpdatedRows ==
  ASSUME ConstantsAssumption, TableTypes, UpdateStep
  PROVE  /\ requests' \in [Id -> Request \cup {None}] /\ RowsKept
         /\ friends' \subseteq friends \cup (Peer \ blocked)
         /\ \A p \in friends' \ friends :
              \E r \in Id : Stored(r) /\ requests[r].peer = p
         /\ blocked' = blocked /\ recent' = recent
<1>1. PICK r \in Id, status \in Answers : Stored(r) /\ Update(r, status)
  BY DEF UpdateStep
<1>2. /\ blocked' = blocked /\ recent' = recent
      /\ requests' = requests \/ requests' = WithStatus({r}, status)
      /\ \/ friends' = friends
         \/ /\ friends' = friends \cup {requests[r].peer}
            /\ requests[r].peer \notin blocked
  BY <1>1 DEF Update
<1>3. requests[r].peer \in Peer
  BY <1>1 DEF TableTypes, Stored, Request
<1>4. CASE requests' = requests
  BY <1>1, <1>2, <1>3, <1>4 DEF TableTypes, RowsKept, RowKept
<1>5. CASE requests' = WithStatus({r}, status)
  <2>1. requests' \in [Id -> Request \cup {None}] /\ RowsKept
    BY <1>1, <1>5, AnsweredRows DEF TableTypes
  <2> QED BY <1>1, <1>2, <1>3, <2>1
<1> QED BY <1>2, <1>4, <1>5

LEMMA DeclinedRows ==
  ASSUME ConstantsAssumption, TableTypes, NEW S \in SUBSET Id,
         \A r \in S : Pending(r),
         requests' = WithStatus(S, "declined")
  PROVE  /\ requests' \in [Id -> Request \cup {None}] /\ RowsKept
         /\ \A r \in S : ~Pending(r)'
<1>1. S \in SUBSET {r \in Id : Stored(r)} /\ "declined" \in Answers
  BY DEF Pending, Answers, Status
<1> QED BY <1>1, AnsweredRows DEF TableTypes

(* The steps that insert a request, and the one that forgets one.          *)
InsertStep(r, p) == ~Stored(r) /\ Insert(r, p)

LEMMA InsertedRows ==
  ASSUME ConstantsAssumption, TableTypes, NEW r \in Id, NEW p \in Peer,
         InsertStep(r, p)
  PROVE  /\ requests' \in [Id -> Request \cup {None}]
         /\ requests'[r] = [peer |-> p, status |-> "pending"]
         /\ ~Stored(r) /\ Stored(r)' /\ Pending(r)'
         /\ \A s \in Id \ {r} : requests'[s] = requests[s]
<1>1. [peer |-> p, status |-> "pending"] \in Request
  BY DEF Request, Status
<1>2. [peer |-> p, status |-> "pending"] # None
  BY <1>1 DEF ConstantsAssumption
<1> QED BY <1>1, <1>2 DEF InsertStep, Insert, TableTypes, Stored, Pending

(* What every step does to the rows.                                       *)
LEMMA Rows ==
  ASSUME ConstantsAssumption, TableTypes, Effect
  PROVE  /\ requests' \in [Id -> Request \cup {None}]
         /\ \/ RowsKept
            \/ SendStep
            \/ \E r \in Theirs, p \in Peer :
                 /\ InsertStep(r, p) /\ Admissible(p)
                 /\ recent' = recent \cup {r} /\ UNCHANGED blocked
            \/ \E r \in Theirs :
                 /\ Expire(r) /\ requests' = [requests EXCEPT ![r] = None]
                 /\ UNCHANGED recent
<1> USE DEF TableTypes
<1>1. CASE \/ UNCHANGED tables \/ AddStep \/ RemoveStep \/ UnblockStep
           \/ \E r \in Theirs : WindowPasses(r)
  BY <1>1 DEF tables, AddStep, AddFriend, RemoveStep, RemoveFriend,
              UnblockStep, WindowPasses, RowsKept, RowKept
<1>2. CASE UpdateStep
  BY <1>2, UpdatedRows
<1>3. CASE SendStep
  <2>1. PICK r \in Own, p \in Peer \ blocked : InsertStep(r, p)
    BY <1>3 DEF SendStep, InsertStep
  <2> QED BY <1>3, <2>1, InsertedRows DEF Id
<1>4. CASE ArrivalStep
  <2>1. PICK r \in Theirs, p \in Peer :
          /\ InsertStep(r, p) /\ Admissible(p)
          /\ recent' = recent \cup {r} /\ UNCHANGED <<friends, blocked>>
    BY <1>4 DEF ArrivalStep, InsertStep
  <2> QED BY <2>1, InsertedRows DEF Id
<1>5. CASE DeclineStep
  <2>1. PICK p \in Peer : DeclinePending(p)
    BY <1>5 DEF DeclineStep
  <2> QED BY <2>1, DeclinedRows DEF DeclinePending, PendingWith
<1>6. CASE BlockStep
  <2>1. PICK p \in Peer : Block(p)
    BY <1>6 DEF BlockStep
  <2>2. CASE p \in blocked
    BY <2>1, <2>2 DEF Block, RowsKept, RowKept
  <2>3. CASE p \notin blocked
    BY <2>1, <2>3, DeclinedRows DEF Block, PendingWith
  <2> QED BY <2>2, <2>3
<1>7. CASE \E r \in Theirs : Expire(r)
  BY <1>7 DEF Expire, Id
<1>8. CASE Restart
  BY <1>8, DeclinedRows DEF Restart
<1> QED BY <1>1, <1>2, <1>3, <1>4, <1>5, <1>6, <1>7, <1>8 DEF Effect

LEMMA RecentShrinks ==
  ASSUME ConstantsAssumption, TableTypes, Effect
  PROVE  recent' \subseteq recent \/ ArrivalStep
BY UpdatedRows
   DEF Effect, tables, AddStep, AddFriend, RemoveStep, RemoveFriend,
       UnblockStep, WindowPasses, SendStep, DeclineStep, DeclinePending,
       BlockStep, Block, Expire, Restart

LEMMA TablesTyped ==
  ASSUME ConstantsAssumption, TableTypes, Effect
  PROVE  TableTypes'
<1>1. requests' \in [Id -> Request \cup {None}]
  BY Rows
<1>2. friends' \subseteq Peer /\ blocked' \subseteq Peer
  BY UpdatedRows
     DEF Effect, TableTypes, tables, AddStep, AddFriend, RemoveStep,
         RemoveFriend, UnblockStep, WindowPasses, SendStep, ArrivalStep,
         DeclineStep, DeclinePending, BlockStep, Block, Expire, Restart
<1>3. recent' \subseteq Incoming'
  <2>1. CASE RowsKept
    <3>1. Incoming \subseteq Incoming'
      BY <2>1 DEF RowsKept, RowKept, Incoming, Stored, Id
    <3>2. ~ArrivalStep
      BY <2>1, InsertedRows DEF ArrivalStep, InsertStep, RowsKept, RowKept,
                                Stored, Id
    <3> QED BY <3>1, <3>2, RecentShrinks DEF TableTypes
  <2>2. ASSUME NEW r \in Id, NEW p \in Peer, InsertStep(r, p)
        PROVE  Incoming' = Incoming \cup ({r} \cap Theirs)
    BY <2>2, InsertedRows DEF Incoming, Stored, Id
  <2>3. CASE SendStep
    BY <2>2, <2>3 DEF SendStep, InsertStep, TableTypes, Id
  <2>4. CASE \E r \in Theirs, p \in Peer :
               InsertStep(r, p) /\ recent' = recent \cup {r}
    BY <2>2, <2>4 DEF TableTypes, Id
  <2>5. CASE \E r \in Theirs : Expire(r)
    BY <2>5 DEF Expire, TableTypes, Incoming, Stored, Id
  <2> QED BY <2>1, <2>3, <2>4, <2>5, Rows
<1> QED BY <1>1, <1>2, <1>3 DEF TableTypes

----------------------------------------------------------------------------
(* A block wins.                                                           *)

(* A pending request was pending before, and with the same peer, unless    *)
(* the step inserted it.                                                   *)
LEMMA PendingRows ==
  ASSUME RowsKept, NEW r \in Id, Pending(r)'
  PROVE  Pending(r) /\ requests'[r] = requests[r]
BY DEF RowsKept, RowKept, Pending, Stored

LEMMA BlockKept ==
  ASSUME ConstantsAssumption, TableTypes, BlockWins, Effect
  PROVE  BlockWins'
<1> SUFFICES ASSUME NEW p \in blocked'
             PROVE  p \notin friends' /\ \A r \in Id :
                      Pending(r)' => requests'[r].peer # p
  BY DEF BlockWins, PendingWith
<1>1. p \in blocked => p \notin friends /\ \A r \in Id :
                         Pending(r) => requests[r].peer # p
  BY DEF BlockWins, PendingWith
<1>2. CASE BlockStep
  <2>1. PICK q \in Peer : Block(q)
    BY <1>2 DEF BlockStep
  <2>2. CASE q \in blocked
    BY <1>1, <2>1, <2>2 DEF Block, Pending, Stored
  <2>3. CASE q \notin blocked
    <3>1. RowsKept /\ \A r \in PendingWith(Id, q) : ~Pending(r)'
      BY <2>1, <2>3, DeclinedRows DEF Block, PendingWith
    <3>2. \A r \in Id : Pending(r)' => requests'[r].peer # q
      BY <3>1, PendingRows DEF PendingWith
    <3> QED BY <1>1, <2>1, <2>3, <3>1, <3>2, PendingRows DEF Block
  <2> QED BY <2>2, <2>3
<1>3. CASE ~BlockStep
  <2>1. p \in blocked
    BY <1>3, UpdatedRows
       DEF Effect, tables, AddStep, AddFriend, RemoveStep, RemoveFriend,
           UnblockStep, WindowPasses, SendStep, ArrivalStep, DeclineStep,
           DeclinePending, Expire, Restart
  <2>2. p \notin friends'
    BY <1>1, <1>3, <2>1, UpdatedRows
       DEF Effect, tables, AddStep, AddFriend, RemoveStep, RemoveFriend,
           UnblockStep, WindowPasses, SendStep, ArrivalStep, DeclineStep,
           DeclinePending, Expire, Restart
  <2>3. ASSUME NEW r \in Id, Pending(r)'
        PROVE  requests'[r].peer # p
    <3>1. CASE RowsKept
      BY <1>1, <2>1, <2>3, <3>1, PendingRows
    <3>2. ASSUME NEW s \in Id, NEW q \in Peer \ blocked, InsertStep(s, q)
          PROVE  requests'[r].peer # p
      <4>1. /\ requests'[s] = [peer |-> q, status |-> "pending"]
            /\ \A t \in Id \ {s} : requests'[t] = requests[t]
        BY <3>2, InsertedRows
      <4>2. CASE r = s
        BY <2>1, <4>1, <4>2
      <4>3. CASE r # s
        <5>1. requests'[r] = requests[r] /\ Pending(r)
          BY <2>3, <4>1, <4>3 DEF Pending, Stored
        <5> QED BY <1>1, <2>1, <5>1
      <4> QED BY <4>2, <4>3
    <3>3. CASE \E s \in Theirs : requests' = [requests EXCEPT ![s] = None]
      BY <1>1, <2>1, <2>3, <3>3 DEF Pending, Stored, TableTypes, Id
    <3> QED BY <3>1, <3>2, <3>3, Rows DEF Admissible, SendStep, InsertStep, Id
  <2> QED BY <2>2, <2>3
<1> QED BY <1>2, <1>3

----------------------------------------------------------------------------
(* The limits on requests.                                                 *)

PendingIncoming == {r \in Incoming : Pending(r)}

LEMMA FiniteTables ==
  ASSUME ConstantsAssumption, TableTypes
  PROVE  /\ IsFiniteSet(Incoming) /\ IsFiniteSet(PendingIncoming)
         /\ \A p : IsFiniteSet(From(Incoming, p))
         /\ \A p : IsFiniteSet(From(recent, p))
<1>1. \A S \in SUBSET Theirs : IsFiniteSet(S)
  BY FS_Subset DEF ConstantsAssumption
<1> QED BY <1>1 DEF Incoming, PendingIncoming, From, TableTypes

(* A bound on a set bounds what it shrinks to, and one more element keeps  *)
(* a bound that was not reached.                                           *)
LEMMA Shrink ==
  ASSUME NEW S, NEW T \in SUBSET S, IsFiniteSet(S), NEW n \in Nat,
         Cardinality(S) <= n
  PROVE  Cardinality(T) <= n
BY FS_Subset, FS_CardinalityType

LEMMA Grow ==
  ASSUME NEW S, NEW x, IsFiniteSet(S), NEW n \in Nat, Cardinality(S) < n
  PROVE  Cardinality(S \cup {x}) <= n
<1>1. Cardinality(S) \in Nat
  BY FS_CardinalityType
<1>2. Cardinality(S \cup {x}) \in {Cardinality(S), Cardinality(S) + 1}
  BY FS_AddElement
<1> QED BY <1>1, <1>2

(* The limits hold after a step that inserts no incoming request.          *)
LEMMA LimitsShrink ==
  ASSUME ConstantsAssumption, TableTypes, LimitsHold,
         recent' \subseteq recent, Incoming' \subseteq Incoming,
         \A r \in Incoming' : /\ requests'[r].peer = requests[r].peer
                              /\ Pending(r)' => Pending(r),
         recent' \subseteq Incoming'
  PROVE  LimitsHold'
<1>1. Cardinality(Incoming') <= MaxIncoming
  BY FiniteTables, Shrink DEF LimitsHold, ConstantsAssumption
<1>2. Cardinality(PendingIncoming') <= MaxPending
  <2>1. PendingIncoming' \subseteq PendingIncoming
    BY DEF PendingIncoming
  <2> QED BY <2>1, FiniteTables, Shrink
          DEF LimitsHold, ConstantsAssumption, PendingIncoming
<1>3. ASSUME NEW p \in Peer
      PROVE  /\ Cardinality(From(Incoming, p)') <= MaxIncomingPerPeer
             /\ Cardinality(From(recent, p)') <= MaxPerWindow
             /\ \A r, s \in PendingWith(Theirs, p)' : r = s
  <2>1. From(Incoming, p)' \subseteq From(Incoming, p)
        /\ From(recent, p)' \subseteq From(recent, p)
    BY DEF From
  <2>2. PendingWith(Theirs, p)' \subseteq PendingWith(Theirs, p)
    BY DEF PendingWith, Incoming, Pending
  <2> QED BY <2>1, <2>2, FiniteTables, Shrink
          DEF LimitsHold, ConstantsAssumption
<1> QED BY <1>1, <1>2, <1>3 DEF LimitsHold, PendingIncoming

(* They hold after the insertion of a request that was admissible.         *)
LEMMA LimitsGrow ==
  ASSUME ConstantsAssumption, TableTypes, LimitsHold,
         NEW r \in Theirs, NEW p \in Peer, InsertStep(r, p), Admissible(p),
         recent' = recent \cup {r}
  PROVE  LimitsHold'
<1>1. /\ requests'[r] = [peer |-> p, status |-> "pending"]
      /\ ~Stored(r) /\ Stored(r)' /\ Pending(r)'
      /\ \A s \in Id \ {r} : requests'[s] = requests[s]
  BY InsertedRows DEF Id
<1>2. requests'[r].peer = p
  BY <1>1
<1>3. \A s \in Theirs \ {r} : /\ requests'[s] = requests[s]
                              /\ Stored(s)' <=> Stored(s)
                              /\ Pending(s)' <=> Pending(s)
  BY <1>1 DEF Id, Stored, Pending
<1>4. Incoming' = Incoming \cup {r} /\ r \notin Incoming
  BY <1>1, <1>3 DEF Incoming
<1>5. PendingIncoming' = PendingIncoming \cup {r}
  BY <1>1, <1>3, <1>4 DEF PendingIncoming, Incoming
<1>6. recent \subseteq Theirs \ {r}
  BY <1>4 DEF TableTypes, Incoming
<1>7. ASSUME NEW q \in Peer
      PROVE  /\ From(Incoming, q)' =
                  IF q = p THEN From(Incoming, p) \cup {r} ELSE From(Incoming, q)
             /\ From(recent, q)' =
                  IF q = p THEN From(recent, p) \cup {r} ELSE From(recent, q)
             /\ PendingWith(Theirs, q)' =
                  IF q = p THEN PendingWith(Theirs, p) \cup {r}
                           ELSE PendingWith(Theirs, q)
  <2>1. From(Incoming, q)' = {s \in Incoming \cup {r} : requests'[s].peer = q}
    BY <1>4 DEF From
  <2>2. From(recent, q)' = {s \in recent \cup {r} : requests'[s].peer = q}
    BY DEF From
  <2>3. PendingWith(Theirs, q)' =
          {s \in Theirs : Pending(s)' /\ requests'[s].peer = q}
    BY DEF PendingWith
  <2>4. \A s \in Incoming : requests'[s] = requests[s]
    BY <1>3, <1>4 DEF Incoming
  <2>5. \A s \in recent : requests'[s] = requests[s]
    BY <1>3, <1>6
  <2>6. From(Incoming, q)' =
          IF q = p THEN From(Incoming, p) \cup {r} ELSE From(Incoming, q)
    BY <1>2, <2>1, <2>4 DEF From
  <2>7. From(recent, q)' =
          IF q = p THEN From(recent, p) \cup {r} ELSE From(recent, q)
    BY <1>2, <2>2, <2>5 DEF From
  <2>8. PendingWith(Theirs, q)' =
          IF q = p THEN PendingWith(Theirs, p) \cup {r}
                   ELSE PendingWith(Theirs, q)
    <3>1. ~Pending(r)
      BY <1>1 DEF Pending
    <3> QED BY <1>1, <1>2, <1>3, <2>3, <3>1 DEF PendingWith
  <2> QED BY <2>6, <2>7, <2>8
<1>8. Cardinality(Incoming') <= MaxIncoming
  BY <1>4, FiniteTables, Grow DEF Admissible, ConstantsAssumption
<1>9. Cardinality(PendingIncoming') <= MaxPending
  BY <1>5, FiniteTables, Grow
     DEF Admissible, ConstantsAssumption, PendingIncoming
<1>10. ASSUME NEW q \in Peer
       PROVE  /\ Cardinality(From(Incoming, q)') <= MaxIncomingPerPeer
              /\ Cardinality(From(recent, q)') <= MaxPerWindow
              /\ \A s, t \in PendingWith(Theirs, q)' : s = t
  <2>1. CASE q = p
    <3>1. PendingWith(Theirs, p) = {}
      BY DEF Admissible
    <3> QED BY <1>7, <2>1, <3>1, FiniteTables, Grow
            DEF Admissible, ConstantsAssumption
  <2>2. CASE q # p
    BY <1>7, <2>2 DEF LimitsHold
  <2> QED BY <2>1, <2>2
<1> QED BY <1>8, <1>9, <1>10 DEF LimitsHold, PendingIncoming

LEMMA LimitsKept ==
  ASSUME ConstantsAssumption, TableTypes, LimitsHold, Effect
  PROVE  LimitsHold'
<1>1. TableTypes'
  BY TablesTyped
<1>2. recent' \subseteq Incoming'
  BY <1>1 DEF TableTypes
<1>3. CASE ArrivalStep
  BY <1>3, LimitsGrow DEF ArrivalStep, InsertStep
<1>4. CASE ~ArrivalStep
  <2>1. recent' \subseteq recent
    BY <1>4, RecentShrinks
  <2>2. /\ Incoming' \subseteq Incoming
        /\ \A r \in Incoming' : /\ requests'[r].peer = requests[r].peer
                                /\ Pending(r)' => Pending(r)
    <3>1. CASE RowsKept
      BY <3>1 DEF RowsKept, RowKept, Incoming, Stored, Pending, Id
    <3>2. CASE \E r \in Own, p \in Peer : InsertStep(r, p)
      <4>1. \A s \in Theirs : requests'[s] = requests[s]
        BY <3>2, InsertedRows DEF Id, ConstantsAssumption
      <4> QED BY <4>1 DEF Incoming, Stored, Pending
    <3>5. SendStep => \E r \in Own, p \in Peer : InsertStep(r, p)
      BY DEF SendStep, InsertStep
    <3>3. CASE \E r \in Theirs, p \in Peer :
                 InsertStep(r, p) /\ recent' = recent \cup {r}
      <4>1. PICK r \in Theirs, p \in Peer :
              InsertStep(r, p) /\ recent' = recent \cup {r}
        BY <3>3
      <4>2. r \notin recent
        BY <4>1 DEF InsertStep, TableTypes, Incoming
      <4> QED BY <2>1, <4>1, <4>2
    <3>4. CASE \E r \in Theirs : requests' = [requests EXCEPT ![r] = None]
      BY <3>4 DEF Incoming, Stored, Pending, TableTypes, Id
    <3> QED BY <3>1, <3>2, <3>3, <3>4, <3>5, Rows
  <2> QED BY <1>2, <2>1, <2>2, LimitsShrink
<1> QED BY <1>3, <1>4

----------------------------------------------------------------------------
(* What the tasks know stays true.                                         *)

(* A request that a task works on stays stored, with its peer.             *)
LEMMA HeldRows ==
  ASSUME ConstantsAssumption, TypeOK, Effect, NEW u \in Task,
         task[u] # None, task[u].id \in Id, Stored(task[u].id)
  PROVE  /\ requests'[task[u].id] # None
         /\ requests'[task[u].id].peer = requests[task[u].id].peer
<1> DEFINE r == task[u].id
<1>0. TableTypes
  BY DEF TypeOK, TableTypes
<1>1. CASE RowsKept
  BY <1>1 DEF RowsKept, RowKept, Stored
<1>2. ASSUME NEW s \in Id, NEW p \in Peer, InsertStep(s, p)
      PROVE  requests'[r] = requests[r]
  <2>1. r # s
    BY <1>2 DEF InsertStep
  <2> QED BY <1>0, <1>2, <2>1, InsertedRows
<1>3. ASSUME NEW s \in Theirs, Expire(s)
      PROVE  requests'[r] = requests[r]
  BY <1>0, <1>3 DEF Expire, TableTypes
<1> QED BY <1>0, <1>1, <1>2, <1>3, Rows DEF Stored, SendStep, InsertStep, Id

(* The id of a request that is being sent stays unused, until its own task *)
(* inserts it.                                                             *)
LEMMA UnusedRows ==
  ASSUME ConstantsAssumption, TypeOK, TasksKnow, Effect, NEW u \in Task,
         task[u] # None, task'[u] # None, task[u].at \in SendSteps
  PROVE  requests'[task[u].id] = None
<1> DEFINE r == task[u].id
<1>0. TableTypes
  BY DEF TypeOK, TableTypes
<1>1. /\ r \in Own /\ ~Stored(r)
      /\ \A t \in Task \ {u} : task[t] # None => task[t].id # r
  BY DEF TasksKnow, Knows
<1>2. CASE RowsKept
  BY <1>1, <1>2 DEF RowsKept, RowKept, Stored, Id
<1>3. CASE SendStep
  <2>1. PICK s \in Own, p \in Peer, t \in Task :
          /\ InsertStep(s, p)
          /\ task[t] # None /\ task[t].id = s /\ task'[t] = None
    BY <1>3 DEF SendStep, InsertStep
  <2>2. s # r /\ s \in Id /\ r \in Id
    BY <1>1, <2>1 DEF Id
  <2>3. requests'[r] = requests[r]
    BY <1>0, <2>1, <2>2, InsertedRows
  <2> QED BY <1>1, <2>3 DEF Stored
<1>4. ASSUME NEW s \in Theirs, NEW p \in Peer, InsertStep(s, p)
      PROVE  requests'[r] = None
  <2>1. s # r /\ s \in Id /\ r \in Id
    BY <1>1 DEF Id, ConstantsAssumption
  <2>2. requests'[r] = requests[r]
    BY <1>0, <1>4, <2>1, InsertedRows
  <2> QED BY <1>1, <2>2 DEF Stored
<1>5. ASSUME NEW s \in Theirs, Expire(s)
      PROVE  requests'[r] = None
  BY <1>0, <1>1, <1>5 DEF Expire, Stored, TableTypes, Id
<1> QED BY <1>0, <1>2, <1>3, <1>4, <1>5, Rows

(* The work w that a step gives to task t, judged by the tables after it.  *)
Fits(t, w) ==
  /\ w \in Work
  /\ w.at \in SendSteps => w.id \in Own /\ requests'[w.id] = None
  /\ w.at \in ArrivalSteps => w.id \in Theirs
  /\ w.at \in AnswerSteps => w.id \in Id /\ requests'[w.id] # None
  /\ w.at \in GrantSteps =>
       w.id \in Id /\ requests'[w.id] # None /\ requests'[w.id].peer = w.peer
  /\ \A u \in Task \ {t} :
       task[u] # None /\ (task[u].at \in SendSteps \/ w.at \in SendSteps)
         => task[u].id # w.id

LEMMA Assigned ==
  ASSUME ConstantsAssumption, TypeOK, TasksKnow, Effect, NEW t \in Task,
         NEW w, w = None \/ Fits(t, w), task' = [task EXCEPT ![t] = w]
  PROVE  task' \in [Task -> Work \cup {None}] /\ TasksKnow'
<1>1. task' \in [Task -> Work \cup {None}]
  BY DEF TypeOK, Fits
<1>2. ASSUME NEW u \in Task, task'[u] # None, u # t
      PROVE  Knows(u)'
  <2>1. task'[u] = task[u] /\ task[u] # None /\ Knows(u)
    BY <1>2 DEF TypeOK, TasksKnow
  <2>2. task[u].at \in SendSteps =>
          /\ requests'[task[u].id] = None
          /\ \A v \in Task \ {u} : task'[v] # None => task'[v].id # task[u].id
    <3> SUFFICES ASSUME task[u].at \in SendSteps
                 PROVE  /\ requests'[task[u].id] = None
                        /\ \A v \in Task \ {u} :
                             task'[v] # None => task'[v].id # task[u].id
      OBVIOUS
    <3>1. requests'[task[u].id] = None
      BY <2>1, <1>2, UnusedRows
    <3>2. ASSUME NEW v \in Task \ {u}, task'[v] # None
          PROVE  task'[v].id # task[u].id
      BY <1>2, <2>1, <3>2 DEF TypeOK, Knows, Fits
    <3> QED BY <3>1, <3>2
  <2>3. task[u].id \in Id /\ Stored(task[u].id) =>
          requests'[task[u].id] # None
          /\ requests'[task[u].id].peer = requests[task[u].id].peer
    BY <2>1, HeldRows
  <2> QED BY <2>1, <2>2, <2>3 DEF Knows, Stored
<1>3. ASSUME task'[t] # None
      PROVE  Knows(t)'
  <2>1. task'[t] = w /\ Fits(t, w)
    BY <1>3 DEF TypeOK
  <2>2. \A u \in Task \ {t} : task'[u] = task[u]
    BY DEF TypeOK
  <2> QED BY <2>1, <2>2 DEF Fits, Knows, Stored
<1> QED BY <1>1, <1>2, <1>3 DEF TasksKnow

(* A task that goes on with the request it has keeps what it knows of it.  *)
LEMMA GoesOn ==
  ASSUME ConstantsAssumption, TypeOK, TasksKnow, Effect, NEW t \in Task,
         task[t] # None, NEW next \in Statements,
         next \in SendSteps => task[t].at \in SendSteps,
         next \in ArrivalSteps => task[t].at \in ArrivalSteps,
         next \in AnswerSteps => task[t].at \in AnswerSteps,
         next \in GrantSteps =>
           \/ task[t].at \in GrantSteps
           \/ /\ task[t].id \in Id /\ Stored(task[t].id)
              /\ requests[task[t].id].peer = task[t].peer,
         Goto(t, next)
  PROVE  \E w : Fits(t, w) /\ task' = [task EXCEPT ![t] = w]
<1> DEFINE w == [at |-> next, peer |-> task[t].peer, id |-> task[t].id,
                 accept |-> task[t].accept]
<1>1. task[t] \in Work /\ Knows(t)
  BY DEF TypeOK, TasksKnow
<1>2. w \in Work
  BY <1>1 DEF Work
<1>3. [task[t] EXCEPT !.at = next] = w
  BY <1>1 DEF Work
<1>4. task' = [task EXCEPT ![t] = w]
  BY <1>3 DEF Goto, TypeOK
<1>5. task'[t] # None
  BY <1>2, <1>4 DEF TypeOK, ConstantsAssumption
<1>6. task[t].at \in SendSteps => requests'[task[t].id] = None /\ task[t].id \in Own
  BY <1>1, <1>5, UnusedRows DEF Knows
<1>7. task[t].id \in Id /\ Stored(task[t].id) =>
        requests'[task[t].id] # None
        /\ requests'[task[t].id].peer = requests[task[t].id].peer
  BY HeldRows
<1>8. \A u \in Task \ {t} :
        task[u] # None /\ (task[u].at \in SendSteps \/ next \in SendSteps)
          => task[u].id # task[t].id
  BY <1>1 DEF TasksKnow, Knows
<1> HIDE DEF w
<1>9. /\ w.at = next /\ w.id = task[t].id /\ w.peer = task[t].peer
  BY DEF w
<1>10. Fits(t, w)
  BY <1>1, <1>2, <1>6, <1>7, <1>8, <1>9 DEF Fits, Knows
<1> QED BY <1>4, <1>10

(* A task that begins.                                                     *)
LEMMA Starts ==
  ASSUME ConstantsAssumption, TypeOK, TasksKnow, NEW t \in Task,
         NEW first \in Statements, NEW p \in Peer, NEW r \in Id \cup {None},
         NEW accept \in BOOLEAN, NEW goOn, goOn => (
           /\ first \in SendSteps => r \in Own /\ Unused(r)
           /\ first \in ArrivalSteps => r \in Theirs
           /\ first \in AnswerSteps => r \in Id /\ Stored(r)
           /\ first \in GrantSteps =>
                r \in Id /\ Stored(r) /\ requests[r].peer = p
           /\ first \notin SendSteps => r \notin Own \/ Stored(r)),
         Begin(t, goOn, first, p, r, accept)
  PROVE  \E w : Fits(t, w) /\ task' = [task EXCEPT ![t] = w]
<1> DEFINE w == [at |-> first, peer |-> p, id |-> r, accept |-> accept]
<1>1. /\ goOn /\ task' = [task EXCEPT ![t] = w]
      /\ requests' = requests
  BY DEF Begin, tables
<1>2. w \in Work
  BY DEF Work
<1>3. \A u \in Task \ {t} :
        task[u] # None /\ (task[u].at \in SendSteps \/ first \in SendSteps)
          => task[u].id # r
  BY <1>1 DEF TasksKnow, Knows, Unused
<1>4. w.at = first /\ w.peer = p /\ w.id = r
  OBVIOUS
<1>5. first \in SendSteps => requests[r] = None
  BY <1>1 DEF Unused, Stored
<1> HIDE DEF w
<1>6. Fits(t, w)
  BY <1>1, <1>2, <1>3, <1>4, <1>5 DEF Fits, Stored
<1> QED BY <1>1, <1>6

(* Every task step gives the task work that fits, or ends it.              *)
Moves(t) == \E w : (w = None \/ Fits(t, w)) /\ task' = [task EXCEPT ![t] = w]

LEMMA RowPeer ==
  ASSUME TypeOK, NEW r \in Id, Stored(r)
  PROVE  requests[r].peer \in Peer
BY DEF TypeOK, Stored, Request

LEMMA CommandStarts ==
  ASSUME ConstantsAssumption, TypeOK, TasksKnow, NEW t \in Task,
         Send(t) \/ Respond(t) \/ Cancel(t) \/ Unfriend(t) \/ BlockPeer(t)
           \/ UnblockPeer(t)
  PROVE  Moves(t)
<1> USE DEF Moves, Statements, SendSteps, ArrivalSteps, AnswerSteps, GrantSteps
<1>1. CASE Send(t)
  <2>1. PICK p \in Peer, r \in Own :
          Begin(t, ~IsFriend(p) /\ Unused(r), "sendBlocked", p, r, FALSE)
    BY <1>1 DEF Send
  <2> QED BY <2>1, Starts DEF Id
<1>2. CASE Respond(t)
  <2>1. PICK r \in Theirs, accept \in BOOLEAN :
          Begin(t, Pending(r), "respondUpdate", requests[r].peer, r, accept)
    BY <1>2 DEF Respond
  <2>2. Stored(r) /\ r \in Id
    BY <2>1 DEF Begin, Pending, Id
  <2> QED BY <2>1, <2>2, RowPeer, Starts
<1>3. CASE Cancel(t)
  <2>1. PICK r \in Own :
          Begin(t, Pending(r), "cancelUpdate", requests[r].peer, r, FALSE)
    BY <1>3 DEF Cancel
  <2>2. Stored(r) /\ r \in Id
    BY <2>1 DEF Begin, Pending, Id
  <2> QED BY <2>1, <2>2, RowPeer, Starts
<1>4. None \notin Own
  BY DEF ConstantsAssumption, Id
<1>5. CASE Unfriend(t)
  <2>1. PICK p \in Peer :
          Begin(t, IsFriend(p), "unfriendRemove", p, None, FALSE)
    BY <1>5 DEF Unfriend
  <2> QED BY <1>4, <2>1, Starts
<1>6. CASE BlockPeer(t)
  <2>1. PICK p \in Peer :
          Begin(t, p \notin blocked, "blockRemove", p, None, FALSE)
    BY <1>6 DEF BlockPeer
  <2> QED BY <1>4, <2>1, Starts
<1>7. CASE UnblockPeer(t)
  <2>1. PICK p \in Peer :
          Begin(t, p \in blocked, "unblockRemove", p, None, FALSE)
    BY <1>7 DEF UnblockPeer
  <2> QED BY <1>4, <2>1, Starts
<1> QED BY <1>1, <1>2, <1>3, <1>5, <1>6, <1>7

LEMMA PacketStarts ==
  ASSUME ConstantsAssumption, TypeOK, TasksKnow, NEW t \in Task,
         OnRequest(t) \/ OnResponse(t) \/ OnCancelled(t) \/ OnNotice(t)
  PROVE  Moves(t)
<1> USE DEF Moves, Statements, SendSteps, ArrivalSteps, AnswerSteps, GrantSteps
<1>1. CASE OnRequest(t)
  <2>1. PICK p \in Peer, r \in Theirs :
          Begin(t, p \notin blocked, "requestKnown", p, r, FALSE)
    BY <1>1 DEF OnRequest
  <2> QED BY <2>1, Starts DEF Id, ConstantsAssumption
<1>2. CASE OnResponse(t)
  <2>1. PICK p \in Peer, r \in Own, accept \in BOOLEAN :
          Begin(t, Pending(r), "responseResolve", p, r, accept)
    BY <1>2 DEF OnResponse
  <2>2. Stored(r) /\ r \in Id
    BY <2>1 DEF Begin, Pending, Id
  <2> QED BY <2>1, <2>2, Starts
<1>3. CASE OnCancelled(t)
  <2>1. PICK p \in Peer, r \in Theirs :
          Begin(t, Pending(r), "cancelledResolve", p, r, FALSE)
    BY <1>3 DEF OnCancelled
  <2>2. Stored(r) /\ r \in Id
    BY <2>1 DEF Begin, Pending, Id
  <2> QED BY <2>1, <2>2, Starts
<1>4. CASE OnNotice(t)
  <2>1. PICK p \in Peer : Begin(t, TRUE, "noticeFriend", p, None, FALSE)
    BY <1>4 DEF OnNotice
  <2>2. None \notin Own
    BY DEF ConstantsAssumption, Id
  <2> QED BY <2>1, <2>2, Starts
<1> QED BY <1>1, <1>2, <1>3, <1>4

LEMMA CommandMoves ==
  ASSUME ConstantsAssumption, TypeOK, TasksKnow, Effect, NEW t \in Task,
         Commands(t)
  PROVE  Moves(t)
<1> USE DEF Moves, Statements, SendSteps, ArrivalSteps, AnswerSteps, GrantSteps
<1>1. CASE Send(t) \/ Respond(t) \/ Cancel(t) \/ Unfriend(t) \/ BlockPeer(t)
           \/ UnblockPeer(t)
  BY <1>1, CommandStarts
<1>2. CASE End(t)
  BY <1>2 DEF End
<1>3. CASE Sending(t)
  BY <1>2, <1>3, GoesOn DEF Sending, Query, IsAt
<1>4. CASE Responding(t)
  <2>1. CASE IsAt(t, "respondUpdate")
    <3>1. End(t) \/ Goto(t, "respondAdd")
      BY <1>4, <2>1 DEF Responding, IsAt
    <3> QED BY <1>2, <2>1, <3>1, GoesOn DEF IsAt
  <2>2. CASE IsAt(t, "respondAdd")
    <3>1. Goto(t, "respondPending")
      BY <1>4, <2>2 DEF Responding, IsAt
    <3> QED BY <2>2, <3>1, GoesOn DEF IsAt
  <2>3. CASE IsAt(t, "respondPending")
    <3>1. CASE End(t)
      BY <1>2, <3>1
    <3>2. CASE ~End(t)
      <4>1. PICK s \in PendingWith(Own, task[t].peer) :
              task' = [task EXCEPT ![t] =
                         [at |-> "respondCancel", peer |-> task[t].peer,
                          id |-> s, accept |-> TRUE]]
        BY <1>4, <2>3, <3>2 DEF Responding, IsAt
      <4> DEFINE w == [at |-> "respondCancel", peer |-> task[t].peer,
                       id |-> s, accept |-> TRUE]
      <4>2. task[t] \in Work /\ requests' = requests
        BY <1>4, <2>3 DEF Responding, IsAt, TypeOK, tables
      <4>3. s \in Own /\ s \in Id /\ Stored(s)
        BY <4>1 DEF PendingWith, Pending, Id
      <4>4. w \in Work
        BY <4>2, <4>3 DEF Work
      <4>5. task' = [task EXCEPT ![t] = w]
        BY <4>1
      <4>6. \A u \in Task : task[u] # None /\ task[u].at \in SendSteps
              => task[u].id # s
        BY <4>3 DEF TasksKnow, Knows
      <4>7. w.at = "respondCancel" /\ w.id = s
        OBVIOUS
      <4> HIDE DEF w
      <4>8. Fits(t, w)
        BY <4>2, <4>3, <4>4, <4>6, <4>7 DEF Fits, Stored
      <4> QED BY <4>5, <4>8
    <3> QED BY <3>1, <3>2
  <2>4. CASE IsAt(t, "respondCancel")
    BY <1>2, <1>4, <2>4 DEF Responding, IsAt
  <2> QED BY <1>4, <2>1, <2>2, <2>3, <2>4 DEF Responding
<1>5. CASE Cancelling(t) \/ Unfriending(t) \/ Unblocking(t)
  BY <1>2, <1>5 DEF Cancelling, Unfriending, Unblocking
<1>6. CASE Blocking(t)
  <2>1. /\ task[t] # None
        /\ \/ End(t)
           \/ task[t].at = "blockRemove" /\ Goto(t, "blockDecline")
           \/ task[t].at = "blockDecline" /\ Goto(t, "blockInsert")
    BY <1>6 DEF Blocking, IsAt
  <2> QED BY <1>2, <2>1, GoesOn
<1> QED BY <1>1, <1>3, <1>4, <1>5, <1>6 DEF Commands

LEMMA PacketMoves ==
  ASSUME ConstantsAssumption, TypeOK, TasksKnow, Effect, NEW t \in Task,
         Packets(t)
  PROVE  Moves(t)
<1> USE DEF Moves, Statements, SendSteps, ArrivalSteps, AnswerSteps, GrantSteps
<1>1. CASE OnRequest(t) \/ OnResponse(t) \/ OnCancelled(t) \/ OnNotice(t)
  BY <1>1, PacketStarts
<1>2. CASE End(t)
  BY <1>2 DEF End
<1>3. CASE Requesting(t)
  BY <1>2, <1>3, GoesOn DEF Requesting, Query, IsAt
<1>4. CASE OnResponding(t)
  <2>1. CASE IsAt(t, "responseResolve")
    <3>1. \/ End(t)
          \/ /\ Goto(t, "responseAdd") /\ Pending(task[t].id)
             /\ requests[task[t].id].peer = task[t].peer
      BY <1>4, <2>1 DEF OnResponding, IsAt, Resolvable
    <3>2. task[t] # None /\ task[t].at = "responseResolve"
      BY <2>1 DEF IsAt
    <3>3. task[t].id \in Id /\ Stored(task[t].id)
      BY <3>2 DEF TasksKnow, Knows
    <3> QED BY <1>2, <3>1, <3>2, <3>3, GoesOn
  <2>2. CASE IsAt(t, "responseAdd")
    BY <1>2, <1>4, <2>2 DEF OnResponding, IsAt
  <2> QED BY <1>4, <2>1, <2>2 DEF OnResponding
<1>5. CASE OnCancelling(t)
  BY <1>2, <1>5 DEF OnCancelling
<1>6. CASE OnNoticing(t)
  <2>1. End(t) \/ (/\ task[t] # None /\ task[t].at = "noticeFriend"
                   /\ Goto(t, "noticeRemove"))
    BY <1>6 DEF OnNoticing, Query, IsAt
  <2> QED BY <1>2, <2>1, GoesOn
<1> QED BY <1>1, <1>3, <1>4, <1>5, <1>6 DEF Packets

----------------------------------------------------------------------------
(* The invariant.                                                          *)

LEMMA TasksKept ==
  ASSUME ConstantsAssumption, TypeOK, TasksKnow, [Next]_vars
  PROVE  task' \in [Task -> Work \cup {None}] /\ TasksKnow'
<1>1. Effect
  BY Effects
<1>2. ASSUME NEW t \in Task, Commands(t) \/ Packets(t)
      PROVE  task' \in [Task -> Work \cup {None}] /\ TasksKnow'
  <2>1. Moves(t)
    BY <1>1, <1>2, CommandMoves, PacketMoves
  <2> QED BY <1>1, <2>1, Assigned DEF Moves
<1>3. ASSUME NEW r \in Theirs, WindowPasses(r)
      PROVE  task' \in [Task -> Work \cup {None}] /\ TasksKnow'
  BY <1>3 DEF WindowPasses, TypeOK, TasksKnow, Knows, Stored
<1>4. ASSUME NEW r \in Theirs, Expire(r)
      PROVE  task' \in [Task -> Work \cup {None}] /\ TasksKnow'
  <2>1. task' = task /\ \A t \in Task : task[t] # None => task[t].id # r
    BY <1>4 DEF Expire
  <2>2. \A s \in Id \ {r} : requests'[s] = requests[s]
    BY <1>4 DEF Expire, TypeOK
  <2>3. ASSUME NEW t \in Task, task'[t] # None
        PROVE  Knows(t)'
    BY <2>1, <2>2, <2>3 DEF TasksKnow, Knows, Stored, Id
  <2> QED BY <2>1, <2>3 DEF TypeOK, TasksKnow
<1>5. CASE Restart
  BY <1>5 DEF Restart, TasksKnow
<1>6. CASE UNCHANGED vars
  BY <1>6 DEF vars, TypeOK, TasksKnow, Knows, Stored
<1> QED BY <1>2, <1>3, <1>4, <1>5, <1>6 DEF Next

(* The invariant holds in every reachable state.                           *)
THEOREM Invariant == Spec => []IInv
<1> USE ConstantsAssumption
<1>1. Init => IInv
  <2> SUFFICES ASSUME Init
               PROVE  IInv
    OBVIOUS
  <2>1. TypeOK /\ TasksKnow /\ BlockWins
    BY DEF Init, TypeOK, TasksKnow, BlockWins
  <2>2. Incoming = {} /\ recent = {} /\ \A r \in Id : ~Pending(r)
    BY DEF Init, Incoming, Stored, Pending, Id
  <2>3. \A p \in Peer : From(Incoming, p) = {} /\ From(recent, p) = {}
                        /\ PendingWith(Theirs, p) = {}
    BY <2>2 DEF From, PendingWith, Id
  <2>4. {r \in Incoming : Pending(r)} = {}
    BY <2>2
  <2>5. LimitsHold
    BY <2>2, <2>3, <2>4, FS_EmptySet DEF LimitsHold, ConstantsAssumption
  <2> QED BY <2>1, <2>5 DEF IInv
<1>2. IInv /\ [Next]_vars => IInv'
  <2> SUFFICES ASSUME IInv, [Next]_vars
               PROVE  IInv'
    OBVIOUS
  <2> USE DEF IInv
  <2>1. Effect /\ TableTypes
    BY Effects DEF TypeOK, TableTypes
  <2>2. TypeOK' /\ TasksKnow'
    BY <2>1, TasksKept, TablesTyped DEF TypeOK, TableTypes
  <2> QED BY <2>1, <2>2, BlockKept, LimitsKept
<1> QED BY <1>1, <1>2, PTL DEF Spec

(* The tables and tasks keep their types.                                  *)
THEOREM Typed == Spec => []TypeOK
<1>1. IInv => TypeOK
  BY DEF IInv
<1> QED BY <1>1, Invariant, PTL

(* A blocked peer is nobody's friend and has no pending request.           *)
THEOREM Blocked == Spec => []BlockWins
<1>1. IInv => BlockWins
  BY DEF IInv
<1> QED BY <1>1, Invariant, PTL

(* The stored requests stay within their limits.                           *)
THEOREM Limits == Spec => []LimitsHold
<1>1. IInv => LimitsHold
  BY DEF IInv
<1> QED BY <1>1, Invariant, PTL

(* Who becomes a friend was asked or has asked.                            *)
THEOREM Asked == Spec => FriendsAsked
<1>1. IInv /\ [Next]_vars =>
        [\A p \in friends' \ friends :
           \E r \in Id : Stored(r) /\ requests[r].peer = p]_vars
  <2> SUFFICES ASSUME IInv, [Next]_vars, NEW p \in friends' \ friends
               PROVE  \E r \in Id : Stored(r) /\ requests[r].peer = p
    OBVIOUS
  <2>1. Effect /\ TableTypes
    BY Effects DEF IInv, TypeOK, TableTypes
  <2>2. UpdateStep \/ AddStep
    BY <2>1 DEF Effect, tables, SendStep, ArrivalStep, RemoveStep,
                RemoveFriend, DeclineStep, DeclinePending, BlockStep, Block,
                UnblockStep, WindowPasses, Expire, Restart
  <2> QED BY <2>1, <2>2, UpdatedRows, ConstantsAssumption
          DEF AddStep, AddFriend
<1> QED BY <1>1, Invariant, PTL DEF Spec, FriendsAsked

(* No packet changes a request that has its answer.                        *)
THEOREM Answered == Spec => AnswersKept
<1> DEFINE Overwritten(r) ==
      \E t \in Task : /\ task[t] # None /\ task[t].id = r
                      /\ task[t].at \in
                           {"respondUpdate", "respondCancel", "cancelUpdate"}
<1>1. IInv /\ [Next]_vars =>
        [\A r \in Id :
           Stored(r) /\ ~Pending(r) /\ requests'[r] \notin {requests[r], None}
             => Overwritten(r)]_vars
  <2> SUFFICES ASSUME IInv, [Next]_vars, NEW r \in Id, Stored(r), ~Pending(r),
                      requests'[r] \notin {requests[r], None}
               PROVE  Overwritten(r)
    OBVIOUS
  <2>1. Effect /\ TableTypes
    BY Effects DEF IInv, TypeOK, TableTypes
  <2>2. ASSUME NEW S \in SUBSET {s \in Id : Pending(s)},
               requests' = WithStatus(S, "declined")
        PROVE  FALSE
    BY <2>2 DEF WithStatus
  <2>3. ~DeclineStep
    BY <2>2 DEF DeclineStep, DeclinePending, PendingWith
  <2>4. ~BlockStep
    BY <2>2 DEF BlockStep, Block, PendingWith
  <2>5. ~Restart
    BY <2>2 DEF Restart
  <2>6. ~SendStep /\ ~ArrivalStep
    <3>1. ASSUME NEW s \in Id, NEW p \in Peer, InsertStep(s, p)
          PROVE  requests'[r] = requests[r]
      <4>1. s # r
        BY <3>1 DEF InsertStep
      <4> QED BY <2>1, <3>1, <4>1, InsertedRows, ConstantsAssumption
    <3> QED BY <3>1 DEF SendStep, ArrivalStep, InsertStep, Id
  <2>7. ~\E s \in Theirs : Expire(s)
    BY <2>1 DEF Expire, TableTypes
  <2>8. UpdateStep
    BY <2>1, <2>3, <2>4, <2>5, <2>6, <2>7
       DEF Effect, tables, AddStep, AddFriend, RemoveStep, RemoveFriend,
           UnblockStep, WindowPasses
  <2>9. PICK s \in Id, status \in Answers :
          /\ Pending(s) \/ Overwritten(s)
          /\ Update(s, status)
    BY <2>8 DEF UpdateStep
  <2>10. requests' = requests \/ requests' = WithStatus({s}, status)
    BY <2>9 DEF Update
  <2>11. s = r
    BY <2>10 DEF WithStatus
  <2> QED BY <2>9, <2>11
<1> QED BY <1>1, Invariant, PTL DEF Spec, AnswersKept
=============================================================================
