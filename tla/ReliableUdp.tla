----------------------------- MODULE ReliableUdp -----------------------------
(***************************************************************************)
(* The packets one node sends another over one UDP session                 *)
(* (backend/meshtalk/udp_transport.py: send_packet, _handle_data,          *)
(* _send_ack, _handle_ack and the cleanup in _maintenance_loop): a packet  *)
(* is split into fragments, the whole set is sent again at intervals, the  *)
(* receiver reassembles, remembers what it handed over and acknowledges.   *)
(*                                                                         *)
(* Datagrams may be lost, repeated and overtake each other, but none       *)
(* arrives later than Lifetime after it was sent; since all fragments of a *)
(* round leave together, the countdown of the last round says whether a    *)
(* fragment can still arrive.  Time passes by Tick, which counts all       *)
(* timers down; the event loop is never behind, so a timer that is over is *)
(* served before time passes.  message_id is random and taken as unique.   *)
(***************************************************************************)
EXTENDS Integers, FiniteSets

CONSTANTS
  Msg,             \* packets, by message_id
  Parts,           \* the number of fragments of a packet
  MaxFragments,    \* MAX_FRAGMENTS
  Rounds,          \* MAX_RETRIES, how often the fragments are sent
  RetryInterval,   \* RETRY_INTERVAL
  SeenLife,        \* SESSION_TIMEOUT, how long message ids are remembered
  ReassemblyLife,  \* the 10 s an incomplete packet is kept
  MaxPending,      \* the 64 calls that may wait at a time
  MaxReassemblies, \* the 32 packets that may be incomplete at a time
  Lifetime         \* how long the network may hold a datagram

ASSUME TransferAssumption ==
  /\ Parts \in [Msg -> Nat \ {0}]
  /\ {Rounds, RetryInterval, SeenLife, ReassemblyLife, Lifetime}
       \subseteq Nat \ {0}

(* The environment: 4.05 s of sending and the life of a datagram are over  *)
(* before the 12 s an id is remembered.                                    *)
ASSUME LifetimeAssumption ==
  (Rounds - 1) * RetryInterval + Lifetime <= SeenLife

VARIABLES
  call,       \* where send_packet stands for a packet
  left,       \* rounds it has left
  timer,      \* time left of wait_for
  event,      \* whether its acknowledged event is set
  sender,     \* the session in the tables of the sender
  routed,     \* whether _send_route has a relay to send through
  air,        \* time left in which a fragment may arrive
  ackAir,     \* time left in which an acknowledgement may arrive
  receiver,   \* the session in the tables of the receiver
  parts,      \* session.reassemblies, the fragments received
  partsLeft,  \* time left until the reassembly is dropped
  seen,       \* session.seen, the ids
  seenLeft,   \* time left until the id is forgotten
  handed      \* history: how often on_packet was spawned

callVars == <<call, left, timer, event>>
tableVars == <<parts, partsLeft, seen, seenLeft>>
routeVars == <<sender, routed, receiver>>
transferVars == <<callVars, routeVars, air, ackAir, tableVars, handed>>

Fragments(m) == 0 .. Parts[m] - 1
Zero == [m \in Msg |-> 0]

TransferInit ==
  /\ call = [m \in Msg |-> "idle"]
  /\ left = Zero /\ timer = Zero /\ event = [m \in Msg |-> FALSE]
  /\ sender = "active" /\ routed = TRUE /\ receiver = "unconfirmed"
  /\ air = Zero /\ ackAir = Zero
  /\ parts = [m \in Msg |-> {}] /\ partsLeft = Zero
  /\ seen = {} /\ seenLeft = Zero
  /\ handed = Zero

----------------------------------------------------------------------------
(* The sender.                                                             *)

Waiting == {m \in Msg : call[m] = "sending"}

(* No active session, a packet that is too large, too many calls waiting,  *)
(* or no relay for the first datagram.                                     *)
Refused(m) ==
  \/ sender = "gone"
  \/ Parts[m] > MaxFragments
  \/ Cardinality(Waiting) >= MaxPending
  \/ ~routed

Transmit(m, rounds) ==
  /\ left' = [left EXCEPT ![m] = rounds]
  /\ timer' = [timer EXCEPT ![m] = RetryInterval]
  /\ air' = [air EXCEPT ![m] = Lifetime]

Ends(m, how) ==
  /\ call' = [call EXCEPT ![m] = how]
  /\ UNCHANGED <<left, timer, event, routeVars, air, ackAir, tableVars,
                 handed>>

Send(m) ==
  /\ call[m] = "idle" /\ sender = "active" /\ ~Refused(m)
  /\ call' = [call EXCEPT ![m] = "sending"]
  /\ Transmit(m, Rounds - 1)
  /\ UNCHANGED <<event, routeVars, ackAir, tableVars, handed>>

(* While the session drains, a new call takes the session that replaced it.*)
Refuse(m) ==
  /\ call[m] = "idle" /\ sender # "retiring" /\ Refused(m)
  /\ Ends(m, "refused")

(* wait_for times out, even if the event is set at the same moment.        *)
TimedOut(m) == call[m] = "sending" /\ timer[m] = 0

(* Mutant of Retry: rounds that are not used up.                           *)
RetryForever(m) ==
  /\ TimedOut(m) /\ left[m] > 0 /\ routed
  /\ Transmit(m, left[m])
  /\ UNCHANGED <<call, event, routeVars, ackAir, tableVars, handed>>

Retry(m) ==
  /\ TimedOut(m) /\ left[m] > 0 /\ routed
  /\ Transmit(m, left[m] - 1)
  /\ UNCHANGED <<call, event, routeVars, ackAir, tableVars, handed>>

(* The rounds are used up, or the relay of the session is gone.            *)
GiveUp(m) ==
  /\ TimedOut(m) /\ (left[m] = 0 \/ ~routed)
  /\ Ends(m, "failed")

Return(m) ==
  /\ call[m] = "sending" /\ event[m]
  /\ Ends(m, "returned")

(* The task that called send_packet is cancelled.                          *)
Cancel(m) == call[m] = "sending" /\ Ends(m, "failed")

OnAck(m) ==
  /\ ackAir[m] > 0 /\ sender # "gone" /\ routed
  /\ call[m] = "sending"
  /\ event' = [event EXCEPT ![m] = TRUE]
  /\ UNCHANGED <<call, left, timer, routeVars, air, ackAir, tableVars,
                 handed>>

----------------------------------------------------------------------------
(* The receiver.                                                           *)

Open == {m \in Msg : parts[m] # {}}

SendAck(m) == ackAir' = [ackAir EXCEPT ![m] = Lifetime]

(* A fragment passes _session_for.                                         *)
Arrives(m) == air[m] > 0 /\ receiver = "confirmed"

Duplicate(m) ==
  /\ Arrives(m) /\ m \in seen
  /\ SendAck(m)
  /\ UNCHANGED <<callVars, routeVars, air, tableVars, handed>>

Accepted(m) ==
  /\ Arrives(m) /\ m \notin seen
  /\ m \in Open \/ Cardinality(Open) < MaxReassemblies

Fragment(m, i) ==
  /\ Accepted(m) /\ parts[m] \cup {i} # Fragments(m)
  /\ parts' = [parts EXCEPT ![m] = @ \cup {i}]
  /\ partsLeft' = [partsLeft EXCEPT
                     ![m] = IF m \in Open THEN @ ELSE ReassemblyLife]
  /\ UNCHANGED <<callVars, routeVars, air, ackAir, seen, seenLeft, handed>>

(* Mutant of Complete: the id is not remembered.                           *)
CompleteForgets(m, i) ==
  /\ Accepted(m) /\ parts[m] \cup {i} = Fragments(m)
  /\ parts' = [parts EXCEPT ![m] = {}]
  /\ SendAck(m)
  /\ handed' = [handed EXCEPT ![m] = @ + 1]
  /\ UNCHANGED <<callVars, routeVars, air, partsLeft, seen, seenLeft>>

Complete(m, i) ==
  /\ Accepted(m) /\ parts[m] \cup {i} = Fragments(m)
  /\ parts' = [parts EXCEPT ![m] = {}]
  /\ seen' = seen \cup {m}
  /\ seenLeft' = [seenLeft EXCEPT ![m] = SeenLife]
  /\ SendAck(m)
  /\ handed' = [handed EXCEPT ![m] = @ + 1]
  /\ UNCHANGED <<callVars, routeVars, air, partsLeft>>

(* Mutant of CleanUp: ids are forgotten as early as reassemblies.            *)
CleanUpEarly ==
  /\ receiver = "confirmed"
  /\ seen' = {m \in seen : seenLeft[m] > SeenLife - ReassemblyLife}
  /\ parts' = [m \in Msg |-> IF partsLeft[m] > 0 THEN parts[m] ELSE {}]
  /\ UNCHANGED <<callVars, routeVars, air, ackAir, partsLeft, seenLeft,
                 handed>>

(* The maintenance loop looks at the session.                              *)
CleanUp ==
  /\ receiver = "confirmed"
  /\ seen' = {m \in seen : seenLeft[m] > 0}
  /\ parts' = [m \in Msg |-> IF partsLeft[m] > 0 THEN parts[m] ELSE {}]
  /\ UNCHANGED <<callVars, routeVars, air, ackAir, partsLeft, seenLeft,
                 handed>>

----------------------------------------------------------------------------
(* The sessions, whose tables UdpSessions models: the receiver has READY,  *)
(* the sender's session is replaced, either is removed, a relay comes and  *)
(* goes.                                                                   *)

Environment(s, r, v) ==
  /\ sender' = s /\ routed' = r /\ receiver' = v
  /\ UNCHANGED <<callVars, air, ackAir, tableVars, handed>>

Confirm == receiver = "unconfirmed" /\ Environment(sender, routed, "confirmed")
Replace == sender = "active" /\ Environment("retiring", routed, receiver)
RelayToggles == sender # "gone" /\ Environment(sender, ~routed, receiver)
SenderRemoves == sender # "gone" /\ Environment("gone", routed, receiver)
ReceiverRemoves == receiver # "gone" /\ Environment(sender, routed, "gone")

Down(f) == [m \in Msg |-> IF f[m] > 0 THEN f[m] - 1 ELSE 0]

Tick ==
  /\ \A m \in Waiting : timer[m] > 0 /\ ~event[m]
  /\ timer' = Down(timer)
  /\ air' = Down(air) /\ ackAir' = Down(ackAir)
  /\ partsLeft' = Down(partsLeft) /\ seenLeft' = Down(seenLeft)
  /\ UNCHANGED <<call, left, event, routeVars, parts, seen, handed>>

SenderStep(m) ==
  \/ Send(m) \/ Refuse(m) \/ Retry(m) \/ GiveUp(m) \/ Return(m) \/ Cancel(m)
  \/ OnAck(m)

ReceiverStep(m) ==
  \/ Duplicate(m)
  \/ \E i \in Fragments(m) : Fragment(m, i) \/ Complete(m, i)

SessionStep ==
  Confirm \/ Replace \/ RelayToggles \/ SenderRemoves \/ ReceiverRemoves

TransferNext ==
  \/ \E m \in Msg : SenderStep(m) \/ ReceiverStep(m)
  \/ CleanUp \/ SessionStep \/ Tick

TransferSpec == TransferInit /\ [][TransferNext]_transferVars

(* The timers of the event loop fire and the tasks they wake are run.      *)
TransferFairness ==
  /\ WF_transferVars(Tick)
  /\ \A m \in Msg : WF_transferVars(Retry(m) \/ GiveUp(m) \/ Return(m))

FairTransfer == TransferSpec /\ TransferFairness

----------------------------------------------------------------------------
Calls == {"idle", "sending", "returned", "failed", "refused"}

(* Types: the timers stay within what the constants allow.                 *)
TransferTypes ==
  /\ call \in [Msg -> Calls]
  /\ left \in [Msg -> 0 .. Rounds - 1] /\ timer \in [Msg -> 0 .. RetryInterval]
  /\ event \in [Msg -> BOOLEAN]
  /\ sender \in {"active", "retiring", "gone"} /\ routed \in BOOLEAN
  /\ receiver \in {"unconfirmed", "confirmed", "gone"}
  /\ air \in [Msg -> 0 .. Lifetime] /\ ackAir \in [Msg -> 0 .. Lifetime]
  /\ parts \in [Msg -> SUBSET Nat] /\ \A m \in Msg : parts[m] \subseteq Fragments(m)
  /\ partsLeft \in [Msg -> 0 .. ReassemblyLife]
  /\ seen \subseteq Msg /\ seenLeft \in [Msg -> 0 .. SeenLife]
  /\ handed \in [Msg -> Nat]

(* The time until the last fragment of the rounds to come has arrived.     *)
MoreRounds(m) == call[m] = "sending" /\ left[m] > 0
RoundsTime(m) == timer[m] + (left[m] - 1) * RetryInterval + Lifetime

(* While an id is remembered, it is remembered for as long as fragments of *)
(* its packet, sent or still to be sent, may arrive; once it is forgotten, *)
(* none will (883-886).                                                    *)
SeenOutlivesFragments ==
  /\ \A m \in seen : /\ air[m] <= seenLeft[m]
                     /\ MoreRounds(m) => RoundsTime(m) <= seenLeft[m]
  /\ \A m \in Msg \ seen : handed[m] > 0 => air[m] = 0 /\ ~MoreRounds(m)

(* The session keeps the promise of send_packet: at most one delivery, a   *)
(* return only after it, none after a refusal (docs/PROTOCOL.md:582-604).  *)
Channel == INSTANCE PacketChannel WITH call <- call, handed <- handed
ChannelSpec == Channel!Spec

(* Every call of send_packet ends, whatever happens to the session, the    *)
(* relay and the peer: the rounds are bounded.                             *)
EveryCallEnds == \A m \in Msg : call[m] = "sending" ~> call[m] # "sending"

=============================================================================
