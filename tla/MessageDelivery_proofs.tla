----------------------- MODULE MessageDelivery_proofs -----------------------
(***************************************************************************)
(* The invariant has one part for each side.  The recipient's (Receipts)   *)
(* says that whatever claims a message was received comes after its row,   *)
(* the sender's (Waiting) which messages a flush can have to do with and   *)
(* what is known of a message that no flush has settled.  A third part     *)
(* (Retries) counts the attempts that flushes may still add to a row.      *)
(***************************************************************************)
EXTENDS MessageDelivery, FiniteSetTheorems, TLAPS

Got == stored \cup deleted

(* Only a message that was stored is marked as seen, acknowledged, shown   *)
(* or delivered.                                                           *)
Receipts ==
  /\ seen \subseteq Got
  /\ shown \subseteq Got
  /\ \A h \in Handler :
       handler[h] # None /\ handler[h].at \in {"again", "mark", "ack", "show"}
         => handler[h].id \in Got
  /\ \A m \in Msg : Pkt("ACK", m) \in wire => m \in Got
  /\ DeliveredIsReceived

(* Nothing is left to do for the message, or nothing more can be done.     *)
Settled(m) ==
  outcome[m] # "open" \/ m \in deleting \/ row[m] = None \/ row[m].failed

Early == {"new", "offline", "directSaved", "offlineSaved", "sending"}

InFlush(f, m) == flush[f] # None /\ (flush[f].item = m \/ m \in flush[f].todo)

(* A message is in the queue only when send_message put it there, and is   *)
(* removed by a flush that settled it.                                     *)
Untouched(m) ==
  command[m] \in Early => queue[m] = None /\ \A f \in Flush : ~InFlush(f, m)

Waits(m) ==
  /\ command[m] \in {"marking", "done"} /\ ~Settled(m) => queue[m] # None
  /\ command[m] \in {"offlineSaved", "done"} /\ ~Settled(m)
       => row[m].queued \/ row[m].delivered

Waiting ==
  /\ \A m \in Msg : Untouched(m) /\ Waits(m)
  /\ \A f \in Flush :
       flush[f] # None /\ flush[f].at = "removing" => Settled(flush[f].item)

IInv == TypeOK /\ Receipts /\ ShownOnce /\ Waiting

----------------------------------------------------------------------------
(* None differs from every record and number a table may hold.             *)
LEMMA Nones ==
  /\ \A m \in Msg : m # None
  /\ \A n \in Nat : n # None
  /\ \A r \in Row : r # None
  /\ \A f \in FlushRun : f # None
  /\ \A h \in Handling : h # None
BY ConstantsAssumption

LEMMA InitIInv == Init => IInv
BY DEF Init, IInv, TypeOK, Receipts, Got, DeliveredIsReceived, ShownOnce,
       Showing, Waiting, Untouched, Waits, Settled, InFlush, Early, Pkt

----------------------------------------------------------------------------
(* Types.                                                                  *)

(* An UPDATE of a row, if there is one.                                    *)
LEMMA MarkTypes ==
  ASSUME TypeOK, NEW m \in Msg, NEW new, row[m] \in Row => new \in Row,
         Mark(m, new)
  PROVE  /\ row' \in [Msg -> Row \cup {None}]
         /\ \A k \in Msg : row'[k] = IF k = m /\ row[m] # None THEN new
                                     ELSE row[k]
BY DEF TypeOK, Mark

LEMMA RowFields ==
  ASSUME NEW r \in Row
  PROVE  /\ [r EXCEPT !.queued = TRUE] \in Row
         /\ [r EXCEPT !.queued = FALSE] \in Row
         /\ [r EXCEPT !.failed = TRUE, !.queued = FALSE] \in Row
         /\ [r EXCEPT !.delivered = TRUE, !.queued = FALSE] \in Row
BY DEF Row

LEMMA SendingTypes == TypeOK /\ Sending => TypeOK'
<1> SUFFICES ASSUME TypeOK, Sending PROVE TypeOK'
  OBVIOUS
<1> USE Nones DEF TypeOK, recipientVars
<1>1. ASSUME NEW m \in Msg, SendOnline(m) PROVE TypeOK'
  BY <1>1 DEF SendOnline, Insert, Row
<1>2. ASSUME NEW m \in Msg, SendKey(m) PROVE TypeOK'
  BY <1>2 DEF SendKey
<1>3. ASSUME NEW m \in Msg, SendSave(m) PROVE TypeOK'
  BY <1>3 DEF SendSave, Insert, Row
<1>4. ASSUME NEW m \in Msg, SendDirect(m) PROVE TypeOK'
  BY <1>4 DEF SendDirect, Transmit, Pkt, Packet
<1>5. ASSUME NEW m \in Msg, SendReturns(m) PROVE TypeOK'
  BY <1>5 DEF SendReturns
<1>6. ASSUME NEW m \in Msg, SendFails(m) PROVE TypeOK'
  BY <1>6 DEF SendFails, SendRaises
<1>7. ASSUME NEW m \in Msg, SendQueued(m) PROVE TypeOK'
  <2>1. row' \in [Msg -> Row \cup {None}]
    BY <1>7, MarkTypes, RowFields DEF SendQueued
  <2> QED BY <1>7, <2>1 DEF SendQueued
<1>8. ASSUME NEW m \in Msg, SendOffline(m) PROVE TypeOK'
  BY <1>8 DEF SendOffline
<1>9. ASSUME NEW m \in Msg, Reap(m) PROVE TypeOK'
  BY <1>9 DEF Reap, FlushUnchanged
<1>10. ASSUME NEW m \in Msg, SenderDelete(m) \/ SenderErase(m) PROVE TypeOK'
  BY <1>10 DEF SenderDelete, SenderErase
<1>11. ASSUME NEW m \in Msg, OnAck(m) PROVE TypeOK'
  <2>1. row' \in [Msg -> Row \cup {None}]
    BY <1>11, MarkTypes, RowFields DEF OnAck
  <2> QED BY <1>11, <2>1 DEF OnAck
<1>12. CASE Disconnect
  BY <1>12 DEF Disconnect, FlushUnchanged
<1>13. CASE SenderRestart
  BY <1>13 DEF SenderRestart
<1> QED BY <1>1, <1>2, <1>3, <1>4, <1>5, <1>6, <1>7, <1>8, <1>9, <1>10,
           <1>11, <1>12, <1>13 DEF Sending

(* A flush that goes on with something else.                               *)
LEMMA RunTypes ==
  ASSUME TypeOK, NEW f \in Flush, flush[f] # None
  PROVE  /\ flush[f] \in FlushRun
         /\ flush[f].todo \subseteq Msg
         /\ [flush[f] EXCEPT !.at = "listing"] \in FlushRun
         /\ [flush[f] EXCEPT !.at = "removing"] \in FlushRun
         /\ [flush[f] EXCEPT !.at = "next", !.item = None] \in FlushRun
BY DEF TypeOK, FlushRun

LEMMA FlushTypes ==
  ASSUME TypeOK, NEW f \in Flush, NEW w \in FlushRun \cup {None},
         flush' = [flush EXCEPT ![f] = w],
         w # None /\ w.at \in {"sending", "failing", "removing"}
           => w.item \in Msg
  PROVE  /\ flush' \in [Flush -> FlushRun \cup {None}]
         /\ \A g \in Flush :
              flush'[g] # None
              /\ flush'[g].at \in {"sending", "failing", "removing"}
                => flush'[g].item \in Msg
BY DEF TypeOK

LEMMA FlushingTypes == TypeOK /\ Flushing => TypeOK'
<1> SUFFICES ASSUME TypeOK, NEW f \in Flush,
                    \/ PeerChanged(f) \/ FlushLookup(f) \/ FlushList(f)
                    \/ FlushTake(f) \/ FlushRefused(f) \/ FlushSent(f)
                    \/ FlushFails(f) \/ FlushRemove(f)
             PROVE  TypeOK'
  BY DEF Flushing
<1> DEFINE FlushOK(F) ==
             /\ F \in [Flush -> FlushRun \cup {None}]
             /\ \A g \in Flush :
                  F[g] # None /\ F[g].at \in {"sending", "failing", "removing"}
                    => F[g].item \in Msg
<1>1. CASE PeerChanged(f)
  <2>1. FlushOK(flush')
    BY <1>1, FlushTypes DEF PeerChanged, FlushRun
  <2> QED BY <1>1, <2>1 DEF PeerChanged, TypeOK, FlushUnchanged, recipientVars
<1>2. CASE FlushLookup(f)
  <2>1. FlushOK(flush')
    <3>1. CASE connected
      <4>1. flush' = [flush EXCEPT ![f] = [flush[f] EXCEPT !.at = "listing"]]
        BY <1>2, <3>1 DEF FlushLookup, FlushGoto
      <4>2. [flush[f] EXCEPT !.at = "listing"] \in FlushRun
            /\ [flush[f] EXCEPT !.at = "listing"].at = "listing"
        BY <1>2, RunTypes DEF FlushLookup, FlushAt, FlushRun
      <4> QED BY <4>1, <4>2, FlushTypes
    <3>2. CASE ~connected
      BY <1>2, <3>2, FlushTypes DEF FlushLookup
    <3> QED BY <3>1, <3>2
  <2> QED BY <1>2, <2>1 DEF FlushLookup, TypeOK, FlushUnchanged, recipientVars
<1>3. CASE FlushList(f)
  <2>1. FlushOK(flush')
    <3>1. [at |-> "next", item |-> None, todo |-> Listed] \in FlushRun
      BY DEF FlushRun, Listed
    <3> QED BY <1>3, <3>1, FlushTypes DEF FlushList
  <2> QED BY <1>3, <2>1 DEF FlushList, TypeOK, FlushUnchanged, recipientVars
<1>4. CASE FlushTake(f)
  <2>1. PICK m \in flush[f].todo, capable \in BOOLEAN :
          /\ flush' = [flush EXCEPT ![f] =
               [at |-> IF capable THEN "sending" ELSE "failing", item |-> m,
                todo |-> flush[f].todo \ {m}]]
          /\ IF capable THEN Transmit(Pkt("MESSAGE", m)) ELSE UNCHANGED wire
    BY <1>4 DEF FlushTake
  <2>2. m \in Msg /\ flush[f].todo \subseteq Msg
    BY <1>4, RunTypes DEF FlushTake, FlushAt
  <2>3. FlushOK(flush')
    <3>1. [at |-> IF capable THEN "sending" ELSE "failing", item |-> m,
           todo |-> flush[f].todo \ {m}] \in FlushRun
      BY <2>2 DEF FlushRun
    <3> QED BY <2>1, <2>2, <3>1, FlushTypes
  <2>4. wire' \subseteq Packet
    BY <2>1, <2>2 DEF Transmit, Pkt, Packet, TypeOK
  <2> QED BY <1>4, <2>3, <2>4 DEF FlushTake, TypeOK, recipientVars
<1>5. CASE FlushRefused(f) \/ FlushSent(f)
  <2> DEFINE m == flush[f].item
  <2>1. m \in Msg /\ flush[f] # None
    BY <1>5 DEF FlushRefused, FlushSent, FlushAt, TypeOK
  <2>2. FlushOK(flush')
    <3>1. flush' = [flush EXCEPT ![f] = [flush[f] EXCEPT !.at = "removing"]]
      BY <1>5 DEF FlushRefused, FlushSent, FlushGoto
    <3>2. /\ [flush[f] EXCEPT !.at = "removing"] \in FlushRun
          /\ [flush[f] EXCEPT !.at = "removing"].item = m
      BY <2>1, RunTypes DEF FlushRun
    <3> QED BY <2>1, <3>1, <3>2, FlushTypes
  <2>3. row' \in [Msg -> Row \cup {None}]
    BY <1>5, <2>1, MarkTypes, RowFields DEF FlushRefused, FlushSent
  <2> QED BY <1>5, <2>1, <2>2, <2>3
          DEF FlushRefused, FlushSent, TypeOK, FlushUnchanged, recipientVars
<1>6. CASE FlushFails(f) \/ FlushRemove(f)
  <2>1. flush[f] # None /\ flush[f].item \in Msg
    BY <1>6 DEF FlushFails, FlushRemove, FlushAt, TypeOK
  <2>2. FlushOK(flush')
    <3>1. flush' = [flush EXCEPT ![f] =
                      IF flush[f].todo = {} THEN None
                      ELSE [flush[f] EXCEPT !.at = "next", !.item = None]]
      BY <1>6 DEF FlushFails, FlushRemove, FlushNext
    <3>2. /\ [flush[f] EXCEPT !.at = "next", !.item = None] \in FlushRun
          /\ [flush[f] EXCEPT !.at = "next", !.item = None].at = "next"
      BY <2>1, RunTypes DEF FlushRun
    <3> QED BY <3>1, <3>2, FlushTypes
  <2>3. queue' \in [Msg -> Nat \cup {None}]
    BY <1>6, <2>1 DEF FlushFails, FlushRemove, TypeOK
  <2>4. connected' \in BOOLEAN
    BY <1>6 DEF FlushFails, FlushRemove, SendRaises, TypeOK
  <2> QED BY <1>6, <2>2, <2>3, <2>4
          DEF FlushFails, FlushRemove, TypeOK, FlushUnchanged, recipientVars
<1> QED BY <1>1, <1>2, <1>3, <1>4, <1>5, <1>6

LEMMA ReceivingTypes ==
  TypeOK /\ (Receiving \/ \E p \in Packet : Lose(p)) => TypeOK'
<1> USE Nones DEF TypeOK, senderVars, Handling, HandlerAt, HandlerGoto,
                  HandlerEnd
<1>1. ASSUME TypeOK, NEW h \in Handler, Receive(h) PROVE TypeOK'
  BY <1>1 DEF Receive
<1>2. ASSUME TypeOK, NEW h \in Handler, IsSeen(h) \/ MarkSeen(h) \/ Show(h)
      PROVE  TypeOK'
  BY <1>2 DEF IsSeen, MarkSeen, Show
<1>3. ASSUME TypeOK, NEW h \in Handler, AckAgain(h) \/ Acknowledge(h)
      PROVE  TypeOK'
  BY <1>3 DEF AckAgain, Acknowledge, Transmit, Pkt, Packet
<1>4. ASSUME TypeOK, NEW h \in Handler, Save(h) PROVE TypeOK'
  BY <1>4 DEF Save
<1>5. ASSUME TypeOK, NEW m \in Msg, RecipientDelete(m) \/ SeenExpires(m)
      PROVE  TypeOK'
  BY <1>5 DEF RecipientDelete, SeenExpires
<1>6. ASSUME TypeOK, RecipientRestart PROVE TypeOK'
  BY <1>6 DEF RecipientRestart
<1>7. ASSUME TypeOK, NEW p \in Packet, Lose(p) PROVE TypeOK'
  BY <1>7 DEF Lose, recipientVars
<1> QED BY <1>1, <1>2, <1>3, <1>4, <1>5, <1>6, <1>7 DEF Receiving

LEMMA StepTypes == TypeOK /\ [Next]_vars => TypeOK'
<1>1. TypeOK /\ UNCHANGED vars => TypeOK'
  BY DEF TypeOK, vars, senderVars, recipientVars
<1> QED BY <1>1, SendingTypes, FlushingTypes, ReceivingTypes DEF Next

----------------------------------------------------------------------------
(* Receipts, and that a message is shown once.                             *)

(* The sender makes no receipt, and marks as delivered on a receipt only.  *)
LEMMA SenderReceipts ==
  ASSUME TypeOK, Receipts, Sending \/ Flushing
  PROVE  /\ UNCHANGED recipientVars
         /\ \A k \in Msg : Pkt("ACK", k) \in wire' => Pkt("ACK", k) \in wire
         /\ \A k \in Msg : row'[k] # None /\ row'[k].delivered
              => (row[k] # None /\ row[k].delivered) \/ k \in Got
<1> DEFINE Goal ==
      /\ UNCHANGED recipientVars
      /\ \A k \in Msg : Pkt("ACK", k) \in wire' => Pkt("ACK", k) \in wire
      /\ \A k \in Msg : row'[k] # None /\ row'[k].delivered
           => (row[k] # None /\ row[k].delivered) \/ k \in Got
<1>1. ASSUME NEW m \in Msg,
             SendOnline(m) \/ SendSave(m)
      PROVE  Goal
  BY <1>1 DEF SendOnline, SendSave, Insert, TypeOK
<1>2. ASSUME NEW m \in Msg,
             SendKey(m) \/ SendDirect(m) \/ SendReturns(m) \/ SendFails(m)
             \/ SendOffline(m) \/ Reap(m)
      PROVE  Goal
  BY <1>2 DEF SendKey, SendDirect, SendReturns, SendFails, SendOffline, Reap,
              FlushUnchanged, Transmit, Pkt
<1>3. ASSUME NEW m \in Msg, SendQueued(m) PROVE Goal
  <2>1. \A k \in Msg : row'[k] = IF k = m /\ row[m] # None
                                   THEN [row[m] EXCEPT !.queued = TRUE]
                                   ELSE row[k]
    BY <1>3, MarkTypes, RowFields DEF SendQueued
  <2> QED BY <1>3, <2>1 DEF SendQueued, TypeOK, Row
<1>4. ASSUME NEW m \in Msg, SenderDelete(m) \/ SenderErase(m) PROVE Goal
  BY <1>4 DEF SenderDelete, SenderErase, TypeOK
<1>5. ASSUME NEW m \in Msg, OnAck(m) PROVE Goal
  <2>1. m \in Got
    BY <1>5 DEF OnAck, Receipts
  <2>2. \A k \in Msg \ {m} : row'[k] = row[k]
    BY <1>5, MarkTypes, RowFields DEF OnAck
  <2> QED BY <1>5, <2>1, <2>2 DEF OnAck
<1>6. CASE Disconnect \/ SenderRestart
  BY <1>6 DEF Disconnect, SenderRestart, FlushUnchanged
<1>7. ASSUME NEW f \in Flush,
             PeerChanged(f) \/ FlushLookup(f) \/ FlushList(f) \/ FlushTake(f)
             \/ FlushFails(f) \/ FlushRemove(f)
      PROVE  Goal
  BY <1>7 DEF PeerChanged, FlushLookup, FlushList, FlushTake, FlushFails,
              FlushRemove, FlushUnchanged, Transmit, Pkt
<1>8. ASSUME NEW f \in Flush, FlushRefused(f) \/ FlushSent(f) PROVE Goal
  <2> DEFINE m == flush[f].item
  <2>1. m \in Msg
    BY <1>8 DEF FlushRefused, FlushSent, FlushAt, TypeOK
  <2>2. \A k \in Msg :
          row'[k] \in {row[k],
                       [row[k] EXCEPT !.failed = TRUE, !.queued = FALSE],
                       [row[k] EXCEPT !.queued = FALSE]}
          /\ (row[k] = None => row'[k] = None)
    BY <1>8, <2>1, MarkTypes, RowFields DEF FlushRefused, FlushSent
  <2>3. \A k \in Msg : row'[k] # None =>
          row[k] \in Row /\ row'[k].delivered = row[k].delivered
    BY <2>2 DEF TypeOK, Row
  <2>4. UNCHANGED recipientVars /\ UNCHANGED wire
    BY <1>8 DEF FlushRefused, FlushSent, FlushUnchanged
  <2> QED BY <2>2, <2>3, <2>4
<1> QED BY <1>1, <1>2, <1>3, <1>4, <1>5, <1>6, <1>7, <1>8
        DEF Sending, Flushing

(* A handler that goes on, or is over.                                     *)
LEMMA HandlerStep ==
  ASSUME TypeOK, NEW h \in Handler, NEW here, NEW next, HandlerAt(h, here),
         HandlerGoto(h, next) \/ HandlerEnd(h)
  PROVE  /\ handler[h].id \in Msg
         /\ \A g \in Handler \ {h} : handler'[g] = handler[g]
         /\ handler'[h] # None => /\ HandlerGoto(h, next)
                                  /\ handler'[h].id = handler[h].id
                                  /\ handler'[h].at = next
BY DEF TypeOK, HandlerAt, HandlerGoto, HandlerEnd, Handling

LEMMA ReceivingReceipts ==
  ASSUME TypeOK, Receipts, ShownOnce, Receiving
  PROVE  Receipts' /\ ShownOnce'
<1> USE Nones DEF senderVars
<1>1. ASSUME NEW h \in Handler, Receive(h)
      PROVE  Receipts' /\ ShownOnce'
  <2>1. /\ \A g \in Handler :
             handler'[g] # handler[g] => handler'[g].at = "seen"
        /\ \A m \in Msg : Showing(m)' = Showing(m)
    BY <1>1 DEF Receive, TypeOK, Showing
  <2>2. Receipts'
    BY <1>1, <2>1 DEF Receive, Receipts, Got, Pkt, DeliveredIsReceived
  <2>3. ShownOnce'
    BY <1>1, <2>1 DEF Receive, ShownOnce
  <2> QED BY <2>2, <2>3
<1>2. ASSUME NEW h \in Handler, IsSeen(h)
      PROVE  Receipts' /\ ShownOnce'
  <2>1. PICK next \in {"again", "save"} :
          HandlerGoto(h, next) /\ (next = "again" => handler[h].id \in seen)
    BY <1>2 DEF IsSeen
  <2>2. HandlerAt(h, "seen") /\ handler[h] # None
    BY <1>2 DEF IsSeen, HandlerAt
  <2>3. /\ \A g \in Handler \ {h} : handler'[g] = handler[g]
        /\ handler'[h] # None => /\ handler'[h].id = handler[h].id
                                 /\ handler'[h].at = next
    BY <2>1, <2>2, HandlerStep
  <2>4. \A m \in Msg : Showing(m)' = Showing(m)
    BY <2>2, <2>3 DEF Showing, HandlerAt
  <2>5. Receipts'
    BY <1>2, <2>1, <2>3 DEF IsSeen, Receipts, Got, DeliveredIsReceived
  <2>6. ShownOnce'
    BY <1>2, <2>4 DEF IsSeen, ShownOnce
  <2> QED BY <2>5, <2>6
<1>3. ASSUME NEW h \in Handler, AckAgain(h)
      PROVE  Receipts' /\ ShownOnce'
  <2>1. /\ HandlerAt(h, "again") /\ HandlerEnd(h)
        /\ handler[h].id \in Got
    BY <1>3 DEF AckAgain, Receipts, HandlerAt
  <2>2. /\ \A g \in Handler \ {h} : handler'[g] = handler[g]
        /\ handler'[h] = None
    BY <2>1 DEF HandlerEnd, TypeOK
  <2>3. \A m \in Msg : Showing(m)' \subseteq Showing(m)
    BY <2>2 DEF Showing
  <2>4. Receipts'
    BY <1>3, <2>1, <2>2
       DEF AckAgain, Receipts, Got, DeliveredIsReceived, Transmit, Pkt
  <2>5. ShownOnce'
    BY <1>3, <2>3 DEF AckAgain, ShownOnce
  <2> QED BY <2>4, <2>5
<1>4. ASSUME NEW h \in Handler, Save(h)
      PROVE  Receipts' /\ ShownOnce'
  <2>1. PICK m \in Msg : HandlerAt(h, "save") /\ m = handler[h].id
    BY <1>4 DEF Save, HandlerAt, TypeOK, Handling
  <2>2. CASE HandlerEnd(h) /\ UNCHANGED stored
    <3>1. /\ \A g \in Handler \ {h} : handler'[g] = handler[g]
          /\ handler'[h] = None
      BY <2>2 DEF HandlerEnd, TypeOK
    <3>2. \A k \in Msg : Showing(k)' \subseteq Showing(k)
      BY <3>1 DEF Showing
    <3>3. Receipts'
      BY <1>4, <2>2, <3>1 DEF Save, Receipts, Got, DeliveredIsReceived
    <3>4. ShownOnce'
      BY <1>4, <3>2 DEF Save, ShownOnce
    <3> QED BY <3>3, <3>4
  <2>3. CASE /\ m \notin stored
             /\ stored' = stored \cup {m} /\ HandlerGoto(h, "mark")
    <3>1. /\ \A g \in Handler \ {h} : handler'[g] = handler[g]
          /\ handler'[h] # None => handler'[h].id = m
      BY <2>1, <2>3, HandlerStep
    <3>2. \A k \in Msg \ {m} : Showing(k)' = Showing(k)
      BY <2>1, <3>1 DEF Showing, HandlerAt
    <3>3. m \notin deleted => Showing(m) = {} /\ m \notin shown
      BY <2>1, <2>3 DEF Receipts, Got, Showing
    <3>4. m \notin deleted => Showing(m)' \subseteq {h}
      BY <3>1, <3>3 DEF Showing
    <3>5. UNCHANGED <<row, wire, seen, shown, deleted>>
      BY <1>4 DEF Save
    <3>6. Got \subseteq Got' /\ m \in Got'
      BY <2>3, <3>5 DEF Got
    <3>7. Receipts'
      <4>1. \A g \in Handler :
              handler'[g] # None /\ handler'[g].at \in {"again", "mark", "ack", "show"}
                => handler'[g].id \in Got'
        BY <3>1, <3>6 DEF Receipts
      <4>2. DeliveredIsReceived'
        BY <3>5, <3>6 DEF Receipts, DeliveredIsReceived, Got
      <4> QED BY <3>5, <3>6, <4>1, <4>2 DEF Receipts, Pkt
    <3>8. ShownOnce'
      <4>1. ASSUME NEW k \in Msg \ deleted, k # m
            PROVE  /\ \A g, i \in Showing(k)' : g = i
                   /\ k \in shown' => Showing(k)' = {}
        BY <3>2, <3>5, <4>1 DEF ShownOnce
      <4>2. m \notin deleted => /\ \A g, i \in Showing(m)' : g = i
                               /\ m \notin shown'
        BY <3>3, <3>4, <3>5
      <4> QED BY <3>5, <4>1, <4>2 DEF ShownOnce
    <3> QED BY <3>7, <3>8
  <2> QED BY <1>4, <2>1, <2>2, <2>3 DEF Save
<1>5. ASSUME NEW h \in Handler, MarkSeen(h) \/ Acknowledge(h)
      PROVE  Receipts' /\ ShownOnce'
  <2> DEFINE m == handler[h].id
  <2>1. PICK here \in {"mark", "ack"}, next \in {"ack", "show"} :
          HandlerAt(h, here) /\ (HandlerGoto(h, next) \/ HandlerEnd(h))
    BY <1>5 DEF MarkSeen, Acknowledge
  <2>2. /\ m \in Msg
        /\ \A g \in Handler \ {h} : handler'[g] = handler[g]
        /\ handler'[h] # None => handler'[h].id = m
    BY <2>1, HandlerStep
  <2>3. m \in Got
    BY <2>1 DEF Receipts, HandlerAt
  <2>4. \A k \in Msg : Showing(k)' \subseteq Showing(k)
    BY <2>1, <2>2 DEF Showing, HandlerAt
  <2>5. Receipts'
    BY <1>5, <2>2, <2>3 DEF MarkSeen, Acknowledge, Receipts, Got,
                            DeliveredIsReceived, Transmit, Pkt
  <2>6. ShownOnce'
    BY <1>5, <2>4 DEF MarkSeen, Acknowledge, ShownOnce
  <2> QED BY <2>5, <2>6
<1>6. ASSUME NEW h \in Handler, Show(h)
      PROVE  Receipts' /\ ShownOnce'
  <2> DEFINE m == handler[h].id
  <2>1. HandlerAt(h, "show") /\ HandlerEnd(h) /\ m \in Got /\ m \in Msg
    BY <1>6 DEF Show, HandlerAt, Receipts, TypeOK, Handling
  <2>2. /\ \A g \in Handler \ {h} : handler'[g] = handler[g]
        /\ handler'[h] = None
    BY <2>1 DEF HandlerEnd, TypeOK
  <2>3. /\ \A k \in Msg : Showing(k)' \subseteq Showing(k) \ {h}
        /\ h \in Showing(m)
    BY <2>1, <2>2 DEF Showing, HandlerAt
  <2>4. Receipts'
    BY <1>6, <2>1, <2>2 DEF Show, Receipts, Got, DeliveredIsReceived
  <2>5. ShownOnce'
    BY <1>6, <2>1, <2>3 DEF Show, ShownOnce
  <2> QED BY <2>4, <2>5
<1>7. ASSUME NEW m \in Msg, RecipientDelete(m) \/ SeenExpires(m)
      PROVE  Receipts' /\ ShownOnce'
  <2>1. Got' = Got /\ deleted \subseteq deleted' /\ UNCHANGED handler
    BY <1>7 DEF RecipientDelete, SeenExpires, Got
  <2>2. \A k \in Msg : Showing(k)' = Showing(k)
    BY <2>1 DEF Showing
  <2>3. Receipts'
    BY <1>7, <2>1 DEF RecipientDelete, SeenExpires, Receipts, Got,
                      DeliveredIsReceived
  <2>4. ShownOnce'
    BY <1>7, <2>1, <2>2 DEF RecipientDelete, SeenExpires, ShownOnce
  <2> QED BY <2>3, <2>4
<1>8. CASE RecipientRestart
  BY <1>8 DEF RecipientRestart, Receipts, Got, DeliveredIsReceived, ShownOnce,
              Showing
<1> QED BY <1>1, <1>2, <1>3, <1>4, <1>5, <1>6, <1>7, <1>8 DEF Receiving

LEMMA StepReceipts ==
  TypeOK /\ Receipts /\ ShownOnce /\ [Next]_vars => Receipts' /\ ShownOnce'
<1> SUFFICES ASSUME TypeOK, Receipts, ShownOnce, [Next]_vars
             PROVE  Receipts' /\ ShownOnce'
  OBVIOUS
<1>1. CASE Sending \/ Flushing
  BY <1>1, SenderReceipts
     DEF recipientVars, Receipts, Got, DeliveredIsReceived, ShownOnce, Showing
<1>2. CASE Receiving
  BY <1>2, ReceivingReceipts
<1>3. CASE UNCHANGED vars \/ \E p \in Packet : Lose(p)
  <2>1. UNCHANGED <<senderVars, recipientVars>> /\ wire' \subseteq wire
    BY <1>3 DEF vars, Lose
  <2> QED BY <2>1 DEF senderVars, recipientVars, Receipts, Got,
                     DeliveredIsReceived, ShownOnce, Showing
<1> QED BY <1>1, <1>2, <1>3 DEF Next

----------------------------------------------------------------------------
(* What waits in the queue.                                                *)

(* A step of the sender that concerns one message, and no flush.           *)
LEMMA OneMessage ==
  ASSUME TypeOK, Waiting, NEW m \in Msg, UNCHANGED flush,
         \A k \in Msg \ {m} :
           /\ command'[k] = command[k] /\ row'[k] = row[k]
           /\ queue'[k] = queue[k] /\ outcome'[k] = outcome[k]
           /\ k \in deleting' <=> k \in deleting,
         Untouched(m)', Waits(m)',
         \/ Settled(m) => Settled(m)'
         \/ command[m] \in Early
  PROVE  Waiting'
<1>1. ASSUME NEW k \in Msg PROVE Untouched(k)' /\ Waits(k)'
  <2>1. CASE k # m
    BY <2>1 DEF Waiting, Untouched, Waits, Settled, InFlush
  <2> QED BY <2>1
<1>2. ASSUME NEW f \in Flush, flush[f] # None, flush[f].at = "removing",
             flush[f].item = m
      PROVE  Settled(m)'
  BY <1>2 DEF Waiting, Untouched, InFlush
<1>3. ASSUME NEW f \in Flush, flush[f] # None, flush[f].at = "removing",
             flush[f].item # m
      PROVE  Settled(flush[f].item)'
  <2>1. PICK k \in Msg : k = flush[f].item
    BY <1>3 DEF TypeOK
  <2>2. Settled(k)
    BY <1>3, <2>1 DEF Waiting
  <2>3. Settled(k)'
    BY <1>3, <2>1, <2>2 DEF Settled
  <2> QED BY <2>1, <2>3 DEF Settled
<1> QED BY <1>1, <1>2, <1>3 DEF Waiting

LEMMA SendingWaiting == TypeOK /\ Waiting /\ Sending => Waiting'
<1> SUFFICES ASSUME TypeOK, Waiting, Sending PROVE Waiting'
  OBVIOUS
<1>1. ASSUME NEW m \in Msg, SendOnline(m) \/ SendSave(m) PROVE Waiting'
  <2>1. /\ command[m] \in {"new", "offline"}
        /\ command' \in {[command EXCEPT ![m] = "directSaved"],
                        [command EXCEPT ![m] = "offlineSaved"]}
        /\ command'[m] = "offlineSaved" => row'[m].queued
        /\ \A k \in Msg \ {m} : row'[k] = row[k]
        /\ UNCHANGED <<queue, flush, deleting, outcome>>
    BY <1>1 DEF SendOnline, SendSave, Insert, TypeOK
  <2>2. \A k \in Msg \ {m} : command'[k] = command[k]
    BY <2>1 DEF TypeOK
  <2>3. command'[m] \in {"directSaved", "offlineSaved"}
    BY <2>1 DEF TypeOK
  <2>4. Untouched(m)' /\ Waits(m)'
    BY <2>1, <2>3 DEF Waiting, Untouched, Waits, InFlush, Early
  <2> QED BY <2>1, <2>2, <2>4, OneMessage DEF Early
<1>2. ASSUME NEW m \in Msg, SendKey(m) \/ SendDirect(m) PROVE Waiting'
  <2>1. /\ command[m] \in Early
        /\ command' \in {[command EXCEPT ![m] = "offline"],
                        [command EXCEPT ![m] = "sending"]}
        /\ UNCHANGED <<row, queue, flush, deleting, outcome>>
    BY <1>2 DEF SendKey, SendDirect, Early
  <2>2. /\ \A k \in Msg \ {m} : command'[k] = command[k]
        /\ command'[m] \in {"offline", "sending"}
    BY <2>1 DEF TypeOK
  <2>3. Untouched(m)' /\ Waits(m)'
    BY <2>1, <2>2 DEF Waiting, Untouched, Waits, InFlush, Early
  <2> QED BY <2>1, <2>2, <2>3, OneMessage
<1>3. ASSUME NEW m \in Msg, SendReturns(m) PROVE Waiting'
  <2>1. /\ command[m] \in Early /\ outcome'[m] = "over"
        /\ command'[m] = "done"
        /\ \A k \in Msg \ {m} :
             command'[k] = command[k] /\ outcome'[k] = outcome[k]
        /\ UNCHANGED <<row, queue, flush, deleting>>
    BY <1>3 DEF SendReturns, Early, TypeOK
  <2>2. Untouched(m)' /\ Waits(m)'
    BY <2>1 DEF Untouched, Waits, Settled, Early
  <2> QED BY <2>1, <2>2, OneMessage
<1>4. ASSUME NEW m \in Msg, SendFails(m) PROVE Waiting'
  <2>1. /\ command[m] \in Early /\ command'[m] = "marking"
        /\ queue'[m] = 0
        /\ \A k \in Msg \ {m} :
             command'[k] = command[k] /\ queue'[k] = queue[k]
        /\ UNCHANGED <<row, flush, deleting, outcome>>
    BY <1>4 DEF SendFails, Early, TypeOK
  <2>2. Untouched(m)' /\ Waits(m)'
    BY <2>1, Nones DEF Untouched, Waits, Early
  <2> QED BY <2>1, <2>2, OneMessage
<1>5. ASSUME NEW m \in Msg, SendQueued(m) PROVE Waiting'
  <2>1. \A k \in Msg : row'[k] = IF k = m /\ row[m] # None
                                   THEN [row[m] EXCEPT !.queued = TRUE]
                                   ELSE row[k]
    BY <1>5, MarkTypes, RowFields DEF SendQueued
  <2>2. /\ command[m] = "marking" /\ command'[m] = "done"
        /\ \A k \in Msg \ {m} : command'[k] = command[k]
        /\ UNCHANGED <<queue, flush, deleting, outcome>>
    BY <1>5 DEF SendQueued, TypeOK
  <2>3. /\ row'[m] = None <=> row[m] = None
        /\ row[m] # None => row'[m].queued /\ row'[m].failed = row[m].failed
    <3>1. CASE row[m] = None
      BY <2>1, <3>1
    <3>2. CASE row[m] \in Row
      <4>1. /\ [row[m] EXCEPT !.queued = TRUE] \in Row
            /\ [row[m] EXCEPT !.queued = TRUE].queued
            /\ [row[m] EXCEPT !.queued = TRUE].failed = row[m].failed
        BY <3>2 DEF Row
      <4>2. row[m] # None /\ [row[m] EXCEPT !.queued = TRUE] # None
        BY <3>2, <4>1, Nones
      <4> QED BY <2>1, <4>1, <4>2
    <3> QED BY <3>1, <3>2 DEF TypeOK
  <2>4. Settled(m)' <=> Settled(m)
    BY <2>2, <2>3 DEF Settled
  <2>5. Untouched(m)' /\ Waits(m)'
    BY <2>2, <2>3, <2>4 DEF Waiting, Untouched, Waits, Settled, Early
  <2> QED BY <2>1, <2>2, <2>4, <2>5, OneMessage
<1>6. ASSUME NEW m \in Msg, SendOffline(m) PROVE Waiting'
  <2>1. /\ command[m] = "offlineSaved" /\ command'[m] = "done"
        /\ queue'[m] = 0
        /\ \A k \in Msg \ {m} :
             command'[k] = command[k] /\ queue'[k] = queue[k]
        /\ UNCHANGED <<row, flush, deleting, outcome>>
    BY <1>6 DEF SendOffline, TypeOK
  <2>2. Untouched(m)' /\ Waits(m)'
    BY <2>1, Nones DEF Waiting, Untouched, Waits, Settled, Early
  <2> QED BY <2>1, <2>2, OneMessage DEF Early
<1>7. ASSUME NEW m \in Msg, Reap(m) \/ SenderDelete(m) \/ SenderErase(m)
      PROVE  Waiting'
  <2>1. /\ queue'[m] \in {queue[m], None}
        /\ outcome'[m] = "over" \/ m \in deleting' \/ row'[m] = None
        /\ \A k \in Msg \ {m} :
             /\ queue'[k] = queue[k] /\ row'[k] = row[k]
             /\ outcome'[k] = outcome[k]
             /\ k \in deleting' <=> k \in deleting
        /\ UNCHANGED <<command, flush>>
    BY <1>7 DEF Reap, SenderDelete, SenderErase, FlushUnchanged, TypeOK
  <2>2. Settled(m)'
    BY <2>1 DEF Settled
  <2>3. Untouched(m)' /\ Waits(m)'
    BY <2>1, <2>2 DEF Waiting, Untouched, Waits, InFlush
  <2> QED BY <2>1, <2>2, <2>3, OneMessage
<1>8. ASSUME NEW m \in Msg, OnAck(m) PROVE Waiting'
  <2> DEFINE new == [row[m] EXCEPT !.delivered = TRUE, !.queued = FALSE]
  <2>1. \A k \in Msg : row'[k] = IF k = m /\ row[m] # None THEN new ELSE row[k]
    BY <1>8, MarkTypes, RowFields DEF OnAck
  <2>2. UNCHANGED <<command, queue, flush, deleting, outcome>>
    BY <1>8 DEF OnAck
  <2>3. /\ row'[m] = None <=> row[m] = None
        /\ row[m] # None => row'[m].delivered /\ row'[m].failed = row[m].failed
    <3>1. CASE row[m] = None
      BY <2>1, <3>1
    <3>2. CASE row[m] \in Row
      <4>1. new \in Row /\ new.delivered /\ new.failed = row[m].failed
        BY <3>2 DEF Row
      <4>2. row[m] # None /\ new # None
        BY <3>2, <4>1, Nones
      <4> QED BY <2>1, <4>1, <4>2
    <3> QED BY <3>1, <3>2 DEF TypeOK
  <2>4. Settled(m)' <=> Settled(m)
    BY <2>2, <2>3 DEF Settled
  <2>5. Untouched(m)' /\ Waits(m)'
    BY <2>2, <2>3, <2>4 DEF Waiting, Untouched, Waits, Settled, InFlush
  <2> QED BY <2>1, <2>2, <2>4, <2>5, OneMessage
<1>9. CASE Disconnect
  BY <1>9 DEF Disconnect, FlushUnchanged, Waiting, Untouched, Waits, Settled,
              InFlush
<1>10. CASE SenderRestart
  <2>1. ASSUME NEW m \in Msg PROVE Untouched(m)' /\ Waits(m)'
    BY <1>10 DEF SenderRestart, Cut, Waiting, Untouched, Waits, Settled,
                 InFlush, Early
  <2>2. \A f \in Flush : flush'[f] = None
    BY <1>10 DEF SenderRestart
  <2> QED BY <2>1, <2>2 DEF Waiting
<1> QED BY <1>1, <1>2, <1>3, <1>4, <1>5, <1>6, <1>7, <1>8, <1>9, <1>10
        DEF Sending

(* A step of a flush: it may take up messages that are in the queue, and   *)
(* what it does to its own item leaves that settled or in the queue.       *)
LEMMA OneFlush ==
  ASSUME TypeOK, Waiting, NEW f \in Flush, UNCHANGED command,
         \A g \in Flush \ {f} : flush'[g] = flush[g],
         \A m \in Msg : InFlush(f, m)' => InFlush(f, m) \/ queue[m] # None,
         \A m \in Msg : queue[m] = None => queue'[m] = None,
         \A m \in Msg : Settled(m) => Settled(m)',
         \A m \in Msg : ~Settled(m)' =>
           /\ queue[m] # None => queue'[m] # None
           /\ row[m].queued \/ row[m].delivered
                => row'[m].queued \/ row'[m].delivered,
         flush'[f] # None /\ flush'[f].at = "removing"
           => flush'[f].item \in Msg /\ Settled(flush[f].item)'
  PROVE  Waiting'
<1>1. ASSUME NEW m \in Msg PROVE Untouched(m)' /\ Waits(m)'
  <2>1. Untouched(m)'
    <3>1. ASSUME command[m] \in Early, NEW g \in Flush PROVE ~InFlush(g, m)'
      BY <3>1 DEF Waiting, Untouched, InFlush
    <3> QED BY <3>1 DEF Waiting, Untouched
  <2>2. Waits(m)'
    BY DEF Waiting, Waits
  <2> QED BY <2>1, <2>2
<1>2. ASSUME NEW g \in Flush, g # f, flush[g] # None,
             flush[g].at = "removing"
      PROVE  Settled(flush[g].item)'
  <2>1. PICK k \in Msg : k = flush[g].item
    BY <1>2 DEF TypeOK
  <2>2. Settled(k)'
    BY <1>2, <2>1 DEF Waiting
  <2>3. flush'[g] = flush[g]
    BY <1>2
  <2> QED BY <2>1, <2>2, <2>3 DEF Settled
<1>3. ASSUME NEW g \in Flush, flush'[g] # None, flush'[g].at = "removing"
      PROVE  Settled(flush[g].item)'
  <2>1. CASE g = f
    BY <1>3, <2>1
  <2>2. CASE g # f
    BY <1>2, <1>3, <2>2
  <2> QED BY <2>1, <2>2
<1> QED BY <1>1, <1>3 DEF Waiting

LEMMA FlushingWaiting == TypeOK /\ Waiting /\ Flushing => Waiting'
<1> SUFFICES ASSUME TypeOK, Waiting, NEW f \in Flush,
                    \/ PeerChanged(f) \/ FlushLookup(f) \/ FlushList(f)
                    \/ FlushTake(f) \/ FlushRefused(f) \/ FlushSent(f)
                    \/ FlushFails(f) \/ FlushRemove(f)
             PROVE  Waiting'
  BY DEF Flushing
<1>1. CASE PeerChanged(f) \/ FlushLookup(f) \/ FlushList(f) \/ FlushTake(f)
  <2>1. UNCHANGED <<command, row, queue, deleting, outcome>>
    BY <1>1 DEF PeerChanged, FlushLookup, FlushList, FlushTake, FlushUnchanged
  <2>2. PICK w \in FlushRun \cup {None} :
          /\ flush' = [flush EXCEPT ![f] = w]
          /\ w # None => w.at # "removing"
          /\ \A m \in Msg : w # None /\ (w.item = m \/ m \in w.todo)
               => InFlush(f, m) \/ queue[m] # None
    <3>1. CASE PeerChanged(f)
      <4> DEFINE w == [at |-> "notified", item |-> None, todo |-> {}]
      <4>1. w \in FlushRun
        BY DEF FlushRun
      <4>2. flush' = [flush EXCEPT ![f] = w]
        BY <3>1 DEF PeerChanged
      <4> HIDE DEF w
      <4>3. w.at = "notified" /\ w.item = None /\ w.todo = {}
        BY DEF w
      <4> QED BY <4>1, <4>2, <4>3, Nones
    <3>2. CASE FlushLookup(f) /\ connected
      <4> DEFINE w == [flush[f] EXCEPT !.at = "listing"]
      <4>1. /\ w \in FlushRun /\ w.at = "listing"
            /\ w.item = flush[f].item /\ w.todo = flush[f].todo
        BY <3>2, RunTypes DEF FlushLookup, FlushAt, FlushRun
      <4>2. flush' = [flush EXCEPT ![f] = w] /\ flush[f] # None
        BY <3>2 DEF FlushLookup, FlushGoto, FlushAt
      <4> QED BY <4>1, <4>2 DEF InFlush
    <3>3. CASE FlushLookup(f) /\ ~connected
      BY <3>3 DEF FlushLookup
    <3>4. CASE FlushList(f) /\ Listed = {}
      BY <3>4 DEF FlushList
    <3>5. CASE FlushList(f) /\ Listed # {}
      <4> DEFINE w == [at |-> "next", item |-> None, todo |-> Listed]
      <4>1. w \in FlushRun
        BY DEF FlushRun, Listed
      <4>2. flush' = [flush EXCEPT ![f] = w]
        BY <3>5 DEF FlushList
      <4> HIDE DEF w
      <4>3. w.at = "next" /\ w.item = None /\ w.todo = Listed
        BY DEF w
      <4> QED BY <4>1, <4>2, <4>3, Nones DEF Listed
    <3>6. CASE FlushTake(f)
      <4>1. PICK m \in flush[f].todo, capable \in BOOLEAN :
              flush' = [flush EXCEPT ![f] =
                [at |-> IF capable THEN "sending" ELSE "failing", item |-> m,
                 todo |-> flush[f].todo \ {m}]]
        BY <3>6 DEF FlushTake
      <4>2. flush[f] # None /\ flush[f].todo \subseteq Msg
        BY <3>6, RunTypes DEF FlushTake, FlushAt
      <4> DEFINE w == [at |-> IF capable THEN "sending" ELSE "failing",
                       item |-> m, todo |-> flush[f].todo \ {m}]
      <4>3. w \in FlushRun
        BY <4>2 DEF FlushRun
      <4>4. flush' = [flush EXCEPT ![f] = w]
        BY <4>1
      <4> HIDE DEF w
      <4>5. /\ w.at \in {"sending", "failing"}
            /\ w.item = m /\ w.todo = flush[f].todo \ {m}
        BY DEF w
      <4> QED BY <4>2, <4>3, <4>4, <4>5 DEF InFlush
    <3> QED BY <1>1, <3>1, <3>2, <3>3, <3>4, <3>5, <3>6
  <2>3. flush'[f] = w /\ \A g \in Flush \ {f} : flush'[g] = flush[g]
    BY <2>2 DEF TypeOK
  <2>4. /\ \A m \in Msg : InFlush(f, m)' => InFlush(f, m) \/ queue[m] # None
        /\ flush'[f] # None => flush'[f].at # "removing"
    BY <2>2, <2>3 DEF InFlush
  <2> QED BY <2>1, <2>3, <2>4, OneFlush DEF Settled
<1>2. CASE FlushRefused(f) \/ FlushSent(f)
  <2>1. PICK m \in Msg : flush[f] # None /\ flush[f].item = m
    BY <1>2 DEF FlushRefused, FlushSent, FlushAt, TypeOK
  <2> DEFINE w == [flush[f] EXCEPT !.at = "removing"]
  <2>2. /\ flush' = [flush EXCEPT ![f] = w]
        /\ w.item = m /\ w.todo = flush[f].todo
    BY <1>2, <2>1, RunTypes DEF FlushRefused, FlushSent, FlushGoto, FlushRun
  <2>3. /\ flush'[f] = w
        /\ \A g \in Flush \ {f} : flush'[g] = flush[g]
    BY <2>2 DEF TypeOK
  <2>4. \A k \in Msg : InFlush(f, k)' => InFlush(f, k)
    BY <2>1, <2>2, <2>3 DEF InFlush
  <2>5. UNCHANGED <<command, queue, deleting>>
    BY <1>2 DEF FlushRefused, FlushSent, FlushUnchanged
  <2>6. /\ \A k \in Msg \ {m} : row'[k] = row[k] /\ outcome'[k] = outcome[k]
        /\ Settled(m)'
    <3>1. CASE FlushRefused(f)
      <4> DEFINE new == [row[m] EXCEPT !.failed = TRUE, !.queued = FALSE]
      <4>1. Mark(m, new) /\ UNCHANGED outcome
        BY <2>1, <3>1 DEF FlushRefused
      <4>2. \A k \in Msg : row'[k] = IF k = m /\ row[m] # None THEN new
                                       ELSE row[k]
        BY <4>1, MarkTypes, RowFields
      <4>3. row'[m] = None \/ row'[m].failed
        <5>1. CASE row[m] \in Row
          <6>1. new.failed
            BY <5>1 DEF Row
          <6> QED BY <4>2, <5>1, <6>1, Nones
        <5> QED BY <4>2, <5>1 DEF TypeOK
      <4> QED BY <4>1, <4>2, <4>3 DEF Settled
    <3>2. CASE FlushSent(f)
      <4>1. outcome' = [outcome EXCEPT ![m] = "over"]
        BY <2>1, <3>2 DEF FlushSent
      <4>2. \A k \in Msg \ {m} : row'[k] = row[k]
        BY <2>1, <3>2, MarkTypes, RowFields DEF FlushSent
      <4> QED BY <4>1, <4>2 DEF Settled, TypeOK
    <3> QED BY <1>2, <3>1, <3>2
  <2>7. /\ \A k \in Msg : Settled(k) => Settled(k)'
        /\ \A k \in Msg : ~Settled(k)' => row'[k] = row[k]
    BY <2>5, <2>6 DEF Settled
  <2>8. flush'[f].item \in Msg /\ Settled(flush[f].item)'
    BY <2>2, <2>3, <2>6 DEF Settled
  <2> QED BY <2>3, <2>4, <2>5, <2>7, <2>8, OneFlush
<1>3. CASE FlushFails(f) \/ FlushRemove(f)
  <2>1. PICK m \in Msg : flush[f] # None /\ flush[f].item = m
    BY <1>3 DEF FlushFails, FlushRemove, FlushAt, TypeOK
  <2> DEFINE w == IF flush[f].todo = {} THEN None
                  ELSE [flush[f] EXCEPT !.at = "next", !.item = None]
  <2>2. flush' = [flush EXCEPT ![f] = w]
    BY <1>3 DEF FlushFails, FlushRemove, FlushNext
  <2>3. w # None => w.item = None /\ w.todo = flush[f].todo /\ w.at = "next"
    BY <2>1, RunTypes DEF FlushRun
  <2>4. /\ flush'[f] = w
        /\ \A g \in Flush \ {f} : flush'[g] = flush[g]
    BY <2>2 DEF TypeOK
  <2> HIDE DEF w
  <2>5. /\ \A k \in Msg : InFlush(f, k)' => InFlush(f, k)
        /\ flush'[f] # None => flush'[f].at # "removing"
    BY <2>1, <2>3, <2>4, Nones DEF InFlush
  <2>6. UNCHANGED <<command, row, deleting, outcome>>
    BY <1>3 DEF FlushFails, FlushRemove, FlushUnchanged
  <2>7. /\ \A k \in Msg : queue[k] = None => queue'[k] = None
        /\ \A k \in Msg : queue[k] # None /\ ~Settled(k) => queue'[k] # None
    <3>1. CASE FlushFails(f)
      <4>1. queue' = IF queue[m] = None THEN queue
                     ELSE [queue EXCEPT ![m] = queue[m] + 1]
        BY <2>1, <3>1 DEF FlushFails
      <4> QED BY <4>1, Nones DEF TypeOK
    <3>2. CASE FlushRemove(f)
      <4>1. queue' = [queue EXCEPT ![m] = None] /\ Settled(m)
        BY <2>1, <3>2 DEF FlushRemove, FlushAt, Waiting
      <4> QED BY <4>1 DEF TypeOK
    <3> QED BY <1>3, <3>1, <3>2
  <2>8. \A k \in Msg : Settled(k)' <=> Settled(k)
    BY <2>6 DEF Settled
  <2> QED BY <2>4, <2>5, <2>6, <2>7, <2>8, OneFlush
<1> QED BY <1>1, <1>2, <1>3

LEMMA StepWaiting == TypeOK /\ Waiting /\ [Next]_vars => Waiting'
<1>1. UNCHANGED senderVars /\ Waiting => Waiting'
  BY DEF senderVars, Waiting, Untouched, Waits, Settled, InFlush
<1>2. Receiving \/ (\E p \in Packet : Lose(p)) \/ UNCHANGED vars
        => UNCHANGED senderVars
  BY DEF Receiving, Receive, IsSeen, AckAgain, Save, MarkSeen, Acknowledge,
         Show, RecipientDelete, SeenExpires, RecipientRestart, Lose, vars
<1> QED BY <1>1, <1>2, SendingWaiting, FlushingWaiting DEF Next

----------------------------------------------------------------------------
(* Attempts.  A flush that has listed a message may add one attempt to it, *)
(* and has listed it while it had attempts left.                           *)

Charging(m) == {f \in Flush : InFlush(f, m)}

Charged(m) ==
  queue[m] # None =>
    queue[m] + Cardinality(Charging(m)) < MaxAttempts + Cardinality(Flush)

Retries ==
  /\ \A f \in Flush : flush[f] # None => flush[f].item \notin flush[f].todo
  /\ \A f \in Flush : flush[f] # None /\ flush[f].at = "next" => flush[f].item = None
  /\ \A m \in Msg : Charged(m)

LEMMA ChargingCount ==
  ASSUME NEW m
  PROVE  /\ IsFiniteSet(Charging(m)) /\ Cardinality(Charging(m)) \in Nat
         /\ Cardinality(Flush) \in Nat
         /\ Cardinality(Charging(m)) <= Cardinality(Flush)
<1>1. Charging(m) \in SUBSET Flush
  BY DEF Charging
<1> QED BY <1>1, ConstantsAssumption, FS_Subset, FS_CardinalityType

(* No flush takes the message up, and no attempt is added.                 *)
LEMMA ChargedLess ==
  ASSUME TypeOK, NEW m \in Msg, Charged(m),
         \A f \in Flush : InFlush(f, m)' => InFlush(f, m),
         queue'[m] \in {queue[m], 0, None}
  PROVE  Charged(m)'
<1>1. /\ IsFiniteSet(Charging(m)) /\ Cardinality(Charging(m)) \in Nat
      /\ Cardinality(Flush) \in Nat
      /\ Cardinality(Charging(m)) <= Cardinality(Flush)
  BY ChargingCount
<1>2. Charging(m)' \in SUBSET Charging(m)
  BY DEF Charging
<1>3. Cardinality(Charging(m)') \in Nat
      /\ Cardinality(Charging(m)') <= Cardinality(Charging(m))
  BY <1>1, <1>2, FS_Subset, FS_CardinalityType
<1>4. MaxAttempts \in Nat /\ MaxAttempts > 0 /\ queue[m] \in Nat \cup {None}
  BY ConstantsAssumption DEF TypeOK
<1> HIDE DEF Charging
<1> QED BY <1>1, <1>3, <1>4 DEF Charged

(* A flush has at most one attempt to add to a message it has listed.      *)
LEMMA ChargedOnce ==
  ASSUME TypeOK, NEW m \in Msg, Charged(m), NEW f \in Flush, InFlush(f, m),
         ~InFlush(f, m)', \A g \in Flush : InFlush(g, m)' => InFlush(g, m),
         queue[m] # None => queue'[m] = queue[m] + 1,
         queue[m] = None => queue'[m] = None
  PROVE  Charged(m)'
<1>1. /\ IsFiniteSet(Charging(m)) /\ Cardinality(Charging(m)) \in Nat
      /\ Cardinality(Flush) \in Nat
  BY ChargingCount
<1>2. Charging(m)' \in SUBSET (Charging(m) \ {f}) /\ f \in Charging(m)
  BY DEF Charging
<1>3. /\ IsFiniteSet(Charging(m) \ {f})
      /\ Cardinality(Charging(m) \ {f}) = Cardinality(Charging(m)) - 1
  BY <1>1, <1>2, FS_RemoveElement
<1>4. Cardinality(Charging(m)') \in Nat
      /\ Cardinality(Charging(m)') <= Cardinality(Charging(m)) - 1
  BY <1>2, <1>3, FS_Subset, FS_CardinalityType
<1>5. MaxAttempts \in Nat /\ queue[m] \in Nat \cup {None}
  BY ConstantsAssumption DEF TypeOK
<1> HIDE DEF Charging
<1> QED BY <1>1, <1>4, <1>5 DEF Charged

(* A message is listed while it has attempts left.                         *)
LEMMA ChargedListed ==
  ASSUME TypeOK, NEW m \in Listed, queue'[m] = queue[m]
  PROVE  Charged(m)'
<1>1. /\ Cardinality(Charging(m)') \in Nat /\ Cardinality(Flush) \in Nat
      /\ Cardinality(Charging(m)') <= Cardinality(Flush)
  <2>1. Charging(m)' \in SUBSET Flush
    BY DEF Charging
  <2> QED BY <2>1, ConstantsAssumption, FS_Subset, FS_CardinalityType
<1>2. MaxAttempts \in Nat /\ queue[m] \in Nat /\ queue[m] < MaxAttempts
  BY ConstantsAssumption DEF TypeOK, Listed
<1> HIDE DEF Charging
<1> QED BY <1>1, <1>2 DEF Charged

LEMMA SendingRetries == TypeOK /\ Retries /\ Sending => Retries'
<1> SUFFICES ASSUME TypeOK, Retries, Sending PROVE Retries'
  OBVIOUS
<1>1. \A f \in Flush : flush'[f] = flush[f] \/ flush'[f] = None
  BY DEF Sending, SendOnline, SendKey, SendSave, SendDirect, SendReturns,
         SendFails, SendQueued, SendOffline, Reap, SenderDelete,
         SenderErase, OnAck, Disconnect, SenderRestart, FlushUnchanged
<1>2. \A m \in Msg : queue'[m] \in {queue[m], 0, None}
  BY DEF Sending, SendOnline, SendKey, SendSave, SendDirect, SendReturns,
         SendFails, SendQueued, SendOffline, Reap, SenderDelete,
         SenderErase, OnAck, Disconnect, SenderRestart, FlushUnchanged, TypeOK
<1>3. ASSUME NEW m \in Msg PROVE Charged(m)'
  <2>1. \A f \in Flush : InFlush(f, m)' => InFlush(f, m)
    BY <1>1 DEF InFlush
  <2> QED BY <1>2, <2>1, ChargedLess DEF Retries
<1> QED BY <1>1, <1>3 DEF Retries

LEMMA FlushingRetries == TypeOK /\ Retries /\ Flushing => Retries'
<1> SUFFICES ASSUME TypeOK, Retries, NEW f \in Flush,
                    \/ PeerChanged(f) \/ FlushLookup(f) \/ FlushList(f)
                    \/ FlushTake(f) \/ FlushRefused(f) \/ FlushSent(f)
                    \/ FlushFails(f) \/ FlushRemove(f)
             PROVE  Retries'
  BY DEF Flushing
<1>1. \A g \in Flush \ {f} : flush'[g] = flush[g]
  BY DEF PeerChanged, FlushLookup, FlushList, FlushTake, FlushRefused,
         FlushSent, FlushFails, FlushRemove, FlushGoto, FlushNext, TypeOK
<1> DEFINE Own ==
      flush'[f] # None => /\ flush'[f].item \notin flush'[f].todo
                          /\ flush'[f].at = "next" => flush'[f].item = None
<1>2. CASE PeerChanged(f)
  <2>1. flush'[f] = [at |-> "notified", item |-> None, todo |-> {}]
    BY <1>2 DEF PeerChanged, TypeOK
  <2>2. Own /\ \A m \in Msg, g \in Flush : InFlush(g, m)' => InFlush(g, m)
    BY <1>1, <2>1, Nones DEF InFlush
  <2>3. queue' = queue
    BY <1>2 DEF PeerChanged
  <2>4. \A m \in Msg : Charged(m)'
    BY <2>2, <2>3, ChargedLess DEF Retries
  <2> QED BY <1>1, <2>2, <2>4 DEF Retries
<1>3. CASE FlushLookup(f) \/ FlushRefused(f) \/ FlushSent(f)
  <2>1. /\ flush[f] # None /\ flush[f] \in FlushRun
        /\ \/ flush'[f] = None
           \/ \E at \in {"listing", "removing"} :
                flush'[f] = [flush[f] EXCEPT !.at = at]
    BY <1>3 DEF FlushLookup, FlushRefused, FlushSent, FlushAt, FlushGoto, TypeOK
  <2>2. Own /\ \A m \in Msg, g \in Flush : InFlush(g, m)' => InFlush(g, m)
    BY <1>1, <2>1 DEF InFlush, Retries, FlushRun
  <2>3. queue' = queue
    BY <1>3 DEF FlushLookup, FlushRefused, FlushSent
  <2>4. \A m \in Msg : Charged(m)'
    BY <2>2, <2>3, ChargedLess DEF Retries
  <2> QED BY <1>1, <2>2, <2>4 DEF Retries
<1>4. CASE FlushList(f)
  <2>1. /\ \/ flush'[f] = None
           \/ flush'[f] = [at |-> "next", item |-> None, todo |-> Listed]
        /\ queue' = queue
    BY <1>4 DEF FlushList, TypeOK
  <2>2. Own
    BY <2>1, Nones DEF Listed
  <2>3. ASSUME NEW m \in Msg PROVE Charged(m)'
    <3>1. CASE m \in Listed
      BY <2>1, <3>1, ChargedListed
    <3>2. CASE m \notin Listed
      <4>1. \A g \in Flush : InFlush(g, m)' => InFlush(g, m)
        BY <1>1, <2>1, <3>2, Nones DEF InFlush
      <4> QED BY <2>1, <4>1, ChargedLess DEF Retries
    <3> QED BY <3>1, <3>2
  <2> QED BY <1>1, <2>2, <2>3 DEF Retries
<1>5. CASE FlushTake(f)
  <2>1. PICK m \in flush[f].todo, at \in {"sending", "failing"} :
          flush'[f] = [at |-> at, item |-> m, todo |-> flush[f].todo \ {m}]
    BY <1>5 DEF FlushTake, TypeOK
  <2>2. flush[f] # None /\ queue' = queue
    BY <1>5 DEF FlushTake, FlushAt
  <2>3. Own /\ \A k \in Msg, g \in Flush : InFlush(g, k)' => InFlush(g, k)
    BY <1>1, <2>1, <2>2 DEF InFlush
  <2>4. \A k \in Msg : Charged(k)'
    BY <2>2, <2>3, ChargedLess DEF Retries
  <2> QED BY <1>1, <2>3, <2>4 DEF Retries
<1>6. CASE FlushFails(f) \/ FlushRemove(f)
  <2>1. PICK m \in Msg : flush[f] # None /\ flush[f].item = m
    BY <1>6 DEF FlushFails, FlushRemove, FlushAt, TypeOK
  <2>2. /\ flush[f] \in FlushRun
        /\ \/ flush'[f] = None
           \/ flush'[f] = [flush[f] EXCEPT !.at = "next", !.item = None]
    BY <1>6, <2>1 DEF FlushFails, FlushRemove, FlushNext, TypeOK
  <2>3. /\ Own /\ InFlush(f, m) /\ ~InFlush(f, m)'
        /\ \A k \in Msg, g \in Flush : InFlush(g, k)' => InFlush(g, k)
    <3>1. m \notin flush[f].todo /\ m # None /\ None \notin flush[f].todo
      BY <2>1, <2>2, Nones DEF Retries, FlushRun
    <3>2. \/ flush'[f] = None
          \/ /\ flush'[f] # None /\ flush'[f].item = None
             /\ flush'[f].todo = flush[f].todo
      BY <2>2, Nones DEF FlushRun
    <3>3. Own /\ InFlush(f, m) /\ ~InFlush(f, m)'
      BY <2>1, <3>1, <3>2 DEF InFlush
    <3>4. \A k \in Msg : InFlush(f, k)' => InFlush(f, k)
      BY <2>1, <3>2, Nones DEF InFlush
    <3>5. \A k \in Msg, g \in Flush \ {f} : InFlush(g, k)' => InFlush(g, k)
      BY <1>1 DEF InFlush
    <3> QED BY <3>3, <3>4, <3>5
  <2>4. /\ \A k \in Msg \ {m} : queue'[k] = queue[k]
        /\ \/ queue'[m] = None
           \/ queue[m] # None /\ queue'[m] = queue[m] + 1
    BY <1>6, <2>1 DEF FlushFails, FlushRemove, TypeOK
  <2>5. Charged(m)'
    BY <2>3, <2>4, ChargedOnce, ChargedLess DEF Retries
  <2>6. \A k \in Msg \ {m} : Charged(k)'
    BY <2>3, <2>4, ChargedLess DEF Retries
  <2> QED BY <1>1, <2>3, <2>5, <2>6 DEF Retries
<1> QED BY <1>2, <1>3, <1>4, <1>5, <1>6

LEMMA StepRetries == TypeOK /\ Retries /\ [Next]_vars => Retries'
<1>1. UNCHANGED senderVars /\ Retries => Retries'
  BY DEF senderVars, Retries, Charged, Charging, InFlush
<1>2. Receiving \/ (\E p \in Packet : Lose(p)) \/ UNCHANGED vars
        => UNCHANGED senderVars
  BY DEF Receiving, Receive, IsSeen, AckAgain, Save, MarkSeen, Acknowledge,
         Show, RecipientDelete, SeenExpires, RecipientRestart, Lose, vars
<1> QED BY <1>1, <1>2, SendingRetries, FlushingRetries DEF Next

----------------------------------------------------------------------------
(* The strengthened invariant holds in every reachable state.              *)
THEOREM Invariant == Spec => []IInv
<1>1. IInv /\ [Next]_vars => IInv'
  BY StepTypes, StepReceipts, StepWaiting DEF IInv
<1> QED BY InitIInv, <1>1, PTL DEF Spec

(* The type invariant of both databases, the tasks and the packets.        *)
THEOREM Typed == Spec => []TypeOK
<1>1. IInv => TypeOK
  BY DEF IInv
<1> QED BY Invariant, <1>1, PTL

(* A receipt is never false: what shows as delivered was stored.           *)
THEOREM Delivered == Spec => []DeliveredIsReceived
<1>1. IInv => DeliveredIsReceived
  BY DEF IInv, Receipts
<1> QED BY Invariant, <1>1, PTL

(* A message is shown once, however often it arrives.                      *)
THEOREM Once == Spec => []ShownOnce
<1>1. IInv => ShownOnce
  BY DEF IInv
<1> QED BY Invariant, <1>1, PTL

(* A message that send_message has dealt with is not dropped silently.     *)
THEOREM NotDropped == Spec => []Kept
<1>1. IInv => Kept
  BY DEF IInv, Waiting, Waits, Settled, Kept
<1> QED BY Invariant, <1>1, PTL

(* However many flushes run at once, a message is retried no more often    *)
(* than the attempts it has and one for each flush that listed it before.  *)
THEOREM RetriesCounted == Spec => []RetriesBounded
<1>1. Init => Retries
  BY DEF Init, Retries, Charged
<1>2. TypeOK /\ TypeOK' /\ Retries /\ [Next]_vars => Retries'
  BY StepRetries
<1>3. TypeOK /\ Retries => RetriesBounded
  <2> SUFFICES ASSUME TypeOK, Retries, NEW m \in Msg, queue[m] # None
               PROVE  queue[m] < MaxAttempts + Cardinality(Flush)
    BY DEF RetriesBounded
  <2>1. Cardinality(Charging(m)) \in Nat /\ Cardinality(Flush) \in Nat
    BY ChargingCount
  <2>2. MaxAttempts \in Nat /\ queue[m] \in Nat
    BY ConstantsAssumption DEF TypeOK
  <2> HIDE DEF Charging
  <2> QED BY <2>1, <2>2 DEF Retries, Charged
<1> QED BY <1>1, <1>2, <1>3, Typed, PTL DEF Spec
=============================================================================
