---------------------------- MODULE PacketChannel ----------------------------
(***************************************************************************)
(* What UdpTransport.send_packet promises its callers about one session    *)
(* (backend/meshtalk/udp_transport.py, docs/PROTOCOL.md 6.5): a packet is  *)
(* handed to the remote application at most once, a call that returns has  *)
(* handed its packet over, and a call that is refused never will.  A call  *)
(* that failed says nothing: its packet may arrive later, or never.        *)
(***************************************************************************)
EXTENDS Naturals

CONSTANT Msg

VARIABLES
  call,     \* how the call of send_packet for a packet stands
  handed    \* how often the packet was handed to on_packet

vars == <<call, handed>>

Init ==
  /\ call = [m \in Msg |-> "idle"]
  /\ handed = [m \in Msg |-> 0]

Goes(m, from, to) ==
  /\ call[m] = from
  /\ call' = [call EXCEPT ![m] = to]
  /\ UNCHANGED handed

Start(m) == Goes(m, "idle", "sending")
Refuse(m) == Goes(m, "idle", "refused")
Fail(m) == Goes(m, "sending", "failed")
Return(m) == handed[m] = 1 /\ Goes(m, "sending", "returned")

HandOver(m) ==
  /\ call[m] \in {"sending", "failed"} /\ handed[m] = 0
  /\ handed' = [handed EXCEPT ![m] = 1]
  /\ UNCHANGED call

Next == \E m \in Msg :
  Start(m) \/ Refuse(m) \/ Fail(m) \/ Return(m) \/ HandOver(m)

Spec == Init /\ [][Next]_vars
=============================================================================
