--------------------------- MODULE Launcher_proofs ---------------------------
(***************************************************************************)
(* Theorems of Launcher, for any number of identifiers and of processes.   *)
(*                                                                         *)
(* Everything rests on one fact, Evolves: from one state to the next an    *)
(* identifier is freed, stays with its process, or goes to a process born  *)
(* later than any before.  What is remembered of a process by identifier   *)
(* and birth is thus never mistaken for another.                           *)
(***************************************************************************)
EXTENDS Launcher, TLAPS

(* Nothing that is known was born later than the last process, a child is  *)
(* younger than its parent, and only who has started a backend stops one.  *)
Ages ==
  /\ \A c \in cleaned : c # None => c.born <= born
  /\ \A q \in Pid : table[q] # None =>
       /\ table[q].born <= born
       /\ table[q].child # None =>
            /\ table[q].child.born <= born
            /\ table[q].child.born > table[q].born
       /\ \A t \in table[q].snap : t.born <= born

HasChild ==
  /\ None \notin cleaned
  /\ \A q \in Pid : table[q] # None /\ table[q].at \in {"term", "kill", "reap"} =>
       table[q].child # None

(* A window that has stopped its backend waits for nothing that runs.      *)
ReapedStopped ==
  \A q \in Pid : table[q] # None /\ table[q].at = "reap" => ~Runs(table[q].child)

(* What an installer has in its list is part of the installation.          *)
SnapshotOwn ==
  \A q \in Pid : table[q] # None =>
    \A t \in table[q].snap : Runs(t) => table[t.pid].kind # "other"

(* Who has the identifier an installer is about to signal is the process   *)
(* it has looked up, which is part of the installation, or came later.     *)
TargetOwn ==
  \A q \in Pid : At(q, "signal") =>
    LET t == table[q].target
    IN  /\ t \in Picked /\ t.asOf <= born
        /\ Alive(t.pid) => \/ Runs(t) /\ table[t.pid].kind # "other"
                           \/ table[t.pid].born > t.asOf

(* What a step does to the process with identifier p: it is as before, or  *)
(* new, or gone; its child is as before or new; its list becomes shorter   *)
(* or is written anew; it stops a backend it has started; and it finds the *)
(* backend it has stopped gone.                                            *)
Evolves(p) ==
  \/ table'[p] = None
  \/ /\ table[p] # None /\ table'[p].kind = table[p].kind
     /\ table'[p].born = table[p].born /\ born' >= born
  \/ table[p] = None /\ table'[p].born = born + 1 /\ born' = born + 1

Children(p) ==
  table'[p] # None =>
    \/ table'[p].child = None
    \/ table[p] # None /\ table'[p].child = table[p].child
    \/ table[p] # None /\ table'[p].child.born = born + 1 /\ born' = born + 1

Snaps(p) ==
  table'[p] # None =>
    \/ table'[p].snap = {}
    \/ table[p] # None /\ table'[p].snap \subseteq table[p].snap
    \/ table'[p].snap = {Identity(t) : t \in Targets(p)}

Stops(p) ==
  table'[p] # None /\ table'[p].at \in {"term", "kill", "reap"} =>
    /\ table[p] # None /\ table'[p].child = table[p].child
    /\ table[p].child # None
    /\ table'[p].at = "reap" => table[p].at = "reap" \/ ~Runs(table[p].child)'

(* How a process comes to be about to signal, and to restart: it has been  *)
(* so, it has just looked its target up, or has found itself alone.        *)
Restarting == {"ask", "asked", "settle"}

Picks(p) ==
  At(p, "signal")' =>
    /\ table[p] # None
    /\ \/ table[p].at = "signal" /\ table'[p].target = table[p].target
       \/ \E t \in table[p].snap : Runs(t) /\ table'[p].target = Chosen(t)

Enters(p) ==
  table'[p] # None /\ table'[p].at \in Restarting =>
    /\ table[p] # None
    /\ table[p].at \in Restarting \/ Named = {p}

Moves == \A p \in Pid : Evolves(p) /\ Children(p) /\ Snaps(p) /\ Stops(p)

-----------------------------------------------------------------------------
(* The building blocks of the actions.                                     *)

LEMMA GotoMoves ==
  ASSUME TypeOK, HasChild, NEW q \in Pid, NEW at \in Stages, table[q] # None,
         at \in {"term", "kill"} => table[q].child # None, at # "reap",
         Goto(q, at), Quiet
  PROVE  TypeOK' /\ Moves
  BY DEF TypeOK, HasChild, Entries, Goto, Quiet, Moves, Evolves, Children, Snaps, Stops

LEMMA GoneMoves ==
  ASSUME TypeOK, HasChild, NEW q \in Pid, Gone(q), born' = born
  PROVE  table' \in [Pid -> {None} \cup Entries] /\ Moves
  BY DEF TypeOK, HasChild, Entries, Gone, Moves, Evolves, Children, Snaps, Stops, Alive

LEMMA AppearMoves ==
  ASSUME TypeOK, HasChild, NEW q \in Pid, NEW kind \in Kinds,
         NEW at \in Stages \ {"term", "kill", "reap"}, Appear(q, kind, at)
  PROVE  TypeOK' /\ Moves
  <1>1. table' \in [Pid -> {None} \cup Entries]
    BY DEF TypeOK, Entries, Appear, Process, Known
  <1>2. Moves
    BY <1>1 DEF TypeOK, HasChild, Entries, Appear, Process, Moves, Evolves, Children,
      Snaps, Stops, Alive
  <1>3. QED  BY <1>1, <1>2 DEF TypeOK, Appear

LEMMA SpawnMoves ==
  ASSUME TypeOK, HasChild, NEW q \in Pid, NEW b \in Pid,
         NEW at \in Stages \ {"term", "kill", "reap"}, table[q] # None, Spawn(q, b, at)
  PROVE  table' \in [Pid -> {None} \cup Entries] /\ born' \in Nat /\ Moves
  <1>1. q # b
    BY DEF Spawn
  <1>2. /\ table'[b] = Process("backend", "starting")
        /\ table'[q] = [table[q] EXCEPT !.at = at, !.child = [pid |-> b, born |-> born + 1]]
        /\ \A p \in Pid \ {q, b} : table'[p] = table[p]
        /\ table[b] = None /\ born' = born + 1
    BY <1>1 DEF Spawn, TypeOK
  <1>3. Process("backend", "starting") \in Entries
    BY DEF Process, Entries, TypeOK, Known, Kinds, Stages
  <1>4. [table[q] EXCEPT !.at = at, !.child = [pid |-> b, born |-> born + 1]] \in Entries
    <2>1. [pid |-> b, born |-> born + 1] \in Known /\ table[q] \in Entries /\ at \in Stages
      BY DEF TypeOK, Known
    <2>2. QED  BY <2>1 DEF Entries
  <1>5. table' \in [Pid -> {None} \cup Entries]
    BY <1>3, <1>4 DEF Spawn, TypeOK
  <1>6. Moves
    <2> SUFFICES ASSUME NEW p \in Pid
                 PROVE  Evolves(p) /\ Children(p) /\ Snaps(p) /\ Stops(p)
      BY DEF Moves
    <2>1. CASE p = b
      BY <1>2, <2>1 DEF Process, Evolves, Children, Snaps, Stops
    <2>2. CASE p = q
      <3>1. /\ table'[q].at = at /\ table'[q].kind = table[q].kind
            /\ table'[q].born = table[q].born /\ table'[q].snap = table[q].snap
            /\ table'[q].child.born = born + 1
            /\ table'[q] \in Entries
        <4>1. table[q] \in Entries
          BY DEF TypeOK
        <4>2. QED  BY <1>2, <1>4, <4>1 DEF Entries
      <3>2. born + 1 >= born
        BY DEF TypeOK
      <3>3. Evolves(q) /\ Children(q)
        BY <1>2, <3>1, <3>2 DEF Evolves, Children
      <3>4. Snaps(q) /\ Stops(q)
        BY <3>1 DEF Snaps, Stops
      <3>5. QED  BY <2>2, <3>3, <3>4
    <2>3. CASE p \notin {q, b}
      BY <1>2, <2>3 DEF TypeOK, HasChild, Evolves, Children, Snaps, Stops
    <2>4. QED  BY <2>1, <2>2, <2>3
  <1>7. QED  BY <1>2, <1>5, <1>6 DEF TypeOK

(* A signal changes only how far a backend is, besides the sender.         *)
LEMMA SignalMoves ==
  ASSUME TypeOK, HasChild, NEW q \in Pid, NEW victim, NEW kill \in BOOLEAN,
         NEW next \in {None} \cup Entries,
         NEW by \in {"cleanup", "update", "start", "stop", "close"},
         table[q] # None, Signal(q, victim, kill, next, by), born' = born,
         next # None =>
           /\ next.kind = table[q].kind /\ next.born = table[q].born
           /\ next.child = table[q].child /\ next.snap \subseteq table[q].snap
           /\ next.at \in {"term", "kill", "reap"} => next.child # None
           /\ next.at = "reap" => ~Runs(next.child)'
  PROVE  /\ table' \in [Pid -> {None} \cup Entries]
         /\ harmed' \subseteq {"cleanup", "update", "start", "stop", "close"}
         /\ Moves
  <1>1. /\ table'[q] = next
        /\ \A p \in Pid \ {q} :
             \/ table'[p] = table[p] \/ table'[p] = None
             \/ /\ table[p] # None /\ table'[p] \in Entries
                /\ table'[p].at \in {"deaf", "closing"}
                /\ table'[p].kind = table[p].kind /\ table'[p].born = table[p].born
                /\ table'[p].child = table[p].child /\ table'[p].snap = table[p].snap
    <2>1. table'[q] = next
      BY DEF Signal
    <2>2. ASSUME NEW p \in Pid \ {q}, table'[p] # table[p], table'[p] # None
          PROVE  /\ table[p] \in Entries /\ table[p] # None
                 /\ \E at \in {"deaf", "closing"} : table'[p] = [table[p] EXCEPT !.at = at]
      BY <2>2 DEF Signal, TypeOK
    <2>3. {"deaf", "closing"} \subseteq Stages
      BY DEF Stages
    <2>4. ASSUME NEW p \in Pid \ {q}, table'[p] # table[p], table'[p] # None
          PROVE  /\ table[p] # None /\ table'[p] \in Entries
                 /\ table'[p].at \in {"deaf", "closing"}
                 /\ table'[p].kind = table[p].kind /\ table'[p].born = table[p].born
                 /\ table'[p].child = table[p].child /\ table'[p].snap = table[p].snap
      <3>1. PICK at \in {"deaf", "closing"} : table'[p] = [table[p] EXCEPT !.at = at]
        BY <2>2, <2>4
      <3>2. table[p] \in Entries /\ table[p] # None /\ at \in Stages
        BY <2>2, <2>3, <2>4
      <3>3. QED  BY <3>1, <3>2 DEF Entries
    <2>5. QED  BY <2>1, <2>4
  <1>2. table' \in [Pid -> {None} \cup Entries]
    <2>1. \A p \in Pid : table'[p] \in {None} \cup Entries
      BY <1>1 DEF TypeOK
    <2>2. QED  BY <2>1 DEF Signal
  <1>3. Moves
    <2> SUFFICES ASSUME NEW p \in Pid
                 PROVE  Evolves(p) /\ Children(p) /\ Snaps(p) /\ Stops(p)
      BY DEF Moves
    <2>1. CASE p = q
      BY <1>1, <2>1 DEF TypeOK, Evolves, Children, Snaps, Stops
    <2>2. CASE p # q /\ table'[p] = table[p]
      BY <2>2 DEF TypeOK, HasChild, Evolves, Children, Snaps, Stops
    <2>3. CASE p # q /\ table'[p] # table[p]
      BY <1>1, <2>3 DEF TypeOK, Evolves, Children, Snaps, Stops
    <2>4. QED  BY <2>1, <2>2, <2>3
  <1>4. QED  BY <1>2, <1>3 DEF Signal, TypeOK

-----------------------------------------------------------------------------
(* Every action, from these blocks.                                        *)

LEMMA BackendMoves ==
  ASSUME TypeOK, HasChild, NEW q \in Pid,
         \/ BackendUp(q) \/ BackendEnds(q) \/ Stranger(q) \/ StrangerEnds(q)
  PROVE  TypeOK' /\ Moves
  <1>1. CASE BackendUp(q)
    <2>1. PICK at \in {"up", "deaf"} : Goto(q, at)
      BY <1>1 DEF BackendUp
    <2>2. at \in Stages /\ table[q] # None
      BY <1>1 DEF Stages, BackendUp, Kind, Alive
    <2>3. QED  BY <1>1, <2>1, <2>2, GotoMoves DEF BackendUp
  <1>2. CASE BackendEnds(q) \/ StrangerEnds(q)
    BY <1>2, GoneMoves DEF BackendEnds, StrangerEnds, Quiet, TypeOK
  <1>3. CASE Stranger(q)
    <2>1. "other" \in Kinds /\ "on" \in Stages \ {"term", "kill", "reap"}
      BY DEF Kinds, Stages
    <2>2. QED  BY <1>3, <2>1, AppearMoves DEF Stranger
  <1>4. QED  BY <1>1, <1>2, <1>3

LEMMA WindowMoves ==
  ASSUME TypeOK, HasChild, NEW q \in Pid,
         \/ Open(q) \/ UseRunning(q) \/ Ready(q) \/ End(q)
         \/ Reap(q) \/ Crash(q) \/ \E b \in Pid : StartOwn(q, b)
  PROVE  TypeOK' /\ Moves
  <1>0. {"probe", "run", "term", "wait"} \subseteq Stages /\ "window" \in Kinds
    BY DEF Stages, Kinds
  <1>1. CASE Open(q)
    BY <1>0, <1>1, AppearMoves DEF Open
  <1>2. CASE UseRunning(q) \/ Ready(q)
    BY <1>0, <1>2, GotoMoves DEF UseRunning, Ready, Kind, Alive
  <1>3. CASE End(q)
    <2>1. table[q] # None
      BY <1>3 DEF End, Kind, Alive
    <2>2. CASE table[q].child # None
      BY <1>0, <1>3, <2>1, <2>2, GotoMoves DEF End
    <2>3. CASE table[q].child = None
      BY <1>3, <2>3, GoneMoves DEF End, Quiet, TypeOK
    <2>4. QED  BY <2>2, <2>3
  <1>4. CASE Reap(q)
    <2>1. table[q] # None /\ table[q].child \in {None} \cup Known
      BY <1>4 DEF Reap, Kind, Alive, TypeOK, Entries
    <2>2. QED  BY <1>4, <2>1, GoneMoves DEF Reap, TypeOK
  <1>5. CASE Crash(q)
    BY <1>5, GoneMoves DEF Crash, Quiet, TypeOK
  <1>6. ASSUME NEW b \in Pid, StartOwn(q, b)
        PROVE  TypeOK' /\ Moves
    <2>1. table[q] # None
      BY <1>6 DEF StartOwn, Kind, Alive
    <2>2. QED  BY <1>0, <1>6, <2>1, SpawnMoves DEF StartOwn, TypeOK
  <1>7. QED  BY <1>1, <1>2, <1>3, <1>4, <1>5, <1>6

(* What the sender of a signal becomes: its stage changes.                 *)
LEMMA NextStage ==
  ASSUME TypeOK, NEW q \in Pid, table[q] # None, NEW at \in Stages,
         NEW next, next = [table[q] EXCEPT !.at = at]
  PROVE  /\ next \in Entries /\ next.at = at
         /\ next.kind = table[q].kind /\ next.born = table[q].born
         /\ next.child = table[q].child /\ next.snap = table[q].snap
  BY DEF TypeOK, Entries

LEMMA TerminateMoves ==
  ASSUME TypeOK, HasChild, NEW q \in Pid, Terminate(q)
  PROVE  TypeOK' /\ Moves
  <1> DEFINE c == table[q].child
             next == [table[q] EXCEPT !.at = "kill"]
  <1>0. "kill" \in Stages /\ "reap" \in Stages
    BY DEF Stages
  <1>1. table[q] # None /\ c # None
    BY DEF Terminate, Kind, Alive, At, HasChild
  <1>2. CASE Alive(c.pid)
    <2>1. /\ next \in Entries /\ next.at = "kill"
          /\ next.kind = table[q].kind /\ next.born = table[q].born
          /\ next.child = table[q].child /\ next.snap = table[q].snap
      BY <1>0, <1>1, NextStage
    <2>2. Signal(q, c.pid, FALSE, next, "cleanup") /\ born' = born
      BY <1>2 DEF Terminate
    <2> HIDE DEF next, c
    <2>3. /\ table' \in [Pid -> {None} \cup Entries] /\ Moves
          /\ harmed' \subseteq {"cleanup", "update", "start", "stop", "close"}
      BY <1>1, <2>1, <2>2, SignalMoves DEF c
    <2>4. QED  BY <2>3 DEF Terminate, TypeOK
  <1>3. CASE ~Alive(c.pid)
    <2>1. Goto(q, "reap") /\ UNCHANGED <<born, pidFile, harmed, cleaned>>
      BY <1>3 DEF Terminate
    <2>2. TypeOK' /\ \A p \in Pid : Evolves(p) /\ Children(p) /\ Snaps(p)
      BY <1>0, <1>1, <2>1
      DEF Goto, TypeOK, Entries, Evolves, Children, Snaps
    <2>3. table'[q].child = c /\ table'[q].at = "reap" /\ ~Runs(c)'
      BY <1>1, <1>3, <2>1 DEF Goto, TypeOK, Entries, Runs, Alive
    <2>4. \A p \in Pid : Stops(p)
      BY <1>1, <2>1, <2>3 DEF Goto, TypeOK, HasChild, Stops
    <2>5. QED  BY <2>2, <2>4 DEF Moves
  <1>4. QED  BY <1>2, <1>3

LEMMA KillMoves ==
  ASSUME TypeOK, HasChild, Ages, NEW q \in Pid, Kill(q)
  PROVE  TypeOK' /\ Moves
  <1>0. "reap" \in Stages
    BY DEF Stages
  <1>a. PICK c : c = table[q].child
    OBVIOUS
  <1>1. table[q] # None /\ c # None /\ c.born > table[q].born
    BY <1>a DEF Kill, Kind, Alive, At, HasChild, Ages
  <1>2. CASE Alive(c.pid)
    <2>a. PICK next : next = [table[q] EXCEPT !.at = "reap"]
      OBVIOUS
    <2>1. /\ next \in Entries /\ next.at = "reap"
          /\ next.kind = table[q].kind /\ next.born = table[q].born
          /\ next.child = c /\ next.snap = table[q].snap
      BY <1>0, <1>a, <1>1, <2>a, NextStage
    <2>2. Signal(q, c.pid, TRUE, next, "cleanup") /\ born' = born
      BY <1>a, <1>2, <2>a DEF Kill
    <2>3. ~Runs(c)'
      <3>1. CASE c.pid = q
        <4>1. table'[q] = next
          BY <2>2 DEF Signal
        <4>2. c.born # table[q].born
          BY <1>a, <1>1 DEF TypeOK, Entries, Known
        <4>3. QED  BY <2>1, <3>1, <4>1, <4>2 DEF Runs
      <3>2. CASE c.pid # q
        BY <1>2, <2>2, <3>2 DEF Signal, Runs, Alive
      <3>3. QED  BY <3>1, <3>2
    <2>4. /\ table' \in [Pid -> {None} \cup Entries] /\ Moves
          /\ harmed' \subseteq {"cleanup", "update", "start", "stop", "close"}
      BY <1>a, <1>1, <2>1, <2>2, <2>3, SignalMoves
    <2>5. QED  BY <2>4 DEF Kill, TypeOK
  <1>3. CASE ~Alive(c.pid)
    <2>1. Goto(q, "reap") /\ UNCHANGED <<born, pidFile, harmed, cleaned>>
      BY <1>a, <1>3 DEF Kill
    <2>2. TypeOK' /\ \A p \in Pid : Evolves(p) /\ Children(p) /\ Snaps(p)
      BY <1>0, <1>1, <2>1
      DEF Goto, TypeOK, Entries, Evolves, Children, Snaps
    <2>3. table'[q].child = c /\ table'[q].at = "reap" /\ ~Runs(c)'
      BY <1>a, <1>1, <1>3, <2>1 DEF Goto, TypeOK, Entries, Runs, Alive
    <2>4. \A p \in Pid : Stops(p)
      BY <1>a, <1>1, <2>1, <2>3 DEF Goto, TypeOK, HasChild, Stops
    <2>5. QED  BY <2>2, <2>4 DEF Moves
  <1>4. QED  BY <1>2, <1>3

(* The request to shut down: backends change their stage, besides q.       *)
LEMMA AskedMoves ==
  ASSUME TypeOK, HasChild, NEW q \in Pid, table[q] # None, Quiet,
         NEW next \in Entries,
         next.kind = table[q].kind, next.born = table[q].born,
         next.child = table[q].child,
         \/ next.snap \subseteq table[q].snap
         \/ next.snap = {Identity(t) : t \in Targets(q)},
         next.at \in Stages \ {"term", "kill", "reap"},
         table' = [p \in Pid |->
           IF p = q THEN next
           ELSE IF p \in Kind("backend") /\ table[p].at = "up"
                THEN [table[p] EXCEPT !.at = "closing"] ELSE table[p]]
  PROVE  TypeOK' /\ Moves
  <1>0. "closing" \in Stages
    BY DEF Stages
  <1>1. ASSUME NEW p \in Pid
        PROVE  /\ table'[p] \in {None} \cup Entries
               /\ Evolves(p) /\ Children(p) /\ Snaps(p) /\ Stops(p)
    <2>1. CASE p = q
      <3>1. table'[q] = next
        OBVIOUS
      <3>2. QED  BY <2>1, <3>1 DEF Quiet, TypeOK, Evolves, Children, Snaps, Stops
    <2>2. CASE p # q /\ p \in Kind("backend") /\ table[p].at = "up"
      <3>1. table[p] # None /\ table'[p] = [table[p] EXCEPT !.at = "closing"]
        BY <2>2 DEF Kind, Alive
      <3>2. /\ table'[p] \in Entries /\ table'[p].at = "closing"
            /\ table'[p].kind = table[p].kind /\ table'[p].born = table[p].born
            /\ table'[p].child = table[p].child /\ table'[p].snap = table[p].snap
        BY <1>0, <3>1, NextStage
      <3>3. QED  BY <3>1, <3>2 DEF Quiet, TypeOK, Evolves, Children, Snaps, Stops
    <2>3. CASE p # q /\ ~(p \in Kind("backend") /\ table[p].at = "up")
      <3>1. table'[p] = table[p]
        BY <2>3
      <3>2. QED  BY <3>1 DEF Quiet, TypeOK, HasChild, Evolves, Children, Snaps, Stops
    <2>4. QED  BY <2>1, <2>2, <2>3
  <1>2. QED  BY <1>1 DEF Quiet, TypeOK, Moves

LEMMA UpdateMoves ==
  ASSUME TypeOK, HasChild, NEW q \in Pid,
         Restart(q) \/ AskShutdown(q) \/ SignalForUpdate(q) \/ Replace(q)
  PROVE  TypeOK' /\ Moves
  <1>0. {"ask", "asked", "settle", "probe"} \subseteq Stages
    BY DEF Stages
  <1>1. CASE Restart(q)
    <2>1. table[q] # None
      BY <1>1 DEF Restart, Kind, Alive
    <2>2. CASE Named = {q}
      BY <1>0, <1>1, <2>1, <2>2, GotoMoves DEF Restart
    <2>3. CASE Named # {q}
      BY <1>1, <2>3, GoneMoves DEF Restart, Quiet, TypeOK
    <2>4. QED  BY <2>2, <2>3
  <1>2. CASE AskShutdown(q)
    <2>a. PICK next : next = [table[q] EXCEPT !.at = "asked"]
      OBVIOUS
    <2>1. table[q] # None
      BY <1>2 DEF AskShutdown, At, Alive
    <2>2. /\ next \in Entries /\ next.at = "asked"
          /\ next.kind = table[q].kind /\ next.born = table[q].born
          /\ next.child = table[q].child /\ next.snap = table[q].snap
      BY <1>0, <2>a, <2>1, NextStage
    <2>3. table' = [p \in Pid |->
           IF p = q THEN next
           ELSE IF p \in Kind("backend") /\ table[p].at = "up"
                THEN [table[p] EXCEPT !.at = "closing"] ELSE table[p]]
      BY <1>2, <2>a DEF AskShutdown
    <2>4. Quiet
      BY <1>2 DEF AskShutdown
    <2>5. QED  BY <1>0, <2>1, <2>2, <2>3, <2>4, AskedMoves
  <1>3. CASE SignalForUpdate(q)
    <2>a. PICK next : next = [table[q] EXCEPT !.at = "settle"]
      OBVIOUS
    <2>1. table[q] # None
      BY <1>3 DEF SignalForUpdate, At, Alive
    <2>2. /\ next \in Entries /\ next.at = "settle"
          /\ next.kind = table[q].kind /\ next.born = table[q].born
          /\ next.child = table[q].child /\ next.snap = table[q].snap
      BY <1>0, <2>a, <2>1, NextStage
    <2>3. CASE Answering /\ Alive(Victim(q))
      <3>1. Signal(q, Victim(q), TRUE, next, "update") /\ born' = born
        BY <1>3, <2>a, <2>3 DEF SignalForUpdate
      <3>2. /\ table' \in [Pid -> {None} \cup Entries] /\ Moves
            /\ harmed' \subseteq {"cleanup", "update", "start", "stop", "close"}
        BY <2>1, <2>2, <3>1, SignalMoves
      <3>3. QED  BY <1>3, <3>2 DEF SignalForUpdate, TypeOK
    <2>4. CASE ~(Answering /\ Alive(Victim(q)))
      BY <1>0, <1>3, <2>1, <2>4, GotoMoves DEF SignalForUpdate, Quiet
    <2>5. QED  BY <2>3, <2>4
  <1>4. CASE Replace(q)
    <2>1. table[q] # None
      BY <1>4 DEF Replace, At, Alive
    <2>2. CASE Settled(q)
      <3>1. table' = [table EXCEPT ![q].at = "probe", ![q].child = None]
        BY <1>4, <2>2 DEF Replace
      <3>2. /\ table'[q] \in Entries /\ table'[q].at = "probe"
            /\ table'[q].kind = table[q].kind /\ table'[q].born = table[q].born
            /\ table'[q].child = None /\ table'[q].snap = table[q].snap
        <4>1. table[q] \in Entries /\ "probe" \in Stages
          BY <1>0, <2>1 DEF TypeOK
        <4>2. table'[q] = [table[q] EXCEPT !.at = "probe", !.child = None]
          BY <3>1 DEF TypeOK
        <4>3. QED  BY <4>1, <4>2 DEF Entries
      <3>3. \A p \in Pid : p # q => table'[p] = table[p]
        BY <3>1 DEF TypeOK
      <3>4. table' \in [Pid -> {None} \cup Entries]
        BY <3>1, <3>2, <3>3 DEF TypeOK
      <3>5. born' = born /\ UNCHANGED <<pidFile, harmed, cleaned>>
        BY <1>4 DEF Replace, Quiet
      <3>6. Moves
        BY <2>1, <3>2, <3>3, <3>5
        DEF TypeOK, HasChild, Moves, Evolves, Children, Snaps, Stops
      <3>7. QED  BY <3>4, <3>5, <3>6 DEF TypeOK
    <2>3. CASE ~Settled(q)
      BY <1>4, <2>3, GoneMoves DEF Replace, Quiet, TypeOK
    <2>4. QED  BY <2>2, <2>3
  <1>5. QED  BY <1>1, <1>2, <1>3, <1>4

LEMMA CommandMoves ==
  ASSUME TypeOK, HasChild, NEW q \in Pid,
         \/ Command(q) \/ CommandEnds(q) \/ CommandGivesUp(q) \/ Stop(q)
         \/ \E b \in Pid : Daemonise(q, b)
  PROVE  TypeOK' /\ Moves
  <1>0. {"probe", "wait"} \subseteq Stages \ {"term", "kill", "reap"} /\ "command" \in Kinds
    BY DEF Stages, Kinds
  <1>1. CASE Command(q)
    BY <1>0, <1>1, AppearMoves DEF Command
  <1>2. CASE CommandEnds(q)
    BY <1>2, GoneMoves DEF CommandEnds, Quiet, TypeOK
  <1>3. CASE CommandGivesUp(q)
    <2>1. table[q] # None
      BY <1>3 DEF CommandGivesUp, Kind, Alive
    <2>2. Signal(q, table[q].child.pid, TRUE, None, "start") /\ born' = born
      BY <1>3 DEF CommandGivesUp
    <2>3. /\ table' \in [Pid -> {None} \cup Entries] /\ Moves
          /\ harmed' \subseteq {"cleanup", "update", "start", "stop", "close"}
      BY <2>1, <2>2, SignalMoves
    <2>4. QED  BY <1>3, <2>3 DEF CommandGivesUp, TypeOK
  <1>4. CASE Stop(q)
    <2>1. table[q] # None
      BY <1>4 DEF Stop, Kind, Alive
    <2>2. PICK kill \in BOOLEAN : Signal(q, pidFile, kill, None, "stop")
      BY <1>4 DEF Stop
    <2>3. born' = born
      BY <1>4 DEF Stop
    <2>4. /\ table' \in [Pid -> {None} \cup Entries] /\ Moves
          /\ harmed' \subseteq {"cleanup", "update", "start", "stop", "close"}
      BY <2>1, <2>2, <2>3, SignalMoves
    <2>5. QED  BY <1>4, <2>4 DEF Stop, TypeOK
  <1>5. ASSUME NEW b \in Pid, Daemonise(q, b)
        PROVE  TypeOK' /\ Moves
    <2>1. table[q] # None
      BY <1>5 DEF Daemonise, Kind, Alive
    <2>2. QED  BY <1>0, <1>5, <2>1, SpawnMoves DEF Daemonise, TypeOK
  <1>6. QED  BY <1>1, <1>2, <1>3, <1>4, <1>5

LEMMA LookUpMoves ==
  ASSUME TypeOK, HasChild, NEW q \in Pid, NEW t, LookUp(q, t)
  PROVE  TypeOK' /\ Moves
  <1>1. /\ table[q] # None /\ table[q] \in Entries /\ table[q].at = "close"
        /\ t \in table[q].snap /\ t \in Known
    BY DEF LookUp, Kind, At, Alive, TypeOK, Entries
  <1>2. Chosen(t) \in Picked /\ "signal" \in Stages
    BY <1>1 DEF Chosen, Picked, Known, TypeOK, Stages
  <1>a. PICK rest : rest = [table[q] EXCEPT !.snap = @ \ {t}]
    OBVIOUS
  <1>b. PICK next : /\ next \in {rest, [rest EXCEPT !.at = "signal", !.target = Chosen(t)]}
                    /\ table' = [table EXCEPT ![q] = next]
    BY <1>a DEF LookUp
  <1>3. /\ rest \in Entries /\ rest.at = "close"
        /\ rest.kind = table[q].kind /\ rest.born = table[q].born
        /\ rest.child = table[q].child /\ rest.snap \subseteq table[q].snap
    BY <1>1, <1>a DEF Entries
  <1>4. /\ next \in Entries /\ next.at \in {"close", "signal"}
        /\ next.kind = table[q].kind /\ next.born = table[q].born
        /\ next.child = table[q].child /\ next.snap \subseteq table[q].snap
    BY <1>2, <1>3, <1>b DEF Entries
  <1>5. UNCHANGED <<born, pidFile, harmed, cleaned>>
    BY DEF LookUp, Quiet
  <1>6. Moves
    BY <1>1, <1>4, <1>5, <1>b
    DEF TypeOK, HasChild, Moves, Evolves, Children, Snaps, Stops
  <1>7. QED  BY <1>4, <1>5, <1>6, <1>b DEF TypeOK

LEMMA CloseMoves ==
  ASSUME TypeOK, HasChild, NEW q \in Pid, Close(q)
  PROVE  TypeOK' /\ Moves
  <1>a. PICK rest : rest = [table[q] EXCEPT !.at = "close", !.target = None]
    OBVIOUS
  <1>1. table[q] # None /\ table[q] \in Entries /\ "close" \in Stages
    BY DEF Close, Kind, Alive, TypeOK, Stages
  <1>2. /\ rest \in Entries /\ rest.at = "close"
        /\ rest.kind = table[q].kind /\ rest.born = table[q].born
        /\ rest.child = table[q].child /\ rest.snap = table[q].snap
    BY <1>1, <1>a DEF Entries
  <1>3. Signal(q, table[q].target.pid, FALSE, rest, "close") /\ born' = born
    BY <1>a DEF Close
  <1>4. /\ table' \in [Pid -> {None} \cup Entries] /\ Moves
        /\ harmed' \subseteq {"cleanup", "update", "start", "stop", "close"}
    BY <1>1, <1>2, <1>3, SignalMoves
  <1>5. QED  BY <1>4 DEF Close, TypeOK

LEMMA InstallerMoves ==
  ASSUME TypeOK, HasChild, NEW q \in Pid,
         Installer(q) \/ List(q) \/ Closed(q)
  PROVE  TypeOK' /\ Moves
  <1>0. {"list", "close"} \subseteq Stages \ {"term", "kill", "reap"} /\ "installer" \in Kinds
    BY DEF Stages, Kinds
  <1>1. CASE Installer(q)
    BY <1>0, <1>1, AppearMoves DEF Installer
  <1>2. CASE Closed(q)
    BY <1>2, GoneMoves DEF Closed, Quiet, TypeOK
  <1>3. CASE List(q)
    <2>a. PICK next : next = [table[q] EXCEPT !.at = "close",
                                              !.snap = {Identity(t) : t \in Targets(q)}]
      OBVIOUS
    <2>1. table[q] # None /\ table[q] \in Entries
      BY <1>3 DEF List, At, Alive, TypeOK
    <2>2. {Identity(t) : t \in Targets(q)} \subseteq Known
      BY DEF Targets, Named, Kind, Alive, Identity, Known, TypeOK, Entries
    <2>3. /\ next \in Entries /\ next.at = "close"
          /\ next.kind = table[q].kind /\ next.born = table[q].born
          /\ next.child = table[q].child
          /\ next.snap = {Identity(t) : t \in Targets(q)}
      BY <1>0, <2>a, <2>1, <2>2 DEF Entries
    <2>4. /\ Quiet
          /\ table' = [p \in Pid |->
               IF p = q THEN next
               ELSE IF p \in Kind("backend") /\ table[p].at = "up"
                    THEN [table[p] EXCEPT !.at = "closing"] ELSE table[p]]
      BY <1>3, <2>a DEF List
    <2>5. QED  BY <1>0, <2>1, <2>3, <2>4, AskedMoves
  <1>4. QED  BY <1>1, <1>2, <1>3

-----------------------------------------------------------------------------
LEMMA NextMoves ==
  ASSUME TypeOK, HasChild, Ages, [Next]_vars
  PROVE  TypeOK' /\ Moves
  <1>1. CASE UNCHANGED vars
    BY <1>1 DEF vars, TypeOK, HasChild, Moves, Evolves, Children, Snaps, Stops
  <1>2. CASE Next
    <2>1. PICK q \in Pid :
            \/ BackendUp(q) \/ BackendEnds(q) \/ Stranger(q) \/ StrangerEnds(q)
            \/ Open(q) \/ UseRunning(q) \/ Ready(q) \/ End(q)
            \/ Terminate(q) \/ Kill(q) \/ Reap(q) \/ Crash(q)
            \/ Restart(q) \/ AskShutdown(q) \/ SignalForUpdate(q) \/ Replace(q)
            \/ Command(q) \/ CommandEnds(q) \/ CommandGivesUp(q) \/ Stop(q)
            \/ Installer(q) \/ List(q) \/ Close(q) \/ Closed(q)
            \/ (\E b \in Pid : StartOwn(q, b) \/ Daemonise(q, b))
            \/ (\E t \in [pid : Pid, born : 1 .. MaxBorn] : LookUp(q, t))
      BY <1>2 DEF Next
    <2>2. QED  BY <2>1, BackendMoves, WindowMoves, TerminateMoves, KillMoves,
                  UpdateMoves, CommandMoves, LookUpMoves, CloseMoves, InstallerMoves
  <1>3. QED  BY <1>1, <1>2

(* Which actions write down what the properties look at.                   *)
LEMMA Written ==
  ASSUME TypeOK, [Next]_vars
  PROVE  /\ born' \in {born, born + 1}
         /\ cleaned' = cleaned \/ \E q \in Pid : Reap(q)
  <1>1. CASE UNCHANGED vars
    BY <1>1 DEF vars
  <1>2. CASE \E q \in Pid : BackendUp(q) \/ BackendEnds(q) \/ Stranger(q) \/ StrangerEnds(q)
    BY <1>2 DEF BackendUp, BackendEnds, Stranger, StrangerEnds, Appear, Quiet
  <1>3. CASE \E q \in Pid : Open(q) \/ UseRunning(q) \/ Ready(q) \/ End(q) \/ Crash(q)
    BY <1>3 DEF Open, UseRunning, Ready, End, Crash, Appear, Quiet
  <1>4. CASE \E q \in Pid : Terminate(q) \/ Kill(q) \/ SignalForUpdate(q)
                            \/ CommandGivesUp(q) \/ Stop(q) \/ Close(q)
    BY <1>4 DEF Terminate, Kill, SignalForUpdate, CommandGivesUp, Stop, Close
  <1>5. CASE \E q \in Pid : Restart(q) \/ AskShutdown(q) \/ Replace(q)
    BY <1>5 DEF Restart, AskShutdown, Replace, Quiet
  <1>6. CASE \E q \in Pid : Command(q) \/ CommandEnds(q) \/ Installer(q) \/ List(q) \/ Closed(q)
    BY <1>6 DEF Command, CommandEnds, Installer, List, Closed, Appear, Quiet
  <1>7. CASE \E q, b \in Pid : StartOwn(q, b) \/ Daemonise(q, b)
    BY <1>7 DEF StartOwn, Daemonise, Spawn
  <1>8. CASE \E q \in Pid : Reap(q)
    BY <1>8 DEF Reap
  <1>9. CASE \E q \in Pid : \E t : LookUp(q, t)
    BY <1>9 DEF LookUp, Quiet
  <1>10. QED
    BY <1>1, <1>2, <1>3, <1>4, <1>5, <1>6, <1>7, <1>8, <1>9 DEF Next

(* A step at whose end p is none of those, or what it was before.          *)
Calm(p) ==
  \/ table'[p] = None \/ table'[p] = table[p]
  \/ table'[p].at \notin Restarting \cup {"signal"}

LEMMA CalmSteps ==
  ASSUME TypeOK, [Next]_vars, ~\E q \in Pid : Restart(q) \/ AskShutdown(q)
         \/ SignalForUpdate(q) \/ \E t : LookUp(q, t)
  PROVE  \A p \in Pid : Calm(p)
  <1> SUFFICES ASSUME NEW p \in Pid
               PROVE  Calm(p)
    OBVIOUS
  <1> USE DEF Restarting
  <1>1. CASE UNCHANGED vars
    BY <1>1 DEF vars, Calm
  <1>2. ASSUME NEW q \in Pid, NEW at \in Stages \ (Restarting \cup {"signal"}), Goto(q, at)
        PROVE  Calm(p)
    BY <1>2 DEF Goto, Calm, TypeOK, Entries
  <1>3. ASSUME NEW q \in Pid, Gone(q)
        PROVE  Calm(p)
    BY <1>3 DEF Gone, Calm, TypeOK
  <1>4. ASSUME NEW q \in Pid, NEW kind,
               NEW at \in Stages \ (Restarting \cup {"signal"}), Appear(q, kind, at)
        PROVE  Calm(p)
    BY <1>4 DEF Appear, Process, Calm, TypeOK
  <1>5. ASSUME NEW q \in Pid, NEW b \in Pid,
               NEW at \in Stages \ (Restarting \cup {"signal"}), table[q] # None,
               Spawn(q, b, at)
        PROVE  Calm(p)
    BY <1>5 DEF Spawn, Process, Calm, TypeOK, Entries
  <1>6. ASSUME NEW q \in Pid, NEW victim, NEW kill, NEW next, NEW by,
               next = None \/ next.at \notin Restarting \cup {"signal"},
               Signal(q, victim, kill, next, by)
        PROVE  Calm(p)
    <2>1. table'[p] = IF p = q THEN next
            ELSE IF p # victim \/ table[p] = None THEN table[p]
            ELSE IF kill \/ table[p].kind # "backend" THEN None
            ELSE [table[p] EXCEPT !.at = IF @ = "deaf" THEN "deaf" ELSE "closing"]
      BY <1>6 DEF Signal
    <2>2. QED  BY <1>6, <2>1 DEF Calm, TypeOK, Entries
  <1>s. {"up", "deaf", "on", "probe", "run", "wait", "term", "kill", "reap", "list", "close"}
          \subseteq Stages \ (Restarting \cup {"signal"})
    BY DEF Stages
  <1> HIDE DEF Restarting
  <1>7. ASSUME NEW q \in Pid,
               \/ BackendUp(q) \/ BackendEnds(q) \/ StrangerEnds(q) \/ UseRunning(q)
               \/ Ready(q) \/ End(q) \/ Reap(q) \/ Crash(q) \/ CommandEnds(q)
               \/ Closed(q)
        PROVE  Calm(p)
    BY <1>7, <1>2, <1>3, <1>s
    DEF BackendUp, BackendEnds, StrangerEnds, UseRunning, Ready, End, Reap, Crash,
        CommandEnds, Closed
  <1>8. ASSUME NEW q \in Pid, Stranger(q) \/ Open(q) \/ Command(q) \/ Installer(q)
        PROVE  Calm(p)
    BY <1>8, <1>4, <1>s DEF Stranger, Open, Command, Installer
  <1>9. ASSUME NEW q \in Pid, NEW b \in Pid, StartOwn(q, b) \/ Daemonise(q, b)
        PROVE  Calm(p)
    BY <1>9, <1>5, <1>s DEF StartOwn, Daemonise, Kind, Alive
  <1>10. ASSUME NEW q \in Pid, CommandGivesUp(q) \/ Stop(q)
         PROVE  Calm(p)
    BY <1>10, <1>6 DEF CommandGivesUp, Stop
  <1>11. ASSUME NEW q \in Pid, Terminate(q) \/ Kill(q) \/ Close(q)
         PROVE  Calm(p)
    <2>1. table[q] # None /\ table[q] \in Entries
      BY <1>11 DEF Terminate, Kill, Close, Kind, Alive, TypeOK
    <2>2. /\ [table[q] EXCEPT !.at = "kill"].at = "kill"
          /\ [table[q] EXCEPT !.at = "reap"].at = "reap"
          /\ [table[q] EXCEPT !.at = "close", !.target = None].at = "close"
      BY <2>1 DEF Entries
    <2>3. QED  BY <1>11, <1>2, <1>6, <1>s, <2>2 DEF Terminate, Kill, Close
  <1>12. ASSUME NEW q \in Pid, Replace(q)
         PROVE  Calm(p)
    <2>1. CASE Gone(q)
      BY <1>3, <2>1
    <2>2. CASE table' = [table EXCEPT ![q].at = "probe", ![q].child = None]
      <3>1. table[q] # None /\ table[q] \in Entries
        BY <1>12 DEF Replace, At, Alive, TypeOK
      <3>2. QED  BY <2>2, <3>1 DEF Calm, TypeOK, Entries, Restarting
    <2>3. QED  BY <1>12, <2>1, <2>2 DEF Replace
  <1>13. ASSUME NEW q \in Pid, List(q)
         PROVE  Calm(p)
    <2>1. table[q] # None /\ table[q] \in Entries
      BY <1>13 DEF List, Kind, Alive, TypeOK
    <2>2. QED  BY <1>13, <2>1 DEF List, Kind, Alive, Calm, TypeOK, Entries, Restarting
  <1>14. QED
    BY <1>1, <1>7, <1>8, <1>9, <1>10, <1>11, <1>12, <1>13 DEF Next

LEMMA StageSteps ==
  ASSUME TypeOK, [Next]_vars
  PROVE  \A p \in Pid : Picks(p) /\ Enters(p)
  <1> SUFFICES ASSUME NEW p \in Pid
               PROVE  Picks(p) /\ Enters(p)
    OBVIOUS
  <1> USE DEF Restarting
  <1>1. CASE Calm(p)
    BY <1>1 DEF Calm, Picks, Enters, At, Alive
  <1>2. ASSUME NEW q \in Pid, Restart(q)
        PROVE  Picks(p) /\ Enters(p)
    BY <1>2 DEF Restart, Goto, Gone, Quiet, Kind, At, Alive, Picks, Enters, TypeOK, Entries
  <1>3. ASSUME NEW q \in Pid, AskShutdown(q)
        PROVE  Picks(p) /\ Enters(p)
    BY <1>3 DEF AskShutdown, Quiet, Kind, At, Alive, Picks, Enters, TypeOK, Entries
  <1>4. ASSUME NEW q \in Pid, SignalForUpdate(q)
        PROVE  Picks(p) /\ Enters(p)
    BY <1>4 DEF SignalForUpdate, Signal, Goto, Kind, At, Alive, Picks, Enters, TypeOK, Entries
  <1>5. ASSUME NEW q \in Pid, NEW t, LookUp(q, t)
        PROVE  Picks(p) /\ Enters(p)
    BY <1>5 DEF LookUp, Quiet, Kind, At, Alive, Picks, Enters, TypeOK, Entries
  <1>6. QED  BY <1>1, <1>2, <1>3, <1>4, <1>5, CalmSteps

(* Who has ended does not run again, and whoever runs is who it was.       *)
LEMMA StillEnded ==
  ASSUME TypeOK, Moves, NEW c \in Known, c.born <= born, Runs(c)'
  PROVE  Runs(c) /\ table'[c.pid].kind = table[c.pid].kind
  <1>1. c.pid \in Pid /\ table'[c.pid] # None /\ table'[c.pid].born = c.born
    BY DEF Runs, Alive
  <1>2. Evolves(c.pid)
    BY <1>1 DEF Moves
  <1>3. c.born # born + 1
    BY DEF TypeOK, Known
  <1>4. QED  BY <1>1, <1>2, <1>3 DEF Evolves, Runs, Alive

-----------------------------------------------------------------------------
LEMMA AgesStep ==
  ASSUME TypeOK, Ages, Moves, [Next]_vars, TypeOK'
  PROVE  Ages'
  <1>0. born' \in {born, born + 1} /\ born \in Nat
    BY Written DEF TypeOK
  <1>1. ASSUME NEW c \in cleaned', c # None
        PROVE  c.born <= born'
    <2>1. c.born <= born
      <3>1. CASE c \in cleaned
        BY <1>1, <3>1 DEF Ages
      <3>2. CASE c \notin cleaned
        <4>1. PICK q \in Pid : Reap(q)
          BY <3>2, Written
        <4>2. table[q] # None /\ c = table[q].child
          BY <3>2, <4>1 DEF Reap, Kind, Alive
        <4>3. QED  BY <1>1, <4>2 DEF Ages
      <3>3. QED  BY <3>1, <3>2
    <2>2. c.born \in Nat
      BY <1>1 DEF TypeOK, Known
    <2>3. QED  BY <1>0, <2>1, <2>2
  <1>2. ASSUME NEW q \in Pid, table'[q] # None
        PROVE  /\ table'[q].born <= born'
               /\ table'[q].child # None =>
                    /\ table'[q].child.born <= born'
                    /\ table'[q].child.born > table'[q].born
               /\ \A t \in table'[q].snap : t.born <= born'
    <2>1. Evolves(q) /\ Children(q) /\ Snaps(q)
      BY DEF Moves
    <2>2. table'[q] \in Entries /\ table[q] \in {None} \cup Entries
      BY <1>2 DEF TypeOK
    <2>3. table'[q].born <= born'
      BY <1>0, <1>2, <2>1, <2>2 DEF Evolves, Ages, Entries
    <2>4. ASSUME table'[q].child # None
          PROVE  table'[q].child.born <= born' /\ table'[q].child.born > table'[q].born
      <3>1. /\ table[q] # None /\ table'[q].born = table[q].born
            /\ table[q].born <= born /\ table[q].born \in Nat
        BY <1>2, <2>1, <2>2, <2>4 DEF Evolves, Children, Ages, Entries
      <3>2. CASE table'[q].child = table[q].child
        <4>1. /\ table[q].child.born \in Nat /\ table[q].child.born <= born
              /\ table[q].child.born > table[q].born
          BY <2>2, <2>4, <3>1, <3>2 DEF Ages, Entries, Known
        <4>2. QED  BY <1>0, <3>1, <3>2, <4>1
      <3>3. CASE table'[q].child # table[q].child
        <4>1. table'[q].child.born = born + 1 /\ born' = born + 1
          BY <1>2, <2>1, <2>4, <3>3 DEF Children
        <4>2. QED  BY <1>0, <3>1, <4>1
      <3>4. QED  BY <3>2, <3>3
    <2>5. ASSUME NEW t \in table'[q].snap
          PROVE  t.born <= born'
      <3>1. t.born \in Nat
        BY <2>2, <2>5 DEF Entries, Known
      <3>2. t.born <= born
        <4>1. CASE table[q] # None /\ t \in table[q].snap
          BY <4>1 DEF Ages
        <4>2. CASE \E u \in Targets(q) : t = Identity(u)
          BY <4>2 DEF Targets, Named, Kind, Alive, Identity, Ages
        <4>3. QED  BY <1>2, <2>1, <2>5, <4>1, <4>2 DEF Snaps
      <3>3. QED  BY <1>0, <3>1, <3>2
    <2>6. QED  BY <2>3, <2>4, <2>5
  <1>3. QED  BY <1>1, <1>2 DEF Ages

LEMMA HasChildStep ==
  ASSUME TypeOK, HasChild, Moves, [Next]_vars
  PROVE  HasChild'
  <1>1. None \notin cleaned'
    <2>1. CASE cleaned' = cleaned
      BY <2>1 DEF HasChild
    <2>2. ASSUME NEW q \in Pid, Reap(q)
          PROVE  None \notin cleaned'
      BY <2>2 DEF Reap, Kind, At, Alive, HasChild
    <2>3. QED  BY <2>1, <2>2, Written
  <1>2. QED  BY <1>1 DEF HasChild, Moves, Stops

LEMMA ReapedStep ==
  ASSUME TypeOK, Ages, HasChild, ReapedStopped, Moves
  PROVE  ReapedStopped'
  <1> SUFFICES ASSUME NEW q \in Pid, table'[q] # None, table'[q].at = "reap"
               PROVE  ~Runs(table[q].child)'
    BY DEF ReapedStopped
  <1>1. /\ table[q] # None /\ table'[q].child = table[q].child
        /\ table[q].child # None
        /\ table[q].at = "reap" \/ ~Runs(table[q].child)'
    BY DEF Moves, Stops
  <1>2. CASE table[q].at = "reap"
    <2>1. PICK c : c = table[q].child
      OBVIOUS
    <2>2. c \in Known /\ c.born <= born /\ ~Runs(c)
      BY <1>1, <1>2, <2>1 DEF TypeOK, Entries, Ages, ReapedStopped
    <2>3. ~Runs(c)'
      BY <2>2, StillEnded
    <2>4. QED  BY <1>1, <2>1, <2>3
  <1>3. QED  BY <1>1, <1>2

LEMMA SnapshotStep ==
  ASSUME TypeOK, Ages, SnapshotOwn, Moves, TypeOK'
  PROVE  SnapshotOwn'
  <1> SUFFICES ASSUME NEW q \in Pid, table'[q] # None, NEW t \in table'[q].snap, Runs(t)'
               PROVE  table'[t.pid].kind # "other"
    BY DEF SnapshotOwn
  <1>1. t \in Known
    BY DEF TypeOK, Entries
  <1>2. Snaps(q)
    BY DEF Moves
  <1>3. CASE table[q] # None /\ t \in table[q].snap
    BY <1>1, <1>3, StillEnded DEF Ages, SnapshotOwn
  <1>4. ASSUME NEW u \in Targets(q), t = Identity(u)
        PROVE  table'[t.pid].kind # "other"
    <2>1. t.born <= born /\ t.pid = u /\ table[u].kind # "other"
      BY <1>4 DEF Targets, Named, Kind, Alive, Identity, Ages
    <2>2. QED  BY <1>1, <2>1, StillEnded
  <1>5. QED  BY <1>2, <1>3, <1>4 DEF Snaps

LEMMA StoppedStep ==
  ASSUME TypeOK, Ages, HasChild, ReapedStopped, ChildStopped, Moves, [Next]_vars
  PROVE  ChildStopped'
  <1> SUFFICES ASSUME NEW c \in cleaned'
               PROVE  ~Runs(c)'
    BY DEF ChildStopped
  <1>1. CASE c \in cleaned
    <2>1. c \in Known /\ c.born <= born /\ ~Runs(c)
      BY <1>1 DEF TypeOK, Ages, HasChild, ChildStopped
    <2>2. QED  BY <2>1, StillEnded
  <1>2. CASE c \notin cleaned
    <2>1. PICK q \in Pid : Reap(q)
      BY <1>2, Written
    <2>2. c = table[q].child /\ table[q] # None /\ table[q].at = "reap"
      BY <1>2, <2>1 DEF Reap, Kind, At, Alive
    <2>3. c \in Known /\ c.born <= born /\ ~Runs(c)
      BY <2>2 DEF TypeOK, Entries, Ages, HasChild, ReapedStopped
    <2>4. QED  BY <2>3, StillEnded
  <1>3. QED  BY <1>1, <1>2

LEMMA TargetStep ==
  ASSUME TypeOK, Ages, SnapshotOwn, TargetOwn, Moves, [Next]_vars,
         \A p \in Pid : Picks(p)
  PROVE  TargetOwn'
  <1> SUFFICES ASSUME NEW q \in Pid, At(q, "signal")', NEW t, t = table'[q].target
               PROVE  /\ t \in Picked /\ t.asOf <= born'
                      /\ Alive(t.pid)' => \/ Runs(t)' /\ table'[t.pid].kind # "other"
                                          \/ table'[t.pid].born > t.asOf
    BY DEF TargetOwn
  <1>1. table[q] # None /\ born' \in {born, born + 1} /\ born \in Nat
    BY Written DEF Picks, TypeOK
  <1>2. /\ t \in Picked /\ t.asOf <= born
        /\ Alive(t.pid) => \/ Runs(t) /\ table[t.pid].kind # "other"
                           \/ table[t.pid].born > t.asOf
    <2>1. CASE table[q].at = "signal" /\ t = table[q].target
      BY <1>1, <2>1 DEF TargetOwn, At, Alive
    <2>2. ASSUME NEW u \in table[q].snap, Runs(u), t = Chosen(u)
          PROVE  /\ t \in Picked /\ t.asOf <= born
                 /\ Runs(t) /\ table[t.pid].kind # "other"
      <3>1. u \in Known
        BY <1>1 DEF TypeOK, Entries
      <3>2. table[u.pid].kind # "other"
        BY <1>1, <2>2 DEF SnapshotOwn
      <3>3. QED  BY <1>1, <2>2, <3>1, <3>2 DEF Chosen, Picked, Known, Runs, Alive
    <2>3. QED  BY <2>1, <2>2 DEF Picks
  <1>3. ASSUME Alive(t.pid)'
        PROVE  \/ Runs(t)' /\ table'[t.pid].kind # "other"
               \/ table'[t.pid].born > t.asOf
    <2>1. Evolves(t.pid) /\ t.pid \in Pid /\ table'[t.pid] # None
      BY <1>3 DEF Moves, Alive
    <2>2. CASE table[t.pid] # None /\ table'[t.pid].kind = table[t.pid].kind
               /\ table'[t.pid].born = table[t.pid].born
      BY <1>2, <1>3, <2>1, <2>2 DEF Runs, Alive
    <2>3. CASE table'[t.pid].born = born + 1
      BY <1>1, <1>2, <2>3 DEF Picked
    <2>4. QED  BY <2>1, <2>2, <2>3 DEF Evolves
  <1>4. t.asOf <= born'
    BY <1>1, <1>2 DEF Picked
  <1>5. QED  BY <1>2, <1>3, <1>4

LEMMA RestartStep ==
  ASSUME OneRestart, Moves, \A p \in Pid : Enters(p)
  PROVE  OneRestart'
  <1> SUFFICES ASSUME NEW q \in Kind("window")', NEW w \in Kind("window")',
                      table'[q].at \in Restarting, table'[w].at \in Restarting
               PROVE  q = w
    BY DEF OneRestart, Restarting
  <1>1. ASSUME NEW p \in {q, w}
        PROVE  /\ p \in Kind("window") /\ p \in Named
               /\ table[p].at \in Restarting \/ Named = {p}
    <2>1. p \in Pid /\ table'[p] # None /\ table'[p].kind = "window"
      BY <1>1 DEF Kind, Alive
    <2>2. table[p] # None /\ (table[p].at \in Restarting \/ Named = {p})
      BY <1>1, <2>1 DEF Enters
    <2>3. table[p].kind = "window"
      BY <2>1, <2>2 DEF Moves, Evolves
    <2>4. QED  BY <2>1, <2>2, <2>3 DEF Kind, Alive, Named
  <1>2. QED  BY <1>1 DEF OneRestart, Restarting

-----------------------------------------------------------------------------
IInv == /\ TypeOK /\ Ages /\ HasChild /\ ReapedStopped /\ SnapshotOwn
        /\ TargetOwn /\ ChildStopped /\ OneRestart

LEMMA Starts == Init => IInv
  <1> SUFFICES ASSUME Init
               PROVE  IInv
    OBVIOUS
  <1>1. \A q \in Pid : table[q] = None
    BY DEF Init
  <1>2. TypeOK
    BY DEF Init, TypeOK
  <1>3. Ages /\ HasChild /\ ReapedStopped /\ SnapshotOwn
    BY <1>1 DEF Init, Ages, HasChild, ReapedStopped, SnapshotOwn
  <1>4. TargetOwn /\ ChildStopped /\ OneRestart
    BY <1>1 DEF Init, TargetOwn, ChildStopped, OneRestart, At, Alive, Kind
  <1>5. QED  BY <1>2, <1>3, <1>4 DEF IInv

LEMMA Goes == IInv /\ [Next]_vars => IInv'
  <1> SUFFICES ASSUME IInv, [Next]_vars
               PROVE  IInv'
    OBVIOUS
  <1> USE DEF IInv
  <1>1. TypeOK' /\ Moves
    BY NextMoves
  <1>2. \A p \in Pid : Picks(p) /\ Enters(p)
    BY StageSteps
  <1>3. QED  BY <1>1, <1>2, AgesStep, HasChildStep, ReapedStep, SnapshotStep,
                StoppedStep, TargetStep, RestartStep

LEMMA Always == Spec => []IInv
  BY Starts, Goes, PTL DEF Spec

(* The launcher's processes, pid file and memories have their types.       *)
THEOREM Typed == Spec => []TypeOK
  BY Always, PTL DEF IInv

(* stopBackend: a window that ends in good order leaves no backend of its  *)
(* own, whatever else starts, ends and takes over identifiers meanwhile.   *)
THEOREM Stopped == Spec => []ChildStopped
  BY Always, PTL DEF IInv

(* closeForInstallation signals a process it has found to run from the     *)
(* installation, or one that got its identifier after the last look-up.    *)
THEOREM Exact == Spec => CloseExact
  <1>1. IInv => \A q \in Pid : Close(q) =>
                  LET t == table[q].target
                  IN  Alive(t.pid) => \/ Runs(t) /\ table[t.pid].kind # "other"
                                      \/ table[t.pid].born > t.asOf
    BY DEF IInv, TargetOwn, Close
  <1>2. QED  BY <1>1, Always, PTL DEF CloseExact

(* The windows that look for others before they restart into an update     *)
(* never do so two at a time, however many there are.                      *)
THEOREM Alone == Spec => []OneRestart
  BY Always, PTL DEF IInv
=============================================================================
