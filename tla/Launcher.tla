------------------------------ MODULE Launcher ------------------------------
(***************************************************************************)
(* The program meshtalk (bin/meshtalk.ts) and the closing of an            *)
(* installation (common/install-processes.ts): windows share one backend,  *)
(* the window that started it stops it, a command may start one that stays *)
(* (daemonise), a restart into an update stops it first, and an installer  *)
(* closes whatever runs from the installation.                             *)
(*                                                                         *)
(* Processes are known by their identifier only, which the system gives to *)
(* another process once one has ended; born is what tells them apart.  The *)
(* backend is external: it answers on IPC while it is up, only one at a    *)
(* time gets that far, and it may ignore a request or a SIGTERM.           *)
(***************************************************************************)
EXTENDS Integers, FiniteSets

CONSTANTS
  Pid,          \* process identifiers
  None,
  MaxBorn       \* bound: processes started

ASSUME ConstantsAssumption == None \notin Pid /\ MaxBorn \in Nat

VARIABLES
  table,        \* the process that has an identifier
  born,         \* processes started so far
  pidFile,      \* meshtalk.pid: written by whoever daemonises, never removed
  harmed,       \* history: who has signalled an unrelated process
  cleaned       \* history: backends whose window has ended in good order

vars == <<table, born, pidFile, harmed, cleaned>>

(* child: the backend a window or command has started, [pid, born].  snap: *)
(* what an installer has yet to close; target: what it has looked up and   *)
(* signals next, with the number of processes started by then.             *)
Process(kind, at) ==
  [kind |-> kind, at |-> at, born |-> born + 1, child |-> None, snap |-> {},
   target |-> None]

Init ==
  /\ table = [q \in Pid |-> None] /\ born = 0 /\ pidFile = None
  /\ harmed = {} /\ cleaned = {}

Alive(q) == q \in Pid /\ table[q] # None
Kind(kind) == {q \in Pid : Alive(q) /\ table[q].kind = kind}
At(q, at) == Alive(q) /\ table[q].at = at
Identity(q) == [pid |-> q, born |-> table[q].born]

(* A child's own handle tells whether it has ended, whatever the           *)
(* identifier stands for now.                                              *)
Runs(c) == Alive(c.pid) /\ table[c.pid].born = c.born

Answering == \E b \in Kind("backend") : table[b].at \in {"up", "deaf"}
Named == Kind("window") \cup Kind("command") \cup Kind("installer")

Goto(q, at) == table' = [table EXCEPT ![q].at = at]
Gone(q) == table' = [table EXCEPT ![q] = None]
Quiet == UNCHANGED <<born, pidFile, harmed, cleaned>>

Appear(q, kind, at) ==
  /\ table[q] = None /\ born < MaxBorn /\ born' = born + 1
  /\ table' = [table EXCEPT ![q] = Process(kind, at)]
  /\ UNCHANGED <<pidFile, harmed, cleaned>>

----------------------------------------------------------------------------
(* The backend and the rest of the system.                                 *)

(* Of two that start, the one that gets the instance lock comes up; one    *)
(* that is deaf answers, but will not shut down.                           *)
BackendUp(b) ==
  /\ b \in Kind("backend") /\ table[b].at = "starting"
  /\ \A c \in Kind("backend") : table[c].at = "starting"
  /\ \E at \in {"up", "deaf"} : Goto(b, at)
  /\ Quiet

(* It ends: it has lost the lock, was asked to, or fails.                  *)
BackendEnds(b) == b \in Kind("backend") /\ Gone(b) /\ Quiet

Stranger(q) == Appear(q, "other", "on")
StrangerEnds(q) == q \in Kind("other") /\ Gone(q) /\ Quiet

(* SIGTERM or SIGKILL to an identifier, when the sender goes on as next    *)
(* (None: it ends).  A backend told to terminate may take its time.        *)
Signal(q, victim, kill, next, by) ==
  /\ table' = [p \in Pid |->
       IF p = q THEN next
       ELSE IF p # victim \/ table[p] = None THEN table[p]
       ELSE IF kill \/ table[p].kind # "backend" THEN None
       ELSE [table[p] EXCEPT !.at = IF @ = "deaf" THEN "deaf" ELSE "closing"]]
  /\ harmed' = IF victim \in Kind("other") THEN harmed \cup {by} ELSE harmed

----------------------------------------------------------------------------
(* Windows.                                                                *)

Open(q) == Appear(q, "window", "probe")

(* main: the window uses the backend that answers, or starts its own.      *)
UseRunning(q) ==
  /\ q \in Kind("window") /\ At(q, "probe") /\ Answering
  /\ Goto(q, "run") /\ Quiet

Spawn(q, b, at) ==
  /\ table[b] = None /\ born < MaxBorn /\ born' = born + 1
  /\ table' = [table EXCEPT ![b] = Process("backend", "starting"),
                            ![q].at = at,
                            ![q].child = [pid |-> b, born |-> born + 1]]

StartOwn(q, b) ==
  /\ q \in Kind("window") /\ At(q, "probe") /\ ~Answering
  /\ Spawn(q, b, "wait")
  /\ UNCHANGED <<pidFile, harmed, cleaned>>

(* waitForBackend: any backend that answers will do.                       *)
Ready(q) == At(q, "wait") /\ q \in Kind("window") /\ Answering
            /\ Goto(q, "run") /\ Quiet

(* It failed, or took too long; the terminal ends, by the user or because  *)
(* the backend is lost.  The window that started a backend stops it.       *)
End(q) ==
  /\ q \in Kind("window") /\ table[q].at \in {"wait", "run"}
  /\ IF table[q].child # None THEN Goto(q, "term") ELSE Gone(q)
  /\ Quiet

(* stopBackend: terminate what has the identifier, wait for it to go ...   *)
Terminate(q) ==
  LET c == table[q].child
  IN  /\ q \in Kind("window") /\ At(q, "term")
      /\ IF Alive(c.pid)
         THEN Signal(q, c.pid, FALSE, [table[q] EXCEPT !.at = "kill"], "cleanup")
         ELSE Goto(q, "reap") /\ UNCHANGED harmed
      /\ UNCHANGED <<born, pidFile, cleaned>>

(* Mutant of Kill: a backend that does not terminate is left alone.        *)
KillNot(q) ==
  /\ q \in Kind("window") /\ At(q, "kill")
  /\ Goto(q, "reap")
  /\ UNCHANGED <<born, pidFile, harmed, cleaned>>

(* ... and kill it if it does not.                                         *)
Kill(q) ==
  LET c == table[q].child
  IN  /\ q \in Kind("window") /\ At(q, "kill")
      /\ IF Alive(c.pid)
         THEN Signal(q, c.pid, TRUE, [table[q] EXCEPT !.at = "reap"], "cleanup")
         ELSE Goto(q, "reap") /\ UNCHANGED harmed
      /\ UNCHANGED <<born, pidFile, cleaned>>

Reap(q) ==
  /\ q \in Kind("window") /\ At(q, "reap")
  /\ cleaned' = cleaned \cup {table[q].child}
  /\ Gone(q)
  /\ UNCHANGED <<born, pidFile, harmed>>

(* The terminal is closed or the window crashes: nobody stops the backend. *)
Crash(q) == q \in Named /\ Gone(q) /\ Quiet

----------------------------------------------------------------------------
(* Restarting into an update.                                              *)

(* Mutant of Restart: other windows are not looked for.                    *)
RestartUnchecked(q) ==
  /\ q \in Kind("window") /\ At(q, "run")
  /\ Goto(q, "ask") /\ Quiet

(* Only when no other window, command or installer runs.                   *)
Restart(q) ==
  /\ q \in Kind("window") /\ At(q, "run")
  /\ IF Named = {q} THEN Goto(q, "ask") ELSE Gone(q)
  /\ Quiet

(* requestBackendShutdown: it answers and stops answering, or does not.    *)
AskShutdown(q) ==
  /\ At(q, "ask")
  /\ table' = [p \in Pid |->
       IF p = q THEN [table[q] EXCEPT !.at = "asked"]
       ELSE IF p \in Kind("backend") /\ table[p].at = "up"
            THEN [table[p] EXCEPT !.at = "closing"] ELSE table[p]]
  /\ Quiet

(* Only a live backend is signalled, by the handle's identifier or by that *)
(* of the pid file.                                                        *)
Victim(q) == IF table[q].child # None THEN table[q].child.pid ELSE pidFile

SignalForUpdate(q) ==
  /\ At(q, "asked")
  /\ IF Answering /\ Alive(Victim(q))
     THEN Signal(q, Victim(q), TRUE, [table[q] EXCEPT !.at = "settle"], "update")
     ELSE Goto(q, "settle") /\ UNCHANGED harmed
  /\ UNCHANGED <<born, pidFile, cleaned>>

Remembered(q) ==
  {pidFile} \cup (IF table[q].child = None THEN {} ELSE {table[q].child.pid})

(* Nothing that has one of the identifiers may be alive any more.          *)
Settled(q) == \A p \in Remembered(q) : ~Alive(p)

(* launchReplacement: the window is replaced in place, or gives up.        *)
Replace(q) ==
  /\ At(q, "settle")
  /\ \/ /\ Settled(q)
        /\ table' = [table EXCEPT ![q].at = "probe", ![q].child = None]
     \/ ~Settled(q) /\ Gone(q)
  /\ Quiet

----------------------------------------------------------------------------
(* Commands: a backend that stays is started, or the one of the pid file   *)
(* is stopped.                                                             *)

Command(q) == Appear(q, "command", "probe")

Daemonise(q, b) ==
  /\ q \in Kind("command") /\ At(q, "probe") /\ ~Answering
  /\ Spawn(q, b, "wait")
  /\ pidFile' = b
  /\ UNCHANGED <<harmed, cleaned>>

CommandEnds(q) ==
  /\ q \in Kind("command")
  /\ \/ At(q, "probe") /\ Answering
     \/ At(q, "wait") /\ (Answering \/ ~Runs(table[q].child))
  /\ Gone(q) /\ Quiet

(* It did not come up in time; "backend start" kills it.                   *)
CommandGivesUp(q) ==
  /\ q \in Kind("command") /\ At(q, "wait") /\ Runs(table[q].child)
  /\ Signal(q, table[q].child.pid, TRUE, None, "start")
  /\ UNCHANGED <<born, pidFile, cleaned>>

(* backend stop: whatever has the identifier in the file is signalled.     *)
Stop(q) ==
  /\ q \in Kind("command") /\ At(q, "probe") /\ pidFile # None /\ pidFile # q
  /\ \E kill \in BOOLEAN : Signal(q, pidFile, kill, None, "stop")
  /\ UNCHANGED <<born, pidFile, cleaned>>

----------------------------------------------------------------------------
(* The installer closes the installation (closeForInstallation).           *)

Installer(q) == Appear(q, "installer", "list")

Targets(q) == (Named \cup Kind("backend")) \ {q}

(* The backend is asked first, so that windows can restore the terminal.   *)
List(q) ==
  /\ q \in Kind("installer") /\ At(q, "list")
  /\ table' = [p \in Pid |->
       IF p = q
       THEN [table[q] EXCEPT !.at = "close", !.snap = {Identity(t) : t \in Targets(q)}]
       ELSE IF p \in Kind("backend") /\ table[p].at = "up"
            THEN [table[p] EXCEPT !.at = "closing"] ELSE table[p]]
  /\ Quiet

Chosen(t) == [pid |-> t.pid, born |-> t.born, asOf |-> born]

(* Mutant of LookUp: the identifier alone names the process.               *)
LookUpByPid(q, t) ==
  /\ q \in Kind("installer") /\ At(q, "close") /\ t \in table[q].snap
  /\ LET rest == [table[q] EXCEPT !.snap = @ \ {t}]
     IN  table' = [table EXCEPT ![q] =
           IF Alive(t.pid) THEN [rest EXCEPT !.at = "signal", !.target = Chosen(t)]
                           ELSE rest]
  /\ Quiet

(* The processes are listed again before each of them is signalled, and    *)
(* one that has ended, or whose identifier is another's, is passed over.   *)
LookUp(q, t) ==
  /\ q \in Kind("installer") /\ At(q, "close") /\ t \in table[q].snap
  /\ LET rest == [table[q] EXCEPT !.snap = @ \ {t}]
     IN  table' = [table EXCEPT ![q] =
           IF Runs(t) THEN [rest EXCEPT !.at = "signal", !.target = Chosen(t)]
                      ELSE rest]
  /\ Quiet

(* provider.close on Unix: SIGTERM to whatever has the identifier by now.  *)
Close(q) ==
  /\ q \in Kind("installer") /\ At(q, "signal")
  /\ LET rest == [table[q] EXCEPT !.at = "close", !.target = None]
     IN  Signal(q, table[q].target.pid, FALSE, rest, "close")
  /\ UNCHANGED <<born, pidFile, cleaned>>

(* Everything has closed, or the installer gives up; no force is used.     *)
Closed(q) ==
  /\ q \in Kind("installer") /\ At(q, "close") /\ table[q].snap = {}
  /\ Gone(q) /\ Quiet

Next ==
  \E q \in Pid :
    \/ BackendUp(q) \/ BackendEnds(q) \/ Stranger(q) \/ StrangerEnds(q)
    \/ Open(q) \/ UseRunning(q) \/ Ready(q) \/ End(q)
    \/ Terminate(q) \/ Kill(q) \/ Reap(q) \/ Crash(q)
    \/ Restart(q) \/ AskShutdown(q) \/ SignalForUpdate(q) \/ Replace(q)
    \/ Command(q) \/ CommandEnds(q) \/ CommandGivesUp(q) \/ Stop(q)
    \/ Installer(q) \/ List(q) \/ Close(q) \/ Closed(q)
    \/ \E b \in Pid : StartOwn(q, b) \/ Daemonise(q, b)
    \/ \E t \in [pid : Pid, born : 1 .. MaxBorn] : LookUp(q, t)

Spec == Init /\ [][Next]_vars

----------------------------------------------------------------------------
(* Properties.                                                             *)

(* Every variable stays within its type: a process has a stage of its      *)
(* kind's, a child and a snapshot name processes by identifier and birth.  *)
Known == [pid : Pid, born : Nat]
Picked == [pid : Pid, born : Nat, asOf : Nat]
Kinds == {"window", "command", "installer", "backend", "other"}
Stages == {"starting", "up", "deaf", "closing", "on", "probe", "wait", "run", "term",
           "kill", "reap", "ask", "asked", "settle", "list", "close", "signal"}
Entries == [kind : Kinds, at : Stages, born : Nat, child : {None} \cup Known,
            snap : SUBSET Known, target : {None} \cup Picked]
TypeOK ==
  /\ table \in [Pid -> {None} \cup Entries] /\ born \in Nat
  /\ pidFile \in Pid \cup {None} /\ cleaned \subseteq {None} \cup Known
  /\ harmed \subseteq {"cleanup", "update", "start", "stop", "close"}

(* A window that ends in good order leaves no backend of its own running,  *)
(* even one that ignores SIGTERM (stopBackend).                            *)
ChildStopped == \A c \in cleaned : ~Runs(c)

(* The installer signals a process it has found to run from the            *)
(* installation, or one that got the identifier after the look-up right    *)
(* before the signal: an identifier that changed hands between the first   *)
(* listing and that look-up is passed over (install-processes.ts:257-259). *)
CloseExact ==
  [][\A q \in Pid : Close(q) =>
       LET t == table[q].target
       IN  Alive(t.pid) => \/ Runs(t) /\ table[t.pid].kind # "other"
                           \/ table[t.pid].born > t.asOf]_vars

(* Two windows never restart into an update at once, each stopping the     *)
(* backend the other counts on: whoever looks for others second finds the  *)
(* first, and gives up before it has touched anything (meshtalk.ts:714).   *)
OneRestart ==
  \A q, w \in Kind("window") :
    {table[q].at, table[w].at} \subseteq {"ask", "asked", "settle"} => q = w

(* An update never signals an unrelated process that has got the           *)
(* identifier of a stale pid file (the comment at meshtalk.ts:720-724).    *)
UpdateSpares == "update" \notin harmed

(* An installer never signals an unrelated process that has got the        *)
(* identifier of one it closes (install-processes.test.ts).                *)
CloseSpares == "close" \notin harmed
=============================================================================
