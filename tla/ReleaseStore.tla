---------------------------- MODULE ReleaseStore ----------------------------
(***************************************************************************)
(* The release store of an installation (common/release-install.ts):       *)
(* releases are staged beside each other, a selection file names the one   *)
(* in use and the one that waits, links lead from the command to it, and a *)
(* release is deleted only when nothing can need it.  Launchers, installs  *)
(* and cleanups of several processes take turns under a lock that a crash  *)
(* releases, but a crash may come between any two writes, and processes    *)
(* start and end without the lock.                                         *)
(*                                                                         *)
(* The layout is that of Unix: command -> current link -> release.  The    *)
(* first installation may be a flat pair of binaries in place of the       *)
(* command.  The digest of a Windows entry (bootstrap) is left out, and    *)
(* with it the write that only records it.  A file is replaced atomically  *)
(* (writeJson, replaceSymlink); the disk may damage a release or the       *)
(* selection.  A release carries its contents: a damaged one is staged     *)
(* again under another name.  A process identifier is used once.           *)
(***************************************************************************)
EXTENDS Integers, Sequences

CONSTANTS
  Proc,         \* processes: windows, installers and backends, each run once
  Release,      \* directories under versions
  Flat,         \* the pair of binaries in the root, a legacy installation
  None, Bad,    \* no file; a file that does not parse
  StartFlat,    \* whether the installation starts as a flat pair
  MaxFaults     \* bound: disk faults

(* The schema of the selection file; None is an entry that is left out.    *)
Selection == [cur : Release \cup {None}, pend : Release \cup {None},
              conf : Release \cup {None}]

(* The writes and other steps that a transaction is made of.               *)
Step == {"stage", "activate", "bak", "sel", "link", "cmd", "active", "lease",
         "confirm", "bakup", "prune"}
Transaction ==
  [proc : Proc, todo : Seq(Step), state : Selection, run : Release \cup {None},
   undo : Selection \cup {None}, activating : BOOLEAN, other : Release \cup {None}]

ASSUME ConstantsAssumption ==
  /\ {Flat, None, Bad} \cap Release = {} /\ Flat \notin {None, Bad}
  /\ None \notin {Bad, "flat", "link"}
  /\ None \notin Proc /\ {None, Bad} \cap Selection = {} /\ None \notin Transaction
  /\ StartFlat \in BOOLEAN /\ MaxFaults \in Nat

VARIABLES
  sel, bak,     \* .meshtalk-install.json and its .bak
  dirs,         \* releases: "none", "good", "rotten" (disk), "torn" (deletion)
  link,         \* .meshtalk-current
  cmd,          \* the command: None, "flat" or "link"
  flat,         \* whether the flat backend is there
  usage,        \* leases: [pid, release]
  proc,         \* processes: how far they are, what they run, what they saw
  tx,           \* the transaction of the process that holds the lock
  faults

files == <<sel, bak, dirs, link, cmd, flat>>
vars == <<files, usage, proc, tx, faults>>

TypeOK ==
  /\ sel \in Selection \cup {None, Bad} /\ bak \in Selection \cup {None}
  /\ dirs \in [Release -> {"none", "good", "rotten", "torn"}]
  /\ link \in Release \cup {None}
  /\ cmd \in {None, "flat", "link"} /\ flat \in BOOLEAN
  /\ usage \subseteq [pid : Proc, release : Release \cup {None}]
  /\ proc \in [Proc -> [at : {"new", "start", "looked", "old", "run", "asked", "launch",
                              "staging", "setup", "restart", "quit", "backend", "gone"},
                        exe : Release \cup {Flat, None}, alone : BOOLEAN]]
  /\ tx \in Transaction \cup {None} /\ faults \in Nat

Nothing == [cur |-> None, pend |-> None, conf |-> None]

Init ==
  /\ sel = None /\ bak = None /\ link = None
  /\ dirs = [r \in Release |-> "none"]
  /\ cmd = (IF StartFlat THEN "flat" ELSE None) /\ flat = StartFlat
  /\ usage = {} /\ tx = None /\ faults = 0
  /\ proc = [p \in Proc |-> [at |-> "new", exe |-> None, alone |-> FALSE]]

----------------------------------------------------------------------------
(* Processes, as ps shows them.                                            *)

Alive == {p \in Proc : proc[p].at \notin {"new", "gone"}}
InRoot == {p \in Alive : proc[p].exe \in Release \cup {Flat}}
Windows == {p \in Alive : proc[p].at # "backend"}

Become(p, at, exe) == proc' = [proc EXCEPT ![p] = [at |-> at, exe |-> exe, alone |-> FALSE]]

Good(r) == r \in Release /\ dirs[r] = "good"
Present(r) == r \in Release /\ dirs[r] \in {"good", "rotten"}
Parsed(file) == file \notin {None, Bad}

(* readSelection: the backup stands in for a selection that does not parse.*)
Readable == Parsed(sel) \/ Parsed(bak) \/ {sel, bak} = {None}
Read == IF Parsed(sel) THEN sel ELSE IF Parsed(bak) THEN bak ELSE Nothing

Linked == IF link \in Release /\ dirs[link] # "none" THEN link ELSE None

----------------------------------------------------------------------------
(* A transaction: its process, the writes it has yet to do, the selection  *)
(* it works with, the release it ends up running; while it activates, the  *)
(* selection to go back to, and the release to run then.                   *)

Begin(p, todo, state, run, other) ==
  /\ tx = None
  /\ tx' = [proc |-> p, todo |-> todo, state |-> state, run |-> run,
            undo |-> None, activating |-> FALSE, other |-> other]

Publish == <<"link", "cmd">>
Write == <<"bak", "sel">>
Activate == <<"activate">> \o Write \o Publish \o <<"active">>

(* The release that a directory is staged as: its own, or another if that  *)
(* is damaged (stageDirectory).                                            *)
StagedAs(r) ==
  IF dirs[r] \in {"none", "good"} THEN {r}
  ELSE {q \in Release : dirs[q] = "none"}

(* activate: the pending release becomes the current one.                  *)
Activated(s) == [s EXCEPT !.cur = s.pend, !.pend = None]

----------------------------------------------------------------------------
(* Starting.                                                               *)

(* The user runs the command.  A flat installation may be of a version     *)
(* that knows nothing of releases.                                         *)
Start(p) ==
  /\ proc[p].at = "new"
  /\ \/ cmd = "link" /\ Linked # None /\ Become(p, "start", Linked)
     \/ cmd = "flat" /\ \E at \in {"start", "old"} : Become(p, at, Flat)
  /\ UNCHANGED <<files, usage, tx, faults>>

(* The installer runs from an unpacked archive.                            *)
StartSetup(p) ==
  /\ proc[p].at = "new" /\ Become(p, "start", None)
  /\ UNCHANGED <<files, usage, tx, faults>>

(* Before the lock: whether another window or an answering backend runs,   *)
(* or that cannot be told.                                                 *)
LookAround(p) ==
  /\ proc[p].at = "start"
  /\ \E alone \in BOOLEAN :
       /\ alone => Windows = {p}
       /\ proc' = [proc EXCEPT ![p].at = "looked", ![p].alone = alone]
  /\ UNCHANGED <<files, usage, tx, faults>>

(* A window starts its backend from the release it runs, and records it    *)
(* only then (retainChildRelease).                                         *)
StartBackend(p, q) ==
  /\ proc[p].at = "run" /\ proc[q].at = "new"
  /\ Become(q, "backend", proc[p].exe)
  /\ UNCHANGED <<files, usage, tx, faults>>

RetainChild(p, q) ==
  /\ proc[p].at = "run" /\ proc[q].at = "backend" /\ proc[p].exe = proc[q].exe
  /\ usage' = usage \cup {[pid |-> q, release |-> proc[q].exe]}
  /\ UNCHANGED <<files, proc, tx, faults>>

(* A process ends, in the middle of its transaction or not.                *)
Die(p) ==
  /\ p \in Alive
  /\ Become(p, "gone", None)
  /\ tx' = IF tx # None /\ tx.proc = p THEN None ELSE tx
  /\ UNCHANGED <<files, usage, faults>>

----------------------------------------------------------------------------
(* prepareInstalledLauncher: what is read under the lock decides what is   *)
(* written.                                                                *)

Payload(p) == proc[p].exe \in Release
Recovered == sel # None /\ ~Parsed(sel)
Fresh(p) == Read.cur = None /\ ~Payload(p) /\ flat

(* The links do not lead to the selection: a publication was interrupted.  *)
Unpublished(s) == Good(s.cur) /\ (Linked # s.cur \/ cmd # "link")

Activates(p, s) == proc[p].alone /\ Good(s.pend)

(* The release to run, when next is the selection after the activation.    *)
Selected(p, s, next) ==
  LET switched == \/ Unpublished(s) /\ proc[p].exe = Linked
                  \/ next.cur # s.cur
  IN  IF Payload(p) /\ ~switched /\ ~Recovered THEN proc[p].exe ELSE next.cur

Repairs ==
  IF Recovered THEN Write \o (IF Read.cur = None THEN <<>> ELSE Publish)
  ELSE IF Unpublished(Read) THEN Publish ELSE <<>>

(* The launch takes a lease, records that the release has started if it is *)
(* the current one, and prunes.                                            *)
Finish(p, next) ==
  <<"lease">>
    \o (IF Payload(p) /\ next.cur = proc[p].exe
        THEN <<"confirm">> \o Write \o <<"bakup">> ELSE <<>>)
    \o <<"prune">>

LaunchSelected(p) ==
  LET s == Read
      next == IF Activates(p, s) THEN Activated(s) ELSE s
      selected == Selected(p, s, next)
  IN  /\ ~Fresh(p) /\ Good(selected)
      /\ proc[p].alone /\ s.pend # None /\ ~Good(s.pend) => Good(s.cur)
      /\ Begin(p, Repairs \o (IF Activates(p, s) THEN Activate ELSE <<>>)
                    \o Finish(p, next), s, selected,
               IF Activates(p, s) THEN Selected(p, s, s) ELSE None)

(* Nothing was installed yet but the flat pair: it is staged and selected. *)
LaunchFlat(p) ==
  /\ Fresh(p)
  /\ \E r \in Release : \E q \in StagedAs(r) :
       Begin(p, <<"stage">> \o Write \o Publish \o <<"lease", "prune">>,
             [Read EXCEPT !.cur = q], q, None)

(* The selected release is missing or damaged: the backup's takes over.    *)
LaunchBackup(p) ==
  LET s == Read
      selected == Selected(p, s, s)
  IN  /\ ~Fresh(p) /\ ~Activates(p, s) /\ selected # None /\ ~Good(selected)
      /\ proc[p].alone /\ s.pend # None => Good(s.cur)
      /\ Parsed(bak) /\ Good(bak.cur)
      /\ Begin(p, Write \o Publish \o <<"lease">>, [bak EXCEPT !.pend = s.pend],
               bak.cur, None)

Launch(p) ==
  /\ proc[p].at = "looked" /\ proc[p].exe # None /\ Readable
  /\ LaunchSelected(p) \/ LaunchFlat(p) \/ LaunchBackup(p)
  /\ Become(p, "launch", proc[p].exe)
  /\ UNCHANGED <<files, usage, faults>>

----------------------------------------------------------------------------
(* The other transactions.                                                 *)

(* stageReleaseDirectory: a release is added beside the one in use, by a   *)
(* window that downloaded it or by an installer that met a window.         *)
StageOnly(p) ==
  /\ Readable /\ cmd # None
  /\ \E r \in Release : \E q \in StagedAs(r) :
       Begin(p, <<"stage">> \o Write \o <<"prune">>, [Read EXCEPT !.pend = q], q, None)

Stage(p) ==
  /\ proc[p].at = "run" /\ StageOnly(p)
  /\ Become(p, "staging", proc[p].exe)
  /\ UNCHANGED <<files, usage, faults>>

(* installFromDirectory.                                                   *)
Install(p) ==
  /\ proc[p].at = "looked" /\ proc[p].exe = None
  /\ \/ ~proc[p].alone /\ sel # None /\ StageOnly(p)
     \/ /\ proc[p].alone
        /\ LET s == IF Readable THEN Read ELSE Nothing
           IN  \E r \in Release : \E q \in StagedAs(r) :
                 Begin(p, <<"stage">> \o Activate \o <<"prune">>,
                       [s EXCEPT !.pend = q], q, None)
  /\ Become(p, "setup", None)
  /\ UNCHANGED <<files, usage, faults>>

(* The last window stops the backend, then takes over the release that     *)
(* waits, or the current one (prepareUpdateRestart).                       *)
AskRestart(p) ==
  /\ proc[p].at = "run" /\ Windows = {p}
  /\ Become(p, "asked", proc[p].exe)
  /\ UNCHANGED <<files, usage, tx, faults>>

RestartInto(p) ==
  LET s == Read
      next == IF s.pend = None THEN s ELSE Activated(s)
  IN  /\ proc[p].at = "asked" /\ Readable /\ Good(next.cur)
      /\ Begin(p, (IF s.pend = None THEN <<>> ELSE Activate) \o <<"lease">>,
               s, next.cur, None)
      /\ Become(p, "restart", proc[p].exe)
      /\ UNCHANGED <<files, usage, faults>>

(* Every 30 s, and in the exit handler, which drops the lease first.       *)
Cleanup(p) ==
  /\ proc[p].at = "run" /\ Readable
  /\ Begin(p, <<"prune">>, Read, None, None)
  /\ UNCHANGED <<files, proc, faults>>
  /\ UNCHANGED usage

Quit(p) ==
  /\ proc[p].at = "run" /\ Readable
  /\ Begin(p, <<"prune">>, Read, None, None)
  /\ usage' = usage \ {[pid |-> p, release |-> proc[p].exe]}
  /\ Become(p, "quit", proc[p].exe)
  /\ UNCHANGED <<files, faults>>

----------------------------------------------------------------------------
(* The writes.                                                             *)

Doing(step) == tx # None /\ tx.todo # <<>> /\ Head(tx.todo) = step
Done == tx' = [tx EXCEPT !.todo = Tail(@)]

(* The directory is renamed into place when it is complete.                *)
DoStage ==
  /\ Doing("stage") /\ Done
  /\ dirs' = [dirs EXCEPT ![tx.run] = "good"]
  /\ UNCHANGED <<sel, bak, link, cmd, flat, usage, proc, faults>>

DoActivate ==
  /\ \/ /\ Doing("activate")
        /\ tx' = [tx EXCEPT !.todo = Tail(@), !.state = Activated(@),
                            !.activating = TRUE,
                            !.undo = IF sel = None THEN None ELSE tx.state]
     \/ /\ Doing("active")
        /\ tx' = [tx EXCEPT !.todo = Tail(@), !.activating = FALSE, !.undo = None,
                            !.other = None]
  /\ UNCHANGED <<files, usage, proc, faults>>

DoConfirm ==
  /\ Doing("confirm")
  /\ tx' = [tx EXCEPT !.todo = Tail(@), !.state.conf = tx.run]
  /\ UNCHANGED <<files, usage, proc, faults>>

(* Mutant of KeepsBackup: a selection that has not started yet is kept.    *)
KeepsBackupAlways == Parsed(sel)

(* writeSelection: the backup first, if the selection was ever confirmed.  *)
KeepsBackup == Parsed(sel) /\ (bak = None \/ sel.cur = sel.conf)

DoBackup ==
  /\ \/ Doing("bak") /\ bak' = IF KeepsBackup THEN sel ELSE bak
     \/ Doing("bakup") /\ bak' = tx.state
  /\ Done
  /\ UNCHANGED <<sel, dirs, link, cmd, flat, usage, proc, faults>>

DoSelect ==
  /\ Doing("sel") /\ Done
  /\ sel' = tx.state
  /\ UNCHANGED <<bak, dirs, link, cmd, flat, usage, proc, faults>>

DoLink ==
  /\ Doing("link") /\ Done
  /\ link' = tx.state.cur
  /\ UNCHANGED <<sel, bak, dirs, cmd, flat, usage, proc, faults>>

DoCommand ==
  /\ Doing("cmd") /\ Done
  /\ cmd' = "link"
  /\ UNCHANGED <<sel, bak, dirs, link, flat, usage, proc, faults>>

(* Publication fails.  An activation writes the selection back as it was;  *)
(* a launch then goes on with that if it can, anything else is given up.   *)
PublishFails ==
  /\ Doing("link") \/ Doing("cmd")
  /\ faults < MaxFaults /\ faults' = faults + 1
  /\ sel' = IF tx.activating THEN tx.undo ELSE sel
  /\ IF tx.activating /\ proc[tx.proc].at = "launch" /\ Good(tx.undo.cur)
     THEN /\ tx' = [tx EXCEPT !.activating = FALSE, !.state = tx.undo,
                              !.run = tx.other, !.todo = Finish(tx.proc, tx.undo)]
          /\ UNCHANGED proc
     ELSE tx' = None /\ Become(tx.proc, "gone", None)
  /\ UNCHANGED <<bak, dirs, link, cmd, flat, usage>>

DoLease ==
  /\ Doing("lease") /\ Done
  /\ usage' = usage \cup {[pid |-> tx.proc, release |-> tx.run]}
  /\ UNCHANGED <<files, proc, faults>>

----------------------------------------------------------------------------
(* prune.                                                                  *)

Live == {u \in usage : u.pid \in Alive}
Tracked == {tx.proc} \cup {u.pid : u \in Live}

(* Mutant of Keep: only what the selection and the leases name.            *)
KeepNamed == {tx.state.cur, tx.state.pend, proc[tx.proc].exe}
               \cup {u.release : u \in Live}

Keep == {tx.state.cur, tx.state.pend, proc[tx.proc].exe, Linked}
          \cup {u.release : u \in Live}
          \cup (IF Parsed(bak) THEN {bak.cur} ELSE {})

(* Mutant of MayPrune: a process without a lease is not looked for.        *)
MayPruneAnyway == Linked # None

(* Nothing is deleted while a process is not accounted for, or while it is *)
(* not known where the command leads.                                      *)
MayPrune == InRoot \subseteq Tracked /\ Linked # None

(* Deletion takes the manifest with the first file, or stops before it.    *)
Pruned(keep) ==
  {d \in [Release -> {"none", "good", "rotten", "torn"}] :
     \A r \in Release :
       d[r] \in IF r \in keep \/ dirs[r] = "torn" THEN {dirs[r]}
                ELSE {"none", dirs[r]} \cup (IF dirs[r] = "none" THEN {} ELSE {"torn"})}

(* The flat backend goes once the selected release has started.            *)
FlatUnused == tx.state.cur # None /\ tx.state.conf = tx.state.cur

DoPrune ==
  /\ Doing("prune") /\ Done
  /\ usage' = Live
  /\ IF MayPrune
     THEN /\ dirs' \in Pruned(Keep)
          /\ flat' = (flat /\ ~FlatUnused)
     ELSE UNCHANGED <<dirs, flat>>
  /\ UNCHANGED <<sel, bak, link, cmd, proc, faults>>

----------------------------------------------------------------------------
(* The end of a transaction.                                               *)

(* A launcher goes on, or replaces itself by the release it was given; a   *)
(* restart always does, and drops its old lease.                           *)
Commit ==
  /\ tx # None /\ tx.todo = <<>>
  /\ tx' = None
  /\ LET p == tx.proc
         old == IF proc[p].at = "restart" /\ proc[p].exe # tx.run
                THEN {[pid |-> p, release |-> proc[p].exe]} ELSE {}
     IN  /\ usage' = usage \ old
         /\ CASE proc[p].at = "launch" ->
                   IF tx.run = proc[p].exe THEN Become(p, "run", tx.run)
                   ELSE Become(p, "start", tx.run)
              [] proc[p].at = "restart" -> Become(p, "start", tx.run)
              [] proc[p].at = "staging" -> Become(p, "run", proc[p].exe)
              [] proc[p].at \in {"setup", "quit"} -> Become(p, "gone", None)
              [] OTHER -> UNCHANGED proc
  /\ UNCHANGED <<files, faults>>

(* The disk damages a file.                                                *)
Damage ==
  /\ faults < MaxFaults /\ faults' = faults + 1
  /\ \/ \E r \in Release : /\ dirs[r] = "good"
                          /\ dirs' = [dirs EXCEPT ![r] = "rotten"]
                          /\ UNCHANGED sel
     \/ Parsed(sel) /\ sel' = Bad /\ UNCHANGED dirs
  /\ UNCHANGED <<bak, link, cmd, flat, usage, proc, tx>>

Next ==
  \/ \E p \in Proc :
       \/ Start(p) \/ StartSetup(p) \/ LookAround(p) \/ Launch(p) \/ Die(p) \/ Quit(p)
       \/ Stage(p) \/ AskRestart(p) \/ RestartInto(p) \/ Install(p) \/ Cleanup(p)
       \/ \E q \in Proc : StartBackend(p, q) \/ RetainChild(p, q)
  \/ DoStage \/ DoActivate \/ DoConfirm \/ DoBackup \/ DoSelect
  \/ DoLink \/ DoCommand \/ PublishFails \/ DoLease \/ DoPrune \/ Commit \/ Damage

Spec == Init /\ [][Next]_vars

----------------------------------------------------------------------------
(* Properties.                                                             *)

(* "Never guess that a release is unused" (release-install.ts:492): what a *)
(* running process was started from is never deleted, not by the cleanup   *)
(* of another process between its start and its lease, nor by its own; an  *)
(* old flat program keeps the backend it starts later.                     *)
InUseKept ==
  \A p \in InRoot :
    /\ proc[p].exe \in Release => Present(proc[p].exe)
    /\ proc[p].at = "old" => flat

(* Whatever write a crash comes after, what the files name is there: the   *)
(* command leads to a release (DoLink before DoCommand, both before prune),*)
(* the selection and its backup name a current release that is on disk, a  *)
(* flat command has its backend; and without a fault the release that      *)
(* waits is there too (recovered from the backup it may be gone).          *)
ReferencedKept ==
  /\ cmd = "link" => Present(link)
  /\ cmd = "flat" => flat
  /\ Parsed(sel) /\ sel.cur # None => Present(sel.cur)
  /\ Parsed(sel) /\ sel.pend # None /\ faults = 0 => Present(sel.pend)
  /\ Parsed(bak) /\ bak.cur # None => Present(bak.cur)

(* The way back stays open until the new release has started               *)
(* (release-install.ts:506): once a release has been confirmed the backup  *)
(* names one that was, never one that has yet to reach its entry point.    *)
(* The disk may fail once: a selection that is damaged twice, each time    *)
(* just before it is kept (writeSelection), is kept when its successor has *)
(* not started.                                                            *)
WayBack ==
  faults <= 1 /\ Parsed(bak) /\ bak.conf # None => bak.cur = bak.conf
=============================================================================
