------------------------ MODULE ReleaseStore_proofs ------------------------
(***************************************************************************)
(* What runs or is named by a file of the store is never deleted, after a  *)
(* crash between any two writes, for every number of processes, releases   *)
(* and faults of the disk; with at most one fault the way back stays open. *)
(***************************************************************************)
EXTENDS ReleaseStore, TLAPS

----------------------------------------------------------------------------
(* What is said of a list of steps.                                        *)

Has(T, x) == \E i \in DOMAIN T : T[i] = x
Then(T, x, y) == \A i \in DOMAIN T : T[i] = x => i + 1 \in DOMAIN T /\ T[i + 1] = y
Before(T, x, y) ==
  \A j \in DOMAIN T : T[j] = y => \E i \in DOMAIN T : i < j /\ T[i] = x
Distinct(T) == \A i, j \in DOMAIN T : T[i] = T[j] => i = j

(* A selection is kept, written and published in this order, an activation *)
(* comes once, is ended, and comes before a confirmation; a directory is   *)
(* staged first and others are pruned last.                                *)
Shaped(T) ==
  /\ Then(T, "activate", "bak") /\ Then(T, "confirm", "bak")
  /\ Then(T, "bak", "sel") /\ Then(T, "link", "cmd")
  /\ \A i \in DOMAIN T :
       /\ T[i] = "stage" => i = 1
       /\ T[i] = "prune" => i = Len(T)
       /\ T[i] = "cmd" /\ i > 1 => T[i - 1] = "link"
       /\ T[i] = "sel" /\ i > 1 => T[i - 1] = "bak"
       /\ T[i] = "activate" => \E j \in DOMAIN T : i < j /\ T[j] = "active"
       /\ T[i] \in {"activate", "active", "confirm"} =>
            \A j \in DOMAIN T : T[j] = "activate" => j <= i

(* Nothing is missing before a step that is not in the list.               *)
LEMMA Vacuous ==
  ASSUME NEW T, NEW x, NEW y, ~Has(T, y)
  PROVE  Before(T, x, y)
BY DEF Has, Before

(* What the first step of a list says of the ones after it.                *)
LEMMA Rest ==
  ASSUME NEW T \in Seq(Step), T # <<>>, Shaped(T)
  PROVE  /\ Tail(T) \in Seq(Step) /\ Shaped(Tail(T)) /\ Head(T) \in Step
         /\ \A x : Has(T, x) <=> x = Head(T) \/ Has(Tail(T), x)
         /\ \A x, y : Before(T, x, y) =>
              Head(T) # y /\ (Head(T) # x => Before(Tail(T), x, y))
         /\ Distinct(T) => Distinct(Tail(T)) /\ ~Has(Tail(T), Head(T))
         /\ ~Has(Tail(T), "stage")
         /\ Head(T) = "prune" => Tail(T) = <<>>
         /\ Head(T) = "activate" =>
              /\ Head(Tail(T)) = "bak" /\ Has(Tail(T), "bak") /\ Has(Tail(T), "sel")
              /\ Has(Tail(T), "active") /\ ~Has(Tail(T), "activate")
         /\ Head(T) = "confirm" =>
              /\ Head(Tail(T)) = "bak" /\ Has(Tail(T), "sel")
              /\ ~Has(Tail(T), "activate")
         /\ Head(T) = "active" => ~Has(Tail(T), "activate")
         /\ Head(T) = "bak" => Head(Tail(T)) = "sel" /\ Has(Tail(T), "sel")
         /\ Head(T) = "link" => Head(Tail(T)) = "cmd" /\ Has(Tail(T), "cmd")
         /\ Tail(T) # <<>> /\ Head(Tail(T)) = "cmd" => Head(T) = "link"
         /\ Tail(T) # <<>> /\ Head(Tail(T)) = "sel" => Head(T) = "bak"
<1> DEFINE S == Tail(T)
           n == Len(T)
<1>1. /\ n \in Nat /\ n >= 1 /\ DOMAIN T = 1 .. n /\ Head(T) = T[1] /\ Head(T) \in Step
      /\ S \in Seq(Step) /\ Len(S) = n - 1 /\ DOMAIN S = 1 .. n - 1
      /\ \A i \in 1 .. n - 1 : S[i] = T[i + 1]
      /\ S # <<>> => Head(S) = S[1] /\ n >= 2
      /\ n >= 2 => Head(S) = S[1] /\ S # <<>>
  <2>1. n \in Nat /\ DOMAIN T = 1 .. n
    OBVIOUS
  <2>2. n >= 1 /\ Head(T) = T[1] /\ Head(T) \in Step
    OBVIOUS
  <2>3. S \in Seq(Step) /\ Len(S) = n - 1 /\ DOMAIN S = 1 .. n - 1
    OBVIOUS
  <2>4. \A i \in 1 .. n - 1 : S[i] = T[i + 1]
    OBVIOUS
  <2> HIDE DEF S
  <2>5. S # <<>> => Head(S) = S[1] /\ n >= 2
    BY <2>1, <2>2, <2>3
  <2>6. n >= 2 => Head(S) = S[1] /\ S # <<>>
    BY <2>1, <2>2, <2>3
  <2> QED BY <2>1, <2>2, <2>3, <2>4, <2>5, <2>6
<1> HIDE DEF S, n
<1>2. \A j \in 1 .. n : j = 1 \/ (j - 1 \in 1 .. n - 1 /\ S[j - 1] = T[j])
  BY <1>1
<1>3. \A x : Has(T, x) <=> x = Head(T) \/ Has(S, x)
  <2>1. ASSUME NEW x, Has(T, x), x # Head(T)
        PROVE  Has(S, x)
    <3>1. PICK j \in 1 .. n : T[j] = x
      BY <1>1, <2>1 DEF Has
    <3>2. j - 1 \in 1 .. n - 1 /\ S[j - 1] = x
      BY <1>1, <1>2, <2>1, <3>1
    <3> QED BY <1>1, <3>2 DEF Has
  <2>2. ASSUME NEW x, Has(S, x)
        PROVE  Has(T, x)
    <3>1. PICK i \in 1 .. n - 1 : S[i] = x
      BY <1>1, <2>2 DEF Has
    <3>2. i + 1 \in 1 .. n /\ T[i + 1] = x
      BY <1>1, <3>1
    <3> QED BY <1>1, <3>2 DEF Has
  <2>3. Has(T, Head(T))
    <3>1. 1 \in 1 .. n
      BY <1>1
    <3> QED BY <1>1, <3>1 DEF Has
  <2> QED BY <2>1, <2>2, <2>3
<1>4. ASSUME NEW x, NEW y, Before(T, x, y)
      PROVE  Head(T) # y /\ (Head(T) # x => Before(S, x, y))
  <2>1. Head(T) # y
    BY <1>1, <1>4 DEF Before
  <2>2. ASSUME Head(T) # x, NEW j \in 1 .. n - 1, S[j] = y
        PROVE  \E i \in 1 .. n - 1 : i < j /\ S[i] = x
    <3>1. j + 1 \in 1 .. n /\ T[j + 1] = y
      BY <1>1, <2>2
    <3>2. PICK i \in 1 .. n : i < j + 1 /\ T[i] = x
      BY <1>1, <1>4, <3>1 DEF Before
    <3>3. i # 1
      BY <1>1, <2>2, <3>2
    <3> QED BY <1>1, <1>2, <3>2, <3>3
  <2> QED BY <1>1, <2>1, <2>2 DEF Before
<1>5. ASSUME NEW x, NEW y, Then(T, x, y)
      PROVE  Then(S, x, y) /\ (Head(T) = x => n >= 2 /\ Head(S) = y)
  <2>1. \A i \in 1 .. n : T[i] = x => i + 1 \in 1 .. n /\ T[i + 1] = y
    BY <1>1, <1>5 DEF Then
  <2>2. ASSUME NEW i \in 1 .. n - 1, S[i] = x
        PROVE  i + 1 \in 1 .. n - 1 /\ S[i + 1] = y
    <3>1. i + 1 \in 1 .. n /\ T[i + 1] = x
      BY <1>1, <2>2
    <3>2. i + 1 + 1 \in 1 .. n /\ T[i + 1 + 1] = y
      BY <2>1, <3>1
    <3>3. i + 1 \in 1 .. n - 1
      BY <1>1, <3>2
    <3> QED BY <1>1, <3>2, <3>3
  <2>3. Then(S, x, y)
    BY <1>1, <2>2 DEF Then
  <2>4. Head(T) = x => n >= 2 /\ T[2] = y
    BY <1>1, <2>1
  <2> QED BY <1>1, <2>3, <2>4
<1>6. Then(T, "activate", "bak") /\ Then(T, "confirm", "bak")
      /\ Then(T, "bak", "sel") /\ Then(T, "link", "cmd")
  BY DEF Shaped
<1>7. ASSUME Distinct(T)
      PROVE  Distinct(S) /\ ~Has(S, Head(T))
  <2>1. \A i, j \in 1 .. n : T[i] = T[j] => i = j
    BY <1>1, <1>7 DEF Distinct
  <2>2. ASSUME NEW i \in 1 .. n - 1, NEW j \in 1 .. n - 1, S[i] = S[j]
        PROVE  i = j
    <3>1. i + 1 \in 1 .. n /\ j + 1 \in 1 .. n /\ T[i + 1] = T[j + 1]
      BY <1>1, <2>2
    <3>2. i + 1 = j + 1
      BY <2>1, <3>1
    <3> QED BY <3>2
  <2>3. ASSUME NEW i \in 1 .. n - 1, S[i] = Head(T)
        PROVE  FALSE
    <3>1. i + 1 \in 1 .. n /\ 1 \in 1 .. n /\ T[i + 1] = T[1]
      BY <1>1, <2>3
    <3>2. i + 1 = 1
      BY <2>1, <3>1
    <3> QED BY <3>2
  <2> QED BY <1>1, <2>2, <2>3 DEF Distinct, Has
<1>8. Shaped(S)
  <2>1. Then(S, "activate", "bak") /\ Then(S, "confirm", "bak")
        /\ Then(S, "bak", "sel") /\ Then(S, "link", "cmd")
    BY <1>5, <1>6
  <2>2. ASSUME NEW i \in 1 .. n - 1
        PROVE  /\ S[i] # "stage"
               /\ S[i] = "prune" => i = n - 1
               /\ S[i] = "cmd" /\ i > 1 => S[i - 1] = "link"
               /\ S[i] = "sel" /\ i > 1 => S[i - 1] = "bak"
               /\ S[i] = "activate" => \E j \in 1 .. n - 1 : i < j /\ S[j] = "active"
               /\ S[i] \in {"activate", "active", "confirm"} =>
                    \A j \in 1 .. n - 1 : S[j] = "activate" => j <= i
    <3>1. i + 1 \in 1 .. n /\ S[i] = T[i + 1] /\ i + 1 > 1 /\ i + 1 # 1
          /\ (i + 1) - 1 = i
      BY <1>1
    <3>2. i > 1 => i - 1 \in 1 .. n - 1 /\ S[i - 1] = T[i]
      BY <1>1
    <3>5. /\ T[i + 1] = "stage" => i + 1 = 1
          /\ T[i + 1] = "prune" => i + 1 = n
          /\ T[i + 1] = "cmd" /\ i + 1 > 1 => T[(i + 1) - 1] = "link"
          /\ T[i + 1] = "sel" /\ i + 1 > 1 => T[(i + 1) - 1] = "bak"
          /\ T[i + 1] \in {"activate", "active", "confirm"} =>
               \A j \in 1 .. n : T[j] = "activate" => j <= i + 1
      BY <1>1, <3>1 DEF Shaped, n
    <3>3. S[i] = "activate" => \E j \in 1 .. n - 1 : i < j /\ S[j] = "active"
      <4>1. SUFFICES ASSUME S[i] = "activate"
                     PROVE  \E j \in 1 .. n - 1 : i < j /\ S[j] = "active"
        OBVIOUS
      <4>2. PICK k \in 1 .. n : i + 1 < k /\ T[k] = "active"
        BY <1>1, <3>1, <4>1 DEF Shaped
      <4> QED BY <1>1, <1>2, <4>2
    <3>4. \A j \in 1 .. n - 1 : j + 1 \in 1 .. n /\ S[j] = T[j + 1]
      BY <1>1
    <3>6. S[i] \in {"activate", "active", "confirm"} =>
            \A j \in 1 .. n - 1 : S[j] = "activate" => j <= i
      BY <1>1, <3>1, <3>4, <3>5
    <3> QED BY <3>1, <3>2, <3>3, <3>5, <3>6
  <2>3. Len(S) = n - 1 /\ DOMAIN S = 1 .. n - 1 /\ \A i \in 1 .. n - 1 : i = 1 => S[i] # "stage"
    BY <1>1, <2>2
  <2> QED BY <2>1, <2>2, <2>3 DEF Shaped
<1>9. ~Has(S, "stage")
  <2>1. \A i \in 1 .. n - 1 : S[i] # "stage"
    BY <1>1 DEF Shaped
  <2> QED BY <1>1, <2>1 DEF Has
<1>10. Head(T) = "prune" => S = <<>>
  BY <1>1 DEF Shaped
<1>11. ASSUME Head(T) \in {"activate", "active", "confirm"}, NEW j \in 1 .. n - 1
       PROVE  S[j] # "activate"
  <2>1. \A k \in 1 .. n : T[k] = "activate" => k <= 1
    <3>1. 1 \in 1 .. n /\ T[1] \in {"activate", "active", "confirm"}
      BY <1>1, <1>11
    <3> QED BY <1>1, <3>1 DEF Shaped
  <2>2. j + 1 \in 1 .. n /\ S[j] = T[j + 1] /\ ~(j + 1 <= 1)
    BY <1>1
  <2> QED BY <2>1, <2>2
<1>12. Head(T) = "activate" =>
         /\ Head(S) = "bak" /\ Has(S, "bak") /\ Has(S, "sel")
         /\ Has(S, "active") /\ ~Has(S, "activate")
  <2>1. SUFFICES ASSUME Head(T) = "activate"
                 PROVE  /\ Head(S) = "bak" /\ Has(S, "bak") /\ Has(S, "sel")
                        /\ Has(S, "active") /\ ~Has(S, "activate")
    OBVIOUS
  <2>2. Head(S) = "bak" /\ n >= 2 /\ S[1] = "bak" /\ 1 \in 1 .. n - 1
    BY <1>1, <1>5, <1>6, <2>1
  <2>3. 1 + 1 \in 1 .. n - 1 /\ S[1 + 1] = "sel"
    <3>1. Then(S, "bak", "sel")
      BY <1>5, <1>6
    <3> QED BY <1>1, <2>2, <3>1 DEF Then
  <2>4. PICK k \in 1 .. n : 1 < k /\ T[k] = "active"
    BY <1>1, <2>1 DEF Shaped
  <2>5. k - 1 \in 1 .. n - 1 /\ S[k - 1] = "active"
    BY <1>1, <1>2, <2>4
  <2>6. \A j \in 1 .. n - 1 : S[j] # "activate"
    BY <1>1, <1>11, <2>1
  <2> QED BY <1>1, <2>2, <2>3, <2>5, <2>6 DEF Has
<1>13. Head(T) = "confirm" =>
         Head(S) = "bak" /\ Has(S, "sel") /\ ~Has(S, "activate")
  <2>1. SUFFICES ASSUME Head(T) = "confirm"
                 PROVE  Head(S) = "bak" /\ Has(S, "sel") /\ ~Has(S, "activate")
    OBVIOUS
  <2>2. Head(S) = "bak" /\ n >= 2 /\ S[1] = "bak" /\ 1 \in 1 .. n - 1
    BY <1>1, <1>5, <1>6, <2>1
  <2>3. 1 + 1 \in 1 .. n - 1 /\ S[1 + 1] = "sel"
    <3>1. Then(S, "bak", "sel")
      BY <1>5, <1>6
    <3> QED BY <1>1, <2>2, <3>1 DEF Then
  <2>4. \A j \in 1 .. n - 1 : S[j] # "activate"
    BY <1>1, <1>11, <2>1
  <2> QED BY <1>1, <2>2, <2>3, <2>4 DEF Has
<1>14. /\ Head(T) = "bak" => Head(S) = "sel" /\ Has(S, "sel")
       /\ Head(T) = "link" => Head(S) = "cmd" /\ Has(S, "cmd")
       /\ Head(T) = "active" => ~Has(S, "activate")
  BY <1>1, <1>5, <1>6, <1>11 DEF Has
<1>15. /\ S # <<>> /\ Head(S) = "cmd" => Head(T) = "link"
       /\ S # <<>> /\ Head(S) = "sel" => Head(T) = "bak"
  BY <1>1 DEF Shaped
<1> QED BY <1>1, <1>3, <1>4, <1>7, <1>8, <1>9, <1>10, <1>12, <1>13, <1>14, <1>15 DEF S

----------------------------------------------------------------------------
(* The inductive invariant.                                                *)

Shape == tx # None => Shaped(tx.todo)

(* A process in a transaction holds the lock.  Whoever runs from a release *)
(* was started by the command or by a launch that has published it.        *)
Busy == {"launch", "restart", "staging", "setup", "quit"}
Processes ==
  \A p \in Proc :
    /\ proc[p].at \in Busy => tx # None /\ tx.proc = p
    /\ proc[p].exe \in Release => cmd = "link"
    /\ proc[p].at \in {"run", "asked", "staging", "restart", "quit", "backend"} =>
         proc[p].exe \in Release
    /\ proc[p].at = "launch" => proc[p].exe # None
    /\ proc[p].at = "old" => proc[p].exe = Flat

(* What a transaction consists of, by the kind of the process.             *)
Kind == proc[tx.proc].at
Runs == proc[tx.proc].exe
Kinds ==
  tx # None =>
    /\ Kind \in Busy \cup {"run", "asked"}
    /\ Kind \in {"run", "asked", "quit"} => \A x \in Step \ {"prune"} : ~Has(tx.todo, x)
    /\ Has(tx.todo, "activate") => Kind \in {"launch", "restart", "setup"}
    /\ Has(tx.todo, "lease") => Kind \in {"launch", "restart"}
    /\ Has(tx.todo, "confirm") => Kind = "launch" /\ Runs \in Release
    /\ Has(tx.todo, "bakup") => Kind = "launch" /\ Runs \in Release
    /\ Kind = "launch" /\ Has(tx.todo, "stage") => ~Has(tx.todo, "activate")
    /\ Kind \in {"launch", "restart"} => cmd = "link" \/ Has(tx.todo, "cmd")
    /\ Kind = "setup" => Distinct(tx.todo)

(* A process has a lease for what it runs if it has any, unless it is in a *)
(* transaction, where its own prune spares it.                             *)
Leases ==
  /\ \A u \in usage : proc[u.pid].at \notin {"new", "old"}
  /\ \A p \in Proc :
       /\ proc[p].at \in {"run", "asked", "staging"} =>
            [pid |-> p, release |-> proc[p].exe] \in usage
       /\ p \in Alive /\ proc[p].exe \in Release /\ ~(tx # None /\ tx.proc = p) =>
            \A u \in usage : u.pid = p => [pid |-> p, release |-> proc[p].exe] \in usage
  /\ tx # None /\ Kind \in {"launch", "restart"} /\ ~Has(tx.todo, "lease") =>
       [pid |-> tx.proc, release |-> tx.run] \in usage

(* What a transaction is about to select, publish, run or go back to is on *)
(* disk, or is staged first.                                               *)
Coming(r) == Present(r) \/ (Doing("stage") /\ r = tx.run)
Selects ==
  tx # None =>
    /\ tx.state.cur # None => Coming(tx.state.cur)
    /\ tx.state.pend # None /\ faults = 0 => Coming(tx.state.pend)
    /\ Has(tx.todo, "activate") => tx.state.pend # None /\ Coming(tx.state.pend)
    /\ Kind \in {"launch", "restart"} => tx.run \in Release /\ Coming(tx.run)
    /\ Has(tx.todo, "stage") => tx.run \in Release
    /\ Has(tx.todo, "sel") \/ ~Parsed(sel) \/ sel = tx.state

Publishes ==
  tx # None =>
    /\ tx.state.cur # None \/ Before(tx.todo, "activate", "link")
    /\ Doing("cmd") => link = tx.state.cur /\ link # None
    /\ Kind = "launch" /\ Good(tx.state.cur) =>
         cmd = "link" \/ Before(tx.todo, "cmd", "activate")

Returns ==
  tx # None =>
    /\ tx.activating => Has(tx.todo, "active") /\ ~Has(tx.todo, "stage")
    /\ tx.activating /\ tx.undo # None /\ tx.undo.cur # None => Present(tx.undo.cur)
    /\ Kind = "launch" /\ tx.activating =>
         /\ tx.undo # None
         /\ Good(tx.undo.cur) => cmd = "link"
         /\ tx.other = tx.undo.cur \/ (tx.other = Runs /\ Runs \in Release)
    /\ Kind = "launch" /\ Has(tx.todo, "activate") =>
         tx.other = tx.state.cur \/ (tx.other = Runs /\ Runs \in Release)

(* Once there is a command or a backup there is a selection, and it is not *)
(* taken back.                                                             *)
Kept ==
  /\ cmd = "link" => sel # None
  /\ bak # None => sel # None
  /\ sel = Bad => faults >= 1
  /\ tx # None =>
       /\ sel # None \/ Before(tx.todo, "sel", "cmd")
       /\ Has(tx.todo, "activate") /\ Kind # "setup" => sel # None
       /\ tx.activating /\ tx.undo = None =>
            /\ Kind = "setup" /\ bak = None
            /\ Has(tx.todo, "bak") => Doing("bak") /\ sel = None
            /\ cmd = "link" => ~Has(tx.todo, "cmd")

(* A release is confirmed by a process that runs from it.                  *)
Confirms ==
  /\ Parsed(sel) /\ sel.conf # None => cmd = "link"
  /\ Parsed(bak) /\ bak.conf # None => cmd = "link"
  /\ tx # None =>
       /\ tx.state.conf # None => cmd = "link"
       /\ tx.activating /\ tx.undo # None /\ tx.undo.conf # None => cmd = "link"

(* The way back.  A release is confirmed by the transaction that runs it,  *)
(* and the backup is taken after that.  Until there is a backup, only a    *)
(* damaged selection can have been confirmed, and then as the current one. *)
Starts ==
  tx # None =>
    /\ Has(tx.todo, "confirm") =>
         tx.run = IF Has(tx.todo, "activate") THEN tx.state.pend ELSE tx.state.cur
    /\ \/ Before(tx.todo, "confirm", "bakup")
       \/ tx.state.cur = tx.state.conf /\ ~Has(tx.todo, "activate")

Unbacked ==
  faults <= 1 /\ bak = None =>
    /\ Parsed(sel) /\ sel.conf # None => faults = 1 /\ sel.cur = sel.conf
    /\ tx # None /\ tx.state.conf # None =>
         /\ \/ Parsed(sel) /\ faults = 1 /\ ~Doing("sel")
            \/ /\ tx.state.cur = tx.state.conf /\ ~Has(tx.todo, "activate")
               /\ Doing("sel") => faults = 1
         /\ Has(tx.todo, "activate") => tx.state.cur = tx.state.conf
    /\ tx # None /\ tx.activating /\ tx.undo # None /\ tx.undo.conf # None =>
         faults = 1 /\ tx.undo.cur = tx.undo.conf

Inv == /\ TypeOK /\ Shape /\ Processes /\ Kinds /\ Leases /\ Selects /\ Publishes
       /\ Returns /\ Kept /\ Confirms /\ Starts /\ Unbacked
       /\ InUseKept /\ ReferencedKept /\ WayBack

----------------------------------------------------------------------------
(* Processes.                                                              *)

(* A step of processes alone leaves alone what a transaction relies on.    *)
LEMMA Undisturbed ==
  ASSUME Inv, UNCHANGED <<files, tx, faults>>,
         TypeOK', Processes', Leases', InUseKept',
         tx # None => /\ proc'[tx.proc].exe = proc[tx.proc].exe
                      /\ \/ proc'[tx.proc].at = proc[tx.proc].at
                         \/ proc[tx.proc].at = "run" /\ proc'[tx.proc].at = "asked"
  PROVE  Inv'
<1> USE DEF Inv, files
<1>1. Shape' /\ Confirms' /\ ReferencedKept'
  BY DEF Shape, Confirms, ReferencedKept, Parsed, Present
<1>2. tx # None => /\ Runs' = Runs
                   /\ Kind' = Kind \/ (Kind = "run" /\ Kind' = "asked")
  BY DEF Runs, Kind
<1>3. Kinds'
  BY <1>2 DEF Kinds, Busy
<1>4. Selects' /\ Publishes' /\ Returns' /\ Kept'
  BY <1>2 DEF Selects, Publishes, Returns, Kept, Coming, Doing, Present, Good, Parsed
<1>5. Starts' /\ Unbacked' /\ WayBack'
  BY DEF Starts, Unbacked, WayBack, Doing, Parsed
<1> QED BY <1>1, <1>3, <1>4, <1>5

LEMMA StartKeeps ==
  ASSUME ConstantsAssumption, Inv, NEW p \in Proc, Start(p)
  PROVE  Inv'
<1> USE DEF Inv
<1>1. proc[p].at = "new" /\ UNCHANGED <<files, usage, tx, faults>>
  BY DEF Start
<1>2. PICK at \in {"start", "old"}, exe \in Release \cup {Flat} :
        /\ proc' = [proc EXCEPT ![p] = [at |-> at, exe |-> exe, alone |-> FALSE]]
        /\ exe \in Release => cmd = "link" /\ Present(exe)
        /\ at = "old" => exe = Flat /\ flat
  BY DEF Start, Become, Linked, ReferencedKept, Present
<1>3. TypeOK'
  BY <1>1, <1>2 DEF TypeOK, files
<1>4. tx # None => tx.proc # p
  BY <1>1 DEF Kinds, Kind, Busy
<1>5. Processes'
  BY <1>1, <1>2, <1>4, ConstantsAssumption DEF Processes, TypeOK, files, Busy
<1>6. Leases'
  BY <1>1, <1>2, <1>4, <1>5 DEF Leases, TypeOK, Alive, Kind
<1>7. InUseKept'
  BY <1>1, <1>2, ConstantsAssumption DEF InUseKept, InRoot, Alive, Present, TypeOK, files
<1> QED BY <1>1, <1>2, <1>3, <1>4, <1>5, <1>6, <1>7, Undisturbed DEF TypeOK

LEMMA StartSetupKeeps ==
  ASSUME ConstantsAssumption, Inv, NEW p \in Proc, StartSetup(p)
  PROVE  Inv'
<1> USE DEF Inv
<1>1. /\ proc[p].at = "new" /\ UNCHANGED <<files, usage, tx, faults>>
      /\ proc' = [proc EXCEPT ![p] = [at |-> "start", exe |-> None, alone |-> FALSE]]
  BY DEF StartSetup, Become
<1>2. TypeOK'
  BY <1>1 DEF TypeOK, files
<1>3. tx # None => tx.proc # p
  BY <1>1 DEF Kinds, Kind, Busy
<1>4. Processes'
  BY <1>1, <1>3, ConstantsAssumption DEF Processes, TypeOK, files, Busy
<1>5. Leases'
  BY <1>1, <1>3, <1>4, ConstantsAssumption DEF Leases, TypeOK, Alive, Kind
<1>6. InUseKept'
  BY <1>1, ConstantsAssumption DEF InUseKept, InRoot, Alive, Present, TypeOK, files
<1> QED BY <1>1, <1>2, <1>3, <1>4, <1>5, <1>6, Undisturbed DEF TypeOK

LEMMA LookAroundKeeps ==
  ASSUME ConstantsAssumption, Inv, NEW p \in Proc, LookAround(p)
  PROVE  Inv'
<1>1. proc[p].at = "start" /\ UNCHANGED <<files, usage, tx, faults>>
  BY DEF LookAround
<1>2. PICK alone \in BOOLEAN :
        proc' = [proc EXCEPT ![p].at = "looked", ![p].alone = alone]
  BY DEF LookAround
<1>3. /\ proc'[p].at = "looked" /\ proc'[p].exe = proc[p].exe
      /\ \A q \in Proc \ {p} : proc'[q] = proc[q]
  BY <1>2 DEF Inv, TypeOK
<1>4. TypeOK'
  BY <1>1, <1>2 DEF Inv, TypeOK, files
<1>5. tx # None => tx.proc # p
  BY <1>1 DEF Inv, Kinds, Kind, Busy
<1>6. \A q \in Proc : /\ proc'[q].exe = proc[q].exe
                     /\ \/ proc'[q].at = proc[q].at
                        \/ proc'[q].at = "looked" /\ proc[q].at = "start"
  BY <1>1, <1>3
<1>7. /\ Processes /\ Leases /\ InUseKept /\ UNCHANGED <<files, usage, tx>>
      /\ tx # None => tx.proc \in Proc
      /\ \A u \in usage : u.pid \in Proc
  BY <1>1 DEF Inv, TypeOK, Transaction
<1>8. Processes'
  BY <1>5, <1>6, <1>7 DEF Processes, Busy, files
<1>9. Leases'
  BY <1>3, <1>5, <1>6, <1>7 DEF Leases, Alive, Kind
<1>10. InUseKept'
  BY <1>6, <1>7 DEF InUseKept, InRoot, Alive, Present, files
<1> QED BY <1>1, <1>3, <1>4, <1>5, <1>7, <1>8, <1>9, <1>10, Undisturbed

LEMMA StartBackendKeeps ==
  ASSUME ConstantsAssumption, Inv, NEW p \in Proc, NEW q \in Proc, StartBackend(p, q)
  PROVE  Inv'
<1> USE DEF Inv
<1>1. /\ proc[p].at = "run" /\ proc[q].at = "new" /\ UNCHANGED <<files, usage, tx, faults>>
      /\ proc' = [proc EXCEPT ![q] = [at |-> "backend", exe |-> proc[p].exe,
                                      alone |-> FALSE]]
  BY DEF StartBackend, Become
<1>2. /\ proc'[q].at = "backend" /\ proc'[q].exe = proc[p].exe /\ proc[p].exe \in Release
      /\ \A r \in Proc \ {q} : proc'[r] = proc[r]
      /\ cmd = "link" /\ Present(proc[p].exe)
  BY <1>1 DEF TypeOK, Processes, InUseKept, InRoot, Alive
<1>3. TypeOK'
  BY <1>1 DEF TypeOK, files
<1>4. tx # None => tx.proc # q
  BY <1>1 DEF Kinds, Kind, Busy
<1>5. Processes'
  BY <1>1, <1>2, <1>4 DEF Processes, files, Busy
<1>6. Leases'
  BY <1>1, <1>2, <1>4 DEF Leases, TypeOK, Alive, Kind
<1>7. InUseKept'
  BY <1>1, <1>2 DEF InUseKept, InRoot, Alive, Present, files
<1> QED BY <1>1, <1>2, <1>3, <1>4, <1>5, <1>6, <1>7, Undisturbed DEF TypeOK

LEMMA RetainChildKeeps ==
  ASSUME ConstantsAssumption, Inv, NEW p \in Proc, NEW q \in Proc, RetainChild(p, q)
  PROVE  Inv'
<1> USE DEF Inv
<1>1. /\ proc[q].at = "backend" /\ UNCHANGED <<files, proc, tx, faults>>
      /\ usage' = usage \cup {[pid |-> q, release |-> proc[q].exe]}
  BY DEF RetainChild
<1>2. TypeOK'
  <2>1. proc[q].exe \in Release
    BY <1>1 DEF Processes
  <2> QED BY <1>1, <2>1 DEF TypeOK, files
<1>3. Processes' /\ InUseKept'
  BY <1>1 DEF Processes, InUseKept, InRoot, Alive, Present, files
<1>4. Leases'
  <2>1. \A u \in usage' : u \in usage \/ (u.pid = q /\ u.release = proc[q].exe)
    BY <1>1
  <2>2. \A u \in usage' : proc[u.pid].at \notin {"new", "old"}
    BY <1>1, <2>1 DEF Leases
  <2>3. tx # None => tx.proc # q
    BY <1>1 DEF Kinds, Kind, Busy
  <2>4. \A r \in Proc : r \in Alive /\ proc[r].exe \in Release /\ ~(tx # None /\ tx.proc = r) =>
          \A u \in usage' : u.pid = r => [pid |-> r, release |-> proc[r].exe] \in usage'
    BY <1>1, <2>1 DEF Leases
  <2> QED BY <1>1, <2>2, <2>4 DEF Leases, Alive, Kind
<1> QED BY <1>1, <1>2, <1>3, <1>4, Undisturbed

LEMMA AskRestartKeeps ==
  ASSUME ConstantsAssumption, Inv, NEW p \in Proc, AskRestart(p)
  PROVE  Inv'
<1> USE DEF Inv
<1>1. /\ proc[p].at = "run" /\ UNCHANGED <<files, usage, tx, faults>>
      /\ proc' = [proc EXCEPT ![p] = [at |-> "asked", exe |-> proc[p].exe, alone |-> FALSE]]
  BY DEF AskRestart, Become
<1>2. /\ proc'[p].at = "asked" /\ proc'[p].exe = proc[p].exe
      /\ \A q \in Proc \ {p} : proc'[q] = proc[q]
  BY <1>1 DEF TypeOK
<1>3. TypeOK'
  BY <1>1 DEF TypeOK, files
<1>4. Processes'
  BY <1>1, <1>2 DEF Processes, files, Busy
<1>5. Leases'
  BY <1>1, <1>2 DEF Leases, TypeOK, Alive, Kind
<1>6. InUseKept'
  BY <1>1, <1>2 DEF InUseKept, InRoot, Alive, Present, files
<1> QED BY <1>1, <1>2, <1>3, <1>4, <1>5, <1>6, Undisturbed DEF TypeOK

(* Without a transaction only the processes and the files are constrained. *)
LEMMA Ended ==
  ASSUME Inv, tx' = None, UNCHANGED <<files, faults>>,
         TypeOK', Processes', Leases', InUseKept'
  PROVE  Inv'
<1>1. Shape' /\ Kinds' /\ Selects' /\ Publishes' /\ Returns'
  BY DEF Shape, Kinds, Selects, Publishes, Returns
<1>2. Kept' /\ Confirms' /\ ReferencedKept'
  BY DEF Inv, files, Kept, Confirms, ReferencedKept, Parsed, Present
<1>3. Starts' /\ Unbacked' /\ WayBack'
  BY DEF Inv, files, Starts, Unbacked, WayBack, Parsed
<1> QED BY <1>1, <1>2, <1>3 DEF Inv

LEMMA DieKeeps ==
  ASSUME ConstantsAssumption, Inv, NEW p \in Proc, Die(p)
  PROVE  Inv'
<1>1. /\ p \in Alive /\ UNCHANGED <<files, usage, faults>>
      /\ proc' = [proc EXCEPT ![p] = [at |-> "gone", exe |-> None, alone |-> FALSE]]
      /\ tx' = IF tx # None /\ tx.proc = p THEN None ELSE tx
  BY DEF Die, Become
<1>2. /\ proc'[p].at = "gone" /\ proc'[p].exe = None
      /\ \A q \in Proc \ {p} : proc'[q] = proc[q]
  BY <1>1 DEF Inv, TypeOK
<1>3. TypeOK'
  BY <1>1 DEF Inv, TypeOK, files
<1>4. /\ Processes /\ Leases /\ InUseKept /\ UNCHANGED <<files, usage>>
      /\ None \notin Release
      /\ tx # None => tx.proc \in Proc
      /\ \A u \in usage : u.pid \in Proc
  BY <1>1, ConstantsAssumption DEF Inv, TypeOK, Transaction, ConstantsAssumption
<1>5. InUseKept'
  BY <1>2, <1>4 DEF InUseKept, InRoot, Alive, Present, files
<1>6. CASE tx # None /\ tx.proc = p
  <2>1. tx' = None
    BY <1>1, <1>6
  <2>2. Processes'
    BY <1>2, <1>4, <1>6 DEF Processes, Busy, files
  <2>3. Leases'
    BY <1>2, <1>4, <1>6, <2>1 DEF Leases, Alive
  <2> QED BY <1>1, <1>3, <1>5, <2>1, <2>2, <2>3, Ended
<1>7. CASE ~(tx # None /\ tx.proc = p)
  <2>1. tx' = tx
    BY <1>1, <1>7
  <2>2. Processes'
    BY <1>2, <1>4, <1>7, <2>1 DEF Processes, Busy, files
  <2>3. Leases'
    BY <1>2, <1>4, <1>7, <2>1 DEF Leases, Alive, Kind
  <2> QED BY <1>1, <1>2, <1>3, <1>4, <1>5, <1>7, <2>1, <2>2, <2>3, Undisturbed
<1> QED BY <1>6, <1>7

(* The disk: a damaged release is still there to be told from a deleted    *)
(* one, and a damaged selection counts as a fault.                         *)
LEMMA DamageKeeps ==
  ASSUME ConstantsAssumption, Inv, Damage
  PROVE  Inv'
<1>1. /\ UNCHANGED <<bak, link, cmd, flat, usage, proc, tx>> /\ faults \in Nat
      /\ faults' = faults + 1 /\ faults' # 0 /\ faults' >= 1
  BY DEF Damage, Inv, TypeOK
<1>2. /\ \A r : Present(r) => Present(r)'
      /\ \A r : Good(r)' => Good(r)
      /\ sel' = sel \/ (Parsed(sel) /\ sel' = Bad)
      /\ dirs' \in [Release -> {"none", "good", "rotten", "torn"}]
  <2>1. CASE \E r \in Release : /\ dirs[r] = "good"
                                /\ dirs' = [dirs EXCEPT ![r] = "rotten"]
                                /\ UNCHANGED sel
    BY <2>1 DEF Present, Good, Inv, TypeOK
  <2>2. CASE Parsed(sel) /\ sel' = Bad /\ UNCHANGED dirs
    BY <2>2 DEF Present, Good, Inv, TypeOK
  <2> QED BY <2>1, <2>2 DEF Damage
<1>3. TypeOK'
  BY <1>1, <1>2 DEF Inv, TypeOK
<1>4. Shape' /\ Processes' /\ Kinds' /\ Leases'
  BY <1>1 DEF Inv, Shape, Processes, Kinds, Kind, Runs, Leases, Alive
<1>5. \A r : Coming(r) => Coming(r)'
  BY <1>1, <1>2 DEF Coming, Doing
<1>6. Bad # None
  BY ConstantsAssumption DEF ConstantsAssumption
<1>7. ~Parsed(Bad)
  BY DEF Parsed
<1>8. Selects'
  BY <1>1, <1>2, <1>5, <1>7 DEF Inv, Selects, Kind, Parsed
<1>9. Publishes'
  BY <1>1, <1>2 DEF Inv, Publishes, Kind, Doing
<1>10. Returns'
  BY <1>1, <1>2 DEF Inv, Returns, Kind, Runs
<1>11. Kept'
  BY <1>1, <1>2, <1>6 DEF Inv, Kept, Kind, Doing, Parsed
<1>12. Confirms'
  BY <1>1, <1>2, <1>7 DEF Inv, Confirms, Parsed
<1>13. InUseKept'
  BY <1>1, <1>2 DEF Inv, InUseKept, InRoot, Alive
<1>14. ReferencedKept'
  BY <1>1, <1>2, <1>7 DEF Inv, ReferencedKept, Parsed
<1>15. Starts'
  BY <1>1 DEF Inv, Starts
<1>16. Unbacked'
  <2>1. SUFFICES ASSUME faults = 0, faults' = 1, bak = None
                 PROVE  Unbacked'
    BY <1>1 DEF Unbacked
  <2> QED BY <1>1, <1>2, <1>7, <2>1 DEF Inv, Unbacked, Doing, Parsed
<1>17. WayBack'
  BY <1>1 DEF Inv, WayBack, Parsed
<1> QED BY <1>3, <1>4, <1>8, <1>9, <1>10, <1>11, <1>12, <1>13, <1>14, <1>15, <1>16, <1>17
    DEF Inv

----------------------------------------------------------------------------
(* The start of a transaction.                                             *)

(* What is read names what is on disk, once there is a selection.          *)
LEMMA ReadNames ==
  ASSUME ConstantsAssumption, Inv
  PROVE  /\ Read \in Selection
         /\ Read.cur # None => Present(Read.cur)
         /\ Read.pend # None /\ faults = 0 => Present(Read.pend)
         /\ Read.conf # None => cmd = "link"
         /\ Parsed(sel) => Read = sel
         /\ Recovered => sel # None
         /\ sel = None => Read = Nothing
         /\ bak = None /\ Read.conf # None => Parsed(sel)
<1>1. /\ sel \in Selection \cup {None, Bad} /\ bak \in Selection \cup {None}
      /\ Nothing \in Selection /\ Nothing.cur = None /\ Nothing.pend = None
      /\ Nothing.conf = None
  BY DEF Inv, TypeOK, Nothing, Selection
<1>2. CASE Parsed(sel)
  BY <1>1, <1>2 DEF Parsed, Read, Recovered, Inv, ReferencedKept, Confirms
<1>3. CASE ~Parsed(sel) /\ Parsed(bak)
  <2>1. sel = Bad /\ sel # None /\ faults >= 1
    BY <1>1, <1>3 DEF Parsed, Inv, Kept
  <2> QED BY <1>1, <1>3, <2>1 DEF Parsed, Read, Recovered, Inv, ReferencedKept, Confirms
<1>4. CASE ~Parsed(sel) /\ ~Parsed(bak)
  BY <1>1, <1>4 DEF Read, Recovered
<1>5. ASSUME bak = None
      PROVE  ~Parsed(bak)
  BY <1>5 DEF Parsed
<1> QED BY <1>2, <1>3, <1>4, <1>5

(* What a transaction of this kind may start with.                         *)
Fits(p, kind, todo, state, run, other) ==
  /\ kind \in {"staging", "restart", "quit", "run"} => proc[p].exe \in Release
  /\ kind \in {"staging", "run"} => proc[p].at = "run"
  /\ kind = "launch" => proc[p].exe # None
  /\ Shaped(todo) /\ (kind = "setup" => Distinct(todo)) /\ Head(todo) \notin {"cmd", "sel"}
  /\ kind \in {"run", "quit"} => \A x \in Step \ {"prune"} : ~Has(todo, x)
  /\ Has(todo, "lease") <=> kind \in {"launch", "restart"}
  /\ Has(todo, "lease") => /\ run \in Release
                           /\ Present(run) \/ Head(todo) = "stage"
                           /\ cmd = "link" \/ Has(todo, "cmd")
  /\ Has(todo, "confirm") \/ Has(todo, "bakup") => kind = "launch"
  /\ Has(todo, "confirm") \/ Has(todo, "bakup") => proc[p].exe \in Release
  /\ Has(todo, "stage") => run \in Release /\ ~(kind = "launch" /\ Has(todo, "activate"))
  /\ Has(todo, "activate") =>
       /\ kind \in {"launch", "restart", "setup"} /\ state.pend # None
       /\ Present(state.pend) \/ (Head(todo) = "stage" /\ state.pend = run)
       /\ kind # "setup" => sel # None
       /\ kind = "launch" =>
            other = state.cur \/ (other = proc[p].exe /\ proc[p].exe \in Release)
  /\ state.cur # None => Present(state.cur) \/ (Head(todo) = "stage" /\ state.cur = run)
  /\ state.pend # None /\ faults = 0 =>
       Present(state.pend) \/ (Head(todo) = "stage" /\ state.pend = run)
  /\ state.conf # None => cmd = "link"
  /\ Has(todo, "sel") \/ ~Parsed(sel) \/ sel = state
  /\ state.cur # None \/ Before(todo, "activate", "link")
  /\ kind = "launch" /\ Good(state.cur) => cmd = "link" \/ Before(todo, "cmd", "activate")
  /\ sel # None \/ Before(todo, "sel", "cmd")
  /\ Has(todo, "confirm") =>
       run = IF Has(todo, "activate") THEN state.pend ELSE state.cur
  /\ Before(todo, "confirm", "bakup")
  /\ bak = None /\ state.conf # None =>
       Parsed(sel) /\ sel.conf = state.conf /\ (Has(todo, "activate") => state.cur = sel.cur)

(* A transaction starts with the lock free; p goes on to wait for its end. *)
LEMMA Begun ==
  ASSUME ConstantsAssumption, Inv, NEW p \in Proc, NEW kind \in Busy \cup {"run"},
         NEW todo \in Seq(Step), NEW state \in Selection,
         NEW run \in Release \cup {None}, NEW other \in Release \cup {None},
         todo # <<>>, Fits(p, kind, todo, state, run, other),
         Begin(p, todo, state, run, other), UNCHANGED <<files, faults>>,
         proc[p].at \in {"looked", "run", "asked"},
         \/ kind = "run" /\ proc' = proc /\ proc[p].at = "run"
         \/ kind \in Busy /\ Become(p, kind, proc[p].exe),
         \/ usage' = usage
         \/ kind = "quit" /\ usage' = usage \ {[pid |-> p, release |-> proc[p].exe]}
  PROVE  Inv'
<1>1. /\ tx = None
      /\ tx' = [proc |-> p, todo |-> todo, state |-> state, run |-> run,
                undo |-> None, activating |-> FALSE, other |-> other]
  BY DEF Begin
<1>2. /\ tx' \in Transaction /\ tx' # None /\ tx'.proc = p /\ tx'.todo = todo
      /\ tx'.state = state /\ tx'.run = run /\ tx'.other = other /\ ~tx'.activating
  <2>1. tx' \in Transaction
    BY <1>1 DEF Transaction
  <2> QED BY <1>1, <2>1, ConstantsAssumption DEF ConstantsAssumption
<1>3. /\ proc'[p].at = kind /\ proc'[p].exe = proc[p].exe
      /\ \A q \in Proc : q # p => proc'[q] = proc[q]
      /\ proc' \in [Proc -> [at : {"new", "start", "looked", "old", "run", "asked", "launch",
                                   "staging", "setup", "restart", "quit", "backend", "gone"},
                             exe : Release \cup {Flat, None}, alone : BOOLEAN]]
  <2>1. CASE kind = "run"
    BY <2>1 DEF Busy, Inv, TypeOK
  <2>2. CASE kind \in Busy
    <3>1. proc' = [proc EXCEPT ![p] = [at |-> kind, exe |-> proc[p].exe, alone |-> FALSE]]
      BY <2>2 DEF Become, Busy
    <3>2. /\ proc \in [Proc -> [at : {"new", "start", "looked", "old", "run", "asked", "launch",
                                    "staging", "setup", "restart", "quit", "backend", "gone"},
                              exe : Release \cup {Flat, None}, alone : BOOLEAN]]
          /\ kind \in {"launch", "restart", "staging", "setup", "quit"}
      BY <2>2 DEF Inv, TypeOK, Busy
    <3> QED BY <3>1, <3>2
  <2> QED BY <2>1, <2>2
<1>4. /\ UNCHANGED <<sel, bak, dirs, link, cmd, flat, faults>> /\ usage' \subseteq usage
      /\ \A u \in usage : u.pid \in Proc
  BY DEF files, Inv, TypeOK
<1>5. TypeOK'
  BY <1>2, <1>3, <1>4 DEF Inv, TypeOK
<1>6. Kind' = kind /\ Runs' = proc[p].exe
  BY <1>2, <1>3 DEF Kind, Runs
<1>7. Shape'
  BY <1>2 DEF Shape, Fits
<1>8. Processes'
  BY <1>1, <1>2, <1>3, <1>4 DEF Inv, Processes, Busy, Fits
<1>9. Kinds'
  BY <1>2, <1>4, <1>6 DEF Kinds, Busy, Fits
<1>10. Leases'
  <2>1. \A u \in usage' : proc'[u.pid].at \notin {"new", "old"}
    BY <1>3, <1>4 DEF Inv, Leases, Busy
  <2>2. ASSUME NEW q \in Proc, q # p
        PROVE  /\ proc'[q].at \in {"run", "asked", "staging"} =>
                    [pid |-> q, release |-> proc'[q].exe] \in usage'
               /\ q \in Alive' /\ proc'[q].exe \in Release =>
                    \A u \in usage' : u.pid = q =>
                      [pid |-> q, release |-> proc'[q].exe] \in usage'
    <3>1. proc'[q] = proc[q]
      BY <1>3, <2>2
    <3>2. ASSUME [pid |-> q, release |-> proc[q].exe] \in usage
          PROVE  [pid |-> q, release |-> proc[q].exe] \in usage'
      BY <2>2, <3>2
    <3> QED BY <1>1, <1>4, <3>1, <3>2 DEF Inv, Leases, Alive
  <2>3. kind \in {"run", "asked", "staging"} =>
          [pid |-> p, release |-> proc[p].exe] \in usage'
    <3>1. kind \in {"run", "asked", "staging"} => proc[p].at = "run" /\ usage' = usage
      BY DEF Fits, Busy
    <3>2. proc[p].at = "run" => [pid |-> p, release |-> proc[p].exe] \in usage
      BY DEF Inv, Leases
    <3> QED BY <3>1, <3>2
  <2>4. /\ kind \in {"launch", "restart"} => Has(tx'.todo, "lease")
        /\ tx' # None /\ tx'.proc = p
    BY <1>2 DEF Fits
  <2>5. \A q \in Proc :
          /\ proc'[q].at \in {"run", "asked", "staging"} =>
               [pid |-> q, release |-> proc'[q].exe] \in usage'
          /\ q \in Alive' /\ proc'[q].exe \in Release /\ ~(tx' # None /\ tx'.proc = q) =>
               \A u \in usage' : u.pid = q => [pid |-> q, release |-> proc'[q].exe] \in usage'
    BY <1>3, <2>2, <2>3, <2>4
  <2> QED BY <1>6, <2>1, <2>4, <2>5 DEF Leases
<1>11. Selects'
  BY <1>2, <1>4, <1>6 DEF Selects, Parsed, Coming, Doing, Present, Fits
<1>12. Publishes'
  BY <1>2, <1>4, <1>6 DEF Publishes, Doing, Good, Fits
<1>13. Returns' /\ Kept' /\ Confirms'
  BY <1>1, <1>2, <1>4, <1>6 DEF Inv, Returns, Kept, Confirms, Parsed, Fits
<1>14. InUseKept'
  BY <1>3, <1>4 DEF Inv, InUseKept, InRoot, Alive, Present, Busy, Fits
<1>15. ReferencedKept'
  BY <1>4 DEF Inv, ReferencedKept, Parsed, Present
<1>16. Starts'
  BY <1>2 DEF Starts, Fits
<1>17. Unbacked' /\ WayBack'
  BY <1>2, <1>4 DEF Inv, Unbacked, WayBack, Fits, Doing, Parsed
<1> QED BY <1>5, <1>7, <1>8, <1>9, <1>10, <1>11, <1>12, <1>13, <1>14, <1>15, <1>16, <1>17
    DEF Inv

(* The programs of the transactions.                                       *)
LEMMA StagingProgram ==
  ASSUME NEW T
  PROVE  T = <<"stage">> \o Write \o <<"prune">> =>
         /\ T \in Seq(Step) /\ T # <<>> /\ Head(T) = "stage" /\ Shaped(T) /\ Distinct(T)
         /\ Has(T, "sel") /\ Has(T, "stage")
         /\ \A x \in Step \ {"stage", "bak", "sel", "prune"} :
              ~Has(T, x) /\ \A y : Before(T, y, x)
<1> DEFINE Listed ==
      /\ T \in Seq(Step) /\ T # <<>> /\ Len(T) = 4 /\ DOMAIN T = 1 .. 4 /\ Head(T) = "stage"
      /\ T[1] = "stage" /\ T[2] = "bak" /\ T[3] = "sel" /\ T[4] = "prune"
<1>1. T = <<"stage">> \o Write \o <<"prune">> => Listed
  BY DEF Step, Write
<1>2. ASSUME Listed
      PROVE  /\ Then(T, "activate", "bak") /\ Then(T, "confirm", "bak")
             /\ Then(T, "bak", "sel") /\ Then(T, "link", "cmd")
  BY <1>2 DEF Then
<1>3. Listed => Shaped(T)
  BY <1>2 DEF Shaped
<1>4. ASSUME Listed
      PROVE  /\ T \in Seq(Step) /\ T # <<>> /\ Head(T) = "stage" /\ Shaped(T) /\ Distinct(T)
             /\ Has(T, "sel") /\ Has(T, "stage")
             /\ \A x \in Step \ {"stage", "bak", "sel", "prune"} :
                  ~Has(T, x) /\ \A y : Before(T, y, x)
  BY <1>3, <1>4 DEF Has, Before, Distinct, Step
<1> QED BY <1>1, <1>4

LEMMA FlatProgram ==
  ASSUME NEW T
  PROVE  T = <<"stage">> \o Write \o Publish \o <<"lease", "prune">> =>
         /\ T \in Seq(Step) /\ T # <<>> /\ Head(T) = "stage" /\ Shaped(T)
         /\ Has(T, "sel") /\ Has(T, "stage") /\ Has(T, "cmd") /\ Has(T, "lease")
         /\ Before(T, "sel", "cmd")
         /\ \A x \in {"activate", "confirm", "bakup"} :
              ~Has(T, x) /\ \A y : Before(T, y, x)
<1> DEFINE Listed ==
      /\ T \in Seq(Step) /\ T # <<>> /\ Len(T) = 7 /\ DOMAIN T = 1 .. 7 /\ Head(T) = "stage"
      /\ T[1] = "stage" /\ T[2] = "bak" /\ T[3] = "sel" /\ T[4] = "link"
      /\ T[5] = "cmd" /\ T[6] = "lease" /\ T[7] = "prune"
<1>1. T = <<"stage">> \o Write \o Publish \o <<"lease", "prune">> => Listed
  BY DEF Step, Write, Publish
<1>2. ASSUME Listed
      PROVE  /\ Then(T, "activate", "bak") /\ Then(T, "confirm", "bak")
             /\ Then(T, "bak", "sel") /\ Then(T, "link", "cmd")
  BY <1>2 DEF Then
<1>3. Listed => Shaped(T)
  BY <1>2 DEF Shaped
<1>4. ASSUME Listed
      PROVE  /\ T \in Seq(Step) /\ T # <<>> /\ Head(T) = "stage" /\ Shaped(T)
             /\ Has(T, "sel") /\ Has(T, "stage") /\ Has(T, "cmd") /\ Has(T, "lease")
             /\ Before(T, "sel", "cmd")
             /\ \A x \in {"activate", "confirm", "bakup"} :
                  ~Has(T, x) /\ \A y : Before(T, y, x)
  BY <1>3, <1>4 DEF Has, Before, Distinct, Step
<1> QED BY <1>1, <1>4

LEMMA BackupProgram ==
  ASSUME NEW T
  PROVE  T = Write \o Publish \o <<"lease">> =>
         /\ T \in Seq(Step) /\ T # <<>> /\ Head(T) = "bak" /\ Shaped(T)
         /\ Has(T, "sel") /\ Has(T, "cmd") /\ Has(T, "lease") /\ Before(T, "sel", "cmd")
         /\ \A x \in {"stage", "activate", "confirm", "bakup"} :
              ~Has(T, x) /\ \A y : Before(T, y, x)
<1> DEFINE Listed ==
      /\ T \in Seq(Step) /\ T # <<>> /\ Len(T) = 5 /\ DOMAIN T = 1 .. 5 /\ Head(T) = "bak"
      /\ T[1] = "bak" /\ T[2] = "sel" /\ T[3] = "link" /\ T[4] = "cmd"
      /\ T[5] = "lease"
<1>1. T = Write \o Publish \o <<"lease">> => Listed
  BY DEF Step, Write, Publish
<1>2. ASSUME Listed
      PROVE  /\ Then(T, "activate", "bak") /\ Then(T, "confirm", "bak")
             /\ Then(T, "bak", "sel") /\ Then(T, "link", "cmd")
  BY <1>2 DEF Then
<1>3. Listed => Shaped(T)
  BY <1>2 DEF Shaped
<1>4. ASSUME Listed
      PROVE  /\ T \in Seq(Step) /\ T # <<>> /\ Head(T) = "bak" /\ Shaped(T)
             /\ Has(T, "sel") /\ Has(T, "cmd") /\ Has(T, "lease") /\ Before(T, "sel", "cmd")
             /\ \A x \in {"stage", "activate", "confirm", "bakup"} :
                  ~Has(T, x) /\ \A y : Before(T, y, x)
  BY <1>3, <1>4 DEF Has, Before, Distinct, Step
<1> QED BY <1>1, <1>4

LEMMA InstallProgram ==
  ASSUME NEW T
  PROVE  T = <<"stage">> \o Activate \o <<"prune">> =>
         /\ T \in Seq(Step) /\ T # <<>> /\ Head(T) = "stage" /\ Shaped(T) /\ Distinct(T)
         /\ Has(T, "sel") /\ Has(T, "stage") /\ Has(T, "activate")
         /\ Before(T, "activate", "link") /\ Before(T, "sel", "cmd")
         /\ \A x \in {"lease", "confirm", "bakup"} : ~Has(T, x)
<1> DEFINE Listed ==
      /\ T \in Seq(Step) /\ T # <<>> /\ Len(T) = 8 /\ DOMAIN T = 1 .. 8 /\ Head(T) = "stage"
      /\ T[1] = "stage" /\ T[2] = "activate" /\ T[3] = "bak" /\ T[4] = "sel"
      /\ T[5] = "link" /\ T[6] = "cmd" /\ T[7] = "active" /\ T[8] = "prune"
<1>1. T = <<"stage">> \o Activate \o <<"prune">> => Listed
  BY DEF Step, Activate, Write, Publish
<1>2. ASSUME Listed
      PROVE  /\ Then(T, "activate", "bak") /\ Then(T, "confirm", "bak")
             /\ Then(T, "bak", "sel") /\ Then(T, "link", "cmd")
  BY <1>2 DEF Then
<1>3. Listed => Shaped(T)
  BY <1>2 DEF Shaped
<1>4. ASSUME Listed
      PROVE  /\ T \in Seq(Step) /\ T # <<>> /\ Head(T) = "stage" /\ Shaped(T) /\ Distinct(T)
             /\ Has(T, "sel") /\ Has(T, "stage") /\ Has(T, "activate")
             /\ Before(T, "activate", "link") /\ Before(T, "sel", "cmd")
             /\ \A x \in {"lease", "confirm", "bakup"} : ~Has(T, x)
  BY <1>3, <1>4 DEF Has, Before, Distinct, Step
<1> QED BY <1>1, <1>4

LEMMA RestartProgram ==
  ASSUME NEW T
  PROVE  T = Activate \o <<"lease">> =>
         /\ T \in Seq(Step) /\ T # <<>> /\ Head(T) = "activate" /\ Shaped(T)
         /\ Has(T, "sel") /\ Has(T, "activate") /\ Has(T, "lease")
         /\ Before(T, "activate", "link") /\ Before(T, "sel", "cmd")
         /\ \A x \in {"stage", "confirm", "bakup"} : ~Has(T, x)
<1> DEFINE Listed ==
      /\ T \in Seq(Step) /\ T # <<>> /\ Len(T) = 7 /\ DOMAIN T = 1 .. 7 /\ Head(T) = "activate"
      /\ T[1] = "activate" /\ T[2] = "bak" /\ T[3] = "sel" /\ T[4] = "link"
      /\ T[5] = "cmd" /\ T[6] = "active" /\ T[7] = "lease"
<1>1. T = Activate \o <<"lease">> => Listed
  BY DEF Step, Activate, Write, Publish
<1>2. ASSUME Listed
      PROVE  /\ Then(T, "activate", "bak") /\ Then(T, "confirm", "bak")
             /\ Then(T, "bak", "sel") /\ Then(T, "link", "cmd")
  BY <1>2 DEF Then
<1>3. Listed => Shaped(T)
  BY <1>2 DEF Shaped
<1>4. ASSUME Listed
      PROVE  /\ T \in Seq(Step) /\ T # <<>> /\ Head(T) = "activate" /\ Shaped(T)
             /\ Has(T, "sel") /\ Has(T, "activate") /\ Has(T, "lease")
             /\ Before(T, "activate", "link") /\ Before(T, "sel", "cmd")
             /\ \A x \in {"stage", "confirm", "bakup"} : ~Has(T, x)
  BY <1>3, <1>4 DEF Has, Before, Distinct, Step
<1> QED BY <1>1, <1>4

LEMMA SingleProgram ==
  ASSUME NEW x \in Step \ {"cmd"}, NEW T, T = <<x>>
  PROVE  /\ T \in Seq(Step) /\ T # <<>> /\ Head(T) = x /\ Has(T, x)
         /\ x \in {"prune", "lease"} => Shaped(T)
         /\ \A z \in Step \ {x} : ~Has(T, z) /\ \A y : Before(T, y, z)
BY DEF Step, Shaped, Then, Has, Before

(* What a directory is staged as is a release.                             *)
LEMMA StageOnlyKeeps ==
  ASSUME ConstantsAssumption, Inv, NEW p \in Proc, StageOnly(p),
         NEW kind \in {"staging", "setup"}, Become(p, kind, proc[p].exe),
         kind = "staging" => proc[p].at = "run",
         kind = "setup" => proc[p].at = "looked" /\ proc[p].exe = None /\ sel # None,
         UNCHANGED <<files, usage, faults>>
  PROVE  Inv'
<1> DEFINE T == <<"stage">> \o Write \o <<"prune">>
<1>1. PICK q \in Release : Begin(p, T, [Read EXCEPT !.pend = q], q, None)
  BY DEF StageOnly, StagedAs
<1>2. /\ T \in Seq(Step) /\ T # <<>> /\ Head(T) = "stage" /\ Shaped(T) /\ Distinct(T)
      /\ Has(T, "sel")
      /\ \A x \in Step \ {"stage", "bak", "sel", "prune"} :
           ~Has(T, x) /\ \A y : Before(T, y, x)
  BY StagingProgram
<1> HIDE DEF T
<1> DEFINE s == [Read EXCEPT !.pend = q]
<1>3. /\ s \in Selection /\ s.cur = Read.cur /\ s.pend = q /\ s.conf = Read.conf
  BY ReadNames DEF Selection
<1> HIDE DEF s
<1>4. kind = "staging" => proc[p].exe \in Release
  BY DEF Inv, Processes
<1>5. Fits(p, kind, T, s, q, None)
  BY <1>2, <1>3, <1>4, ReadNames DEF Fits, Step
<1> QED BY <1>1, <1>2, <1>3, <1>5, Begun DEF s, Busy

LEMMA StageKeeps ==
  ASSUME ConstantsAssumption, Inv, NEW p \in Proc, Stage(p)
  PROVE  Inv'
BY StageOnlyKeeps DEF Stage

LEMMA InstallKeeps ==
  ASSUME ConstantsAssumption, Inv, NEW p \in Proc, Install(p)
  PROVE  Inv'
<1>1. /\ proc[p].at = "looked" /\ proc[p].exe = None /\ Become(p, "setup", proc[p].exe)
      /\ UNCHANGED <<files, usage, faults>>
  BY DEF Install
<1>2. CASE sel # None /\ StageOnly(p)
  BY <1>1, <1>2, StageOnlyKeeps
<1>3. CASE ~(sel # None /\ StageOnly(p))
  <2> DEFINE T == <<"stage">> \o Activate \o <<"prune">>
             r == IF Readable THEN Read ELSE Nothing
  <2>1. PICK q \in Release : Begin(p, T, [r EXCEPT !.pend = q], q, None)
    BY <1>3 DEF Install, StagedAs
  <2>2. /\ T \in Seq(Step) /\ T # <<>> /\ Head(T) = "stage" /\ Shaped(T) /\ Distinct(T)
        /\ Has(T, "sel") /\ Has(T, "stage") /\ Has(T, "activate")
        /\ Before(T, "activate", "link") /\ Before(T, "sel", "cmd")
        /\ \A x \in {"lease", "confirm", "bakup"} : ~Has(T, x)
    BY InstallProgram
  <2> HIDE DEF T
  <2> DEFINE s == [r EXCEPT !.pend = q]
  <2>3. /\ r \in Selection /\ (r.cur # None => Present(r.cur))
        /\ r.conf # None => cmd = "link"
    BY ReadNames DEF Nothing, Selection
  <2> HIDE DEF r
  <2>4. s \in Selection /\ s.cur = r.cur /\ s.pend = q /\ s.conf = r.conf
    BY <2>3 DEF Selection
  <2> HIDE DEF s
  <2>5. q # None
    BY ConstantsAssumption DEF ConstantsAssumption
  <2>6. Before(T, "confirm", "bakup")
    BY <2>2, Vacuous
  <2>7. bak = None /\ r.conf # None => Parsed(sel) /\ sel = r
    BY ReadNames DEF r, Nothing
  <2>8. Fits(p, "setup", T, s, q, None)
    BY <2>2, <2>3, <2>4, <2>5, <2>6, <2>7 DEF Fits, Step
  <2> QED BY <1>1, <2>1, <2>2, <2>4, <2>8, Begun DEF s, Busy
<1> QED BY <1>2, <1>3

LEMMA RestartIntoKeeps ==
  ASSUME ConstantsAssumption, Inv, NEW p \in Proc, RestartInto(p)
  PROVE  Inv'
<1> DEFINE next == IF Read.pend = None THEN Read ELSE Activated(Read)
           T == (IF Read.pend = None THEN <<>> ELSE Activate) \o <<"lease">>
<1>1. /\ proc[p].at = "asked" /\ Good(next.cur)
      /\ Begin(p, T, Read, next.cur, None) /\ Become(p, "restart", proc[p].exe)
      /\ UNCHANGED <<files, usage, faults>>
  BY DEF RestartInto
<1>2. /\ T \in Seq(Step) /\ T # <<>> /\ Head(T) \notin {"stage", "cmd", "sel"} /\ Shaped(T)
      /\ Has(T, "lease") /\ Before(T, "activate", "link") /\ Before(T, "sel", "cmd")
      /\ \A x \in {"stage", "confirm", "bakup"} : ~Has(T, x)
      /\ IF Read.pend = None THEN ~Has(T, "activate")
         ELSE Has(T, "activate") /\ Has(T, "sel")
  <2>1. CASE Read.pend # None
    BY <2>1, RestartProgram
  <2>2. CASE Read.pend = None
    <3>1. T = <<"lease">>
      BY <2>2
    <3> QED BY <2>2, <3>1, SingleProgram DEF Step
  <2> QED BY <2>1, <2>2
<1> HIDE DEF T
<1>3. proc[p].exe \in Release /\ cmd = "link" /\ sel # None
  BY <1>1 DEF Inv, Processes, Kept
<1>4. next.cur \in Release /\ Present(next.cur)
      /\ (Read.pend # None => next.cur = Read.pend)
  BY <1>1, ReadNames DEF Activated, Good, Present, Selection
<1>5. Fits(p, "restart", T, Read, next.cur, None)
  <2>1. Has(T, "sel") \/ ~Parsed(sel) \/ sel = Read
    BY ReadNames
  <2>2. Before(T, "confirm", "bakup")
    BY <1>2, Vacuous
  <2> HIDE DEF next
  <2> QED BY <1>2, <1>3, <1>4, <2>1, <2>2, ReadNames DEF Fits
<1> HIDE DEF next
<1> QED BY <1>1, <1>2, <1>4, <1>5, ReadNames, Begun DEF Busy

LEMMA CleanupKeeps ==
  ASSUME ConstantsAssumption, Inv, NEW p \in Proc, Cleanup(p) \/ Quit(p)
  PROVE  Inv'
<1> DEFINE T == <<"prune">>
<1>1. /\ proc[p].at = "run" /\ Begin(p, T, Read, None, None) /\ UNCHANGED <<files, faults>>
      /\ \/ UNCHANGED proc /\ usage' = usage
         \/ /\ Become(p, "quit", proc[p].exe)
            /\ usage' = usage \ {[pid |-> p, release |-> proc[p].exe]}
  BY DEF Cleanup, Quit
<1>2. /\ T \in Seq(Step) /\ T # <<>> /\ Head(T) = "prune" /\ Shaped(T)
      /\ \A z \in Step \ {"prune"} : ~Has(T, z) /\ \A y : Before(T, y, z)
  BY SingleProgram DEF Step
<1> HIDE DEF T
<1>3. proc[p].exe \in Release /\ cmd = "link" /\ sel # None
  BY <1>1 DEF Inv, Processes, Kept
<1>4. ASSUME NEW kind \in {"run", "quit"}
      PROVE  Fits(p, kind, T, Read, None, None)
  BY <1>1, <1>2, <1>3, ReadNames DEF Fits, Step
<1> QED BY <1>1, <1>2, <1>4, ReadNames, Begun DEF Busy

(* Two programs one after the other.                                       *)
LEMMA Joined ==
  ASSUME NEW S \in Seq(Step), NEW T \in Seq(Step), Shaped(S), Shaped(T),
         ~Has(S, "prune"), ~Has(T, "stage"),
         T # <<>> => Head(T) \notin {"cmd", "sel"},
         Has(T, "activate") => \A x \in {"activate", "active", "confirm"} : ~Has(S, x)
  PROVE  /\ S \o T \in Seq(Step) /\ Shaped(S \o T)
         /\ \A x : Has(S \o T, x) <=> Has(S, x) \/ Has(T, x)
         /\ \A x, y : Before(S, x, y) /\ (Has(S, x) \/ Before(T, x, y)) => Before(S \o T, x, y)
         /\ S # <<>> => S \o T # <<>> /\ Head(S \o T) = Head(S)
         /\ S = <<>> => S \o T = T
<1> DEFINE U == S \o T
           m == Len(S)
           n == Len(T)
<1>1. /\ m \in Nat /\ n \in Nat /\ DOMAIN S = 1 .. m /\ DOMAIN T = 1 .. n
      /\ U \in Seq(Step) /\ Len(U) = m + n /\ DOMAIN U = 1 .. m + n
      /\ \A i \in 1 .. m : U[i] = S[i]
      /\ \A i \in 1 .. n : U[m + i] = T[i]
  OBVIOUS
<1>2. /\ S # <<>> => U # <<>> /\ Head(U) = Head(S)
      /\ S = <<>> => U = T
      /\ T # <<>> => Head(T) = T[1]
  OBVIOUS
<1> HIDE DEF U, m, n
<1>3. \A k \in 1 .. m + n :
        \/ k \in 1 .. m /\ U[k] = S[k]
        \/ k - m \in 1 .. n /\ U[k] = T[k - m]
  <2>1. \A k \in 1 .. m + n : k \in 1 .. m \/ (k - m \in 1 .. n /\ m + (k - m) = k)
    BY <1>1
  <2>2. ASSUME NEW k \in 1 .. m + n
        PROVE  \/ k \in 1 .. m /\ U[k] = S[k]
               \/ k - m \in 1 .. n /\ U[k] = T[k - m]
    <3>1. CASE k \in 1 .. m
      BY <1>1, <3>1
    <3>2. CASE k - m \in 1 .. n /\ m + (k - m) = k
      <4>1. U[m + (k - m)] = T[k - m]
        BY <1>1, <3>2
      <4> QED BY <3>2, <4>1
    <3> QED BY <2>1, <3>1, <3>2
  <2> QED BY <2>2
<1>4. /\ \A i \in 1 .. m : i \in 1 .. m + n
      /\ \A i \in 1 .. n : m + i \in 1 .. m + n
  BY <1>1
<1>5. ASSUME NEW x
      PROVE  Has(U, x) <=> Has(S, x) \/ Has(T, x)
  <2>1. ASSUME Has(U, x)
        PROVE  Has(S, x) \/ Has(T, x)
    <3>1. PICK k \in 1 .. m + n : U[k] = x
      BY <1>1, <2>1 DEF Has
    <3>2. CASE k \in 1 .. m /\ U[k] = S[k]
      BY <1>1, <3>1, <3>2 DEF Has
    <3>3. CASE k - m \in 1 .. n /\ U[k] = T[k - m]
      BY <1>1, <3>1, <3>3 DEF Has
    <3> QED BY <1>3, <3>2, <3>3
  <2>2. Has(S, x) => Has(U, x)
    BY <1>1, <1>4 DEF Has
  <2>3. Has(T, x) => Has(U, x)
    BY <1>1, <1>4 DEF Has
  <2> QED BY <2>1, <2>2, <2>3
<1>6. ASSUME NEW x, NEW y, Before(S, x, y), Has(S, x) \/ Before(T, x, y)
      PROVE  Before(U, x, y)
  <2>1. SUFFICES ASSUME NEW k \in 1 .. m + n, U[k] = y
                 PROVE  \E i \in 1 .. m + n : i < k /\ U[i] = x
    BY <1>1 DEF Before
  <2>2. CASE k \in 1 .. m /\ U[k] = S[k]
    <3>1. PICK i \in 1 .. m : i < k /\ S[i] = x
      BY <1>1, <1>6, <2>1, <2>2 DEF Before
    <3> QED BY <1>1, <1>4, <3>1
  <2>3. CASE k - m \in 1 .. n /\ U[k] = T[k - m]
    <3>1. CASE Has(S, x)
      <4>1. PICK i \in 1 .. m : S[i] = x
        BY <1>1, <3>1 DEF Has
      <4>2. i < k
        BY <1>1, <2>3, <4>1
      <4> QED BY <1>1, <1>4, <4>1, <4>2
    <3>2. CASE Before(T, x, y)
      <4>1. PICK i \in 1 .. n : i < k - m /\ T[i] = x
        BY <1>1, <2>1, <2>3, <3>2 DEF Before
      <4>2. m + i < k
        BY <1>1, <2>3, <4>1
      <4> QED BY <1>1, <1>4, <4>1, <4>2
    <3> QED BY <1>6, <3>1, <3>2
  <2> QED BY <1>3, <2>2, <2>3
<1>7. ASSUME NEW x, NEW y, Then(S, x, y), Then(T, x, y)
      PROVE  Then(U, x, y)
  <2>1. SUFFICES ASSUME NEW k \in 1 .. m + n, U[k] = x
                 PROVE  k + 1 \in 1 .. m + n /\ U[k + 1] = y
    BY <1>1 DEF Then
  <2>2. CASE k \in 1 .. m /\ U[k] = S[k]
    <3>1. k + 1 \in 1 .. m /\ S[k + 1] = y
      BY <1>1, <1>7, <2>1, <2>2 DEF Then
    <3> QED BY <1>1, <1>4, <3>1
  <2>3. CASE k - m \in 1 .. n /\ U[k] = T[k - m]
    <3>1. (k - m) + 1 \in 1 .. n /\ T[(k - m) + 1] = y
      BY <1>1, <1>7, <2>1, <2>3 DEF Then
    <3>2. m + ((k - m) + 1) = k + 1
      BY <1>1, <2>1
    <3> QED BY <1>1, <1>4, <3>1, <3>2
  <2> QED BY <1>3, <2>2, <2>3
<1>8. Shaped(U)
  <2>1. Then(U, "activate", "bak") /\ Then(U, "confirm", "bak")
        /\ Then(U, "bak", "sel") /\ Then(U, "link", "cmd")
    BY <1>7 DEF Shaped
  <2>2. ASSUME NEW k \in 1 .. m + n
        PROVE  /\ U[k] = "stage" => k = 1
               /\ U[k] = "prune" => k = m + n
               /\ U[k] = "cmd" /\ k > 1 => U[k - 1] = "link"
               /\ U[k] = "sel" /\ k > 1 => U[k - 1] = "bak"
               /\ U[k] = "activate" => \E j \in 1 .. m + n : k < j /\ U[j] = "active"
               /\ U[k] \in {"activate", "active", "confirm"} =>
                    \A j \in 1 .. m + n : U[j] = "activate" => j <= k
    <3>1. CASE k \in 1 .. m /\ U[k] = S[k]
      <4>1. /\ S[k] = "stage" => k = 1
            /\ S[k] # "prune"
            /\ S[k] = "cmd" /\ k > 1 => S[k - 1] = "link"
            /\ S[k] = "sel" /\ k > 1 => S[k - 1] = "bak"
            /\ S[k] = "activate" => \E j \in 1 .. m : k < j /\ S[j] = "active"
            /\ S[k] \in {"activate", "active", "confirm"} =>
                 \A j \in 1 .. m : S[j] = "activate" => j <= k
        BY <1>1, <3>1 DEF Shaped, Has
      <4>2. k > 1 => k - 1 \in 1 .. m
        BY <1>1, <3>1
      <4>3. S[k] \in {"activate", "active", "confirm"} => \A j \in 1 .. n : T[j] # "activate"
        BY <1>1, <3>1 DEF Has
      <4>4. S[k] \in {"activate", "active", "confirm"} =>
              \A j \in 1 .. m + n : U[j] = "activate" => j <= k
        BY <1>3, <4>1, <4>3
      <4> QED BY <1>1, <1>4, <3>1, <4>1, <4>2, <4>4
    <3>2. CASE k - m \in 1 .. n /\ U[k] = T[k - m]
      <4> DEFINE l == k - m
      <4>1. /\ T[l] # "stage"
            /\ T[l] = "prune" => l = n
            /\ T[l] = "cmd" => l > 1 /\ T[l - 1] = "link"
            /\ T[l] = "sel" => l > 1 /\ T[l - 1] = "bak"
            /\ T[l] = "activate" => \E j \in 1 .. n : l < j /\ T[j] = "active"
            /\ T[l] \in {"activate", "active", "confirm"} =>
                 \A j \in 1 .. n : T[j] = "activate" => j <= l
        <5>1. T[1] \notin {"cmd", "sel"}
          BY <1>1, <1>2, <3>2
        <5>2. l = 1 \/ l > 1
          BY <1>1, <3>2
        <5>3. /\ T[l] = "prune" => l = n
              /\ T[l] = "cmd" /\ l > 1 => T[l - 1] = "link"
              /\ T[l] = "sel" /\ l > 1 => T[l - 1] = "bak"
              /\ T[l] = "activate" => \E j \in 1 .. n : l < j /\ T[j] = "active"
              /\ T[l] \in {"activate", "active", "confirm"} =>
                   \A j \in 1 .. n : T[j] = "activate" => j <= l
          BY <1>1, <3>2 DEF Shaped, n
        <5>4. T[l] # "stage"
          BY <1>1, <3>2 DEF Has
        <5> QED BY <5>1, <5>2, <5>3, <5>4
      <4>2. l \in 1 .. n /\ m + l = k /\ (l > 1 => l - 1 \in 1 .. n /\ m + (l - 1) = k - 1)
        BY <1>1, <3>2
      <4>3. T[l] = "activate" => \E j \in 1 .. m + n : k < j /\ U[j] = "active"
        <5>1. SUFFICES ASSUME T[l] = "activate"
                       PROVE  \E j \in 1 .. m + n : k < j /\ U[j] = "active"
          OBVIOUS
        <5>2. PICK j \in 1 .. n : l < j /\ T[j] = "active"
          BY <4>1, <5>1
        <5>3. k < m + j
          BY <1>1, <3>2, <5>2
        <5> QED BY <1>1, <1>4, <5>2, <5>3
      <4>4. ASSUME T[l] \in {"activate", "active", "confirm"}, NEW j \in 1 .. m + n, U[j] = "activate"
            PROVE  j <= k
        <5>1. CASE j \in 1 .. m
          BY <1>1, <3>2, <5>1
        <5>2. CASE j - m \in 1 .. n /\ U[j] = T[j - m]
          <6>1. j - m <= l
            BY <4>1, <4>4, <5>2
          <6> QED BY <1>1, <6>1
        <5> QED BY <1>3, <5>1, <5>2
      <4>5. l > 1 => U[k - 1] = T[l - 1]
        BY <1>1, <4>2
      <4> HIDE DEF l
      <4>6. U[k] = T[l]
        BY <3>2 DEF l
      <4> QED BY <1>1, <4>1, <4>2, <4>3, <4>4, <4>5, <4>6
    <3> QED BY <1>3, <3>1, <3>2
  <2>3. \A k \in DOMAIN U :
          /\ U[k] = "stage" => k = 1
          /\ U[k] = "prune" => k = Len(U)
          /\ U[k] = "cmd" /\ k > 1 => U[k - 1] = "link"
          /\ U[k] = "sel" /\ k > 1 => U[k - 1] = "bak"
          /\ U[k] = "activate" => \E j \in DOMAIN U : k < j /\ U[j] = "active"
          /\ U[k] \in {"activate", "active", "confirm"} =>
               \A j \in DOMAIN U : U[j] = "activate" => j <= k
    BY <1>1, <2>2
  <2> QED BY <2>1, <2>3 DEF Shaped
<1> QED BY <1>1, <1>2, <1>5, <1>6, <1>8 DEF U

(* The empty program and the writes.                                       *)
LEMMA Parts ==
  /\ <<>> \in Seq(Step) /\ Shaped(<<>>) /\ \A x : ~Has(<<>>, x)
  /\ Write \in Seq(Step) /\ Shaped(Write) /\ Head(Write) = "bak" /\ Write # <<>>
  /\ Has(Write, "sel") /\ \A x \in Step \ {"bak", "sel"} : ~Has(Write, x)
  /\ Publish \in Seq(Step) /\ Shaped(Publish) /\ Head(Publish) = "link" /\ Publish # <<>>
  /\ Has(Publish, "cmd") /\ \A x \in Step \ {"link", "cmd"} : ~Has(Publish, x)
<1>1. <<>> \in Seq(Step) /\ Shaped(<<>>) /\ \A x : ~Has(<<>>, x)
  BY DEF Shaped, Then, Has
<1>2. /\ Write \in Seq(Step) /\ Head(Write) = "bak" /\ Write # <<>>
      /\ Publish \in Seq(Step) /\ Head(Publish) = "link" /\ Publish # <<>>
  BY DEF Write, Publish, Step
<1>3. Shaped(Write) /\ Has(Write, "sel") /\ \A x \in Step \ {"bak", "sel"} : ~Has(Write, x)
  BY DEF Shaped, Then, Has, Write
<1>4. Shaped(Publish) /\ Has(Publish, "cmd")
      /\ \A x \in Step \ {"link", "cmd"} : ~Has(Publish, x)
  BY DEF Shaped, Then, Has, Publish
<1> QED BY <1>1, <1>2, <1>3, <1>4

LEMMA RepairsProgram ==
  /\ Repairs \in Seq(Step) /\ Shaped(Repairs)
  /\ Repairs # <<>> => Head(Repairs) \notin {"cmd", "sel"}
  /\ \A x \in Step \ {"bak", "sel", "link", "cmd"} : ~Has(Repairs, x)
  /\ Has(Repairs, "link") => Read.cur # None \/ Unpublished(Read)
  /\ (Recovered /\ Read.cur # None) \/ (~Recovered /\ Unpublished(Read)) => Has(Repairs, "cmd")
<1>1. CASE Recovered /\ Read.cur # None
  <2>1. Repairs = Write \o Publish
    BY <1>1 DEF Repairs
  <2>2. /\ Write \o Publish \in Seq(Step) /\ Shaped(Write \o Publish)
        /\ \A x : Has(Write \o Publish, x) <=> Has(Write, x) \/ Has(Publish, x)
        /\ Head(Write \o Publish) = "bak"
    BY Parts, Joined DEF Step
  <2> QED BY <1>1, <2>1, <2>2, Parts DEF Step
<1>2. CASE Recovered /\ Read.cur = None
  <2>1. Repairs = Write \o <<>>
    BY <1>2 DEF Repairs
  <2>2. /\ Write \o <<>> \in Seq(Step) /\ Shaped(Write \o <<>>)
        /\ \A x : Has(Write \o <<>>, x) <=> Has(Write, x) \/ Has(<<>>, x)
        /\ Head(Write \o <<>>) = "bak"
    BY Parts, Joined DEF Step
  <2> QED BY <1>2, <2>1, <2>2, Parts DEF Step
<1>3. CASE ~Recovered /\ Unpublished(Read)
  BY <1>3, Parts DEF Repairs, Step
<1>4. CASE ~Recovered /\ ~Unpublished(Read)
  BY <1>4, Parts DEF Repairs, Step
<1> QED BY <1>1, <1>2, <1>3, <1>4

LEMMA ActivateProgram ==
  /\ Activate \in Seq(Step) /\ Activate # <<>> /\ Head(Activate) = "activate" /\ Shaped(Activate)
  /\ Has(Activate, "activate") /\ Has(Activate, "sel") /\ Has(Activate, "cmd")
  /\ Before(Activate, "activate", "link")
  /\ \A x \in {"stage", "lease", "confirm", "bakup", "prune"} : ~Has(Activate, x)
<1> DEFINE T == Activate
<1>1. /\ T \in Seq(Step) /\ T # <<>> /\ Len(T) = 6 /\ DOMAIN T = 1 .. 6 /\ Head(T) = "activate"
      /\ T[1] = "activate" /\ T[2] = "bak" /\ T[3] = "sel" /\ T[4] = "link"
      /\ T[5] = "cmd" /\ T[6] = "active"
  BY DEF Activate, Write, Publish, Step
<1> HIDE DEF T
<1>2. Then(T, "activate", "bak") /\ Then(T, "confirm", "bak")
      /\ Then(T, "bak", "sel") /\ Then(T, "link", "cmd")
  BY <1>1 DEF Then
<1>3. Shaped(T)
  BY <1>1, <1>2 DEF Shaped
<1>4. /\ Has(T, "activate") /\ Has(T, "sel") /\ Has(T, "cmd") /\ Before(T, "activate", "link")
      /\ \A x \in {"stage", "lease", "confirm", "bakup", "prune"} : ~Has(T, x)
  BY <1>1 DEF Has, Before
<1> QED BY <1>1, <1>3, <1>4 DEF T

LEMMA FinishProgram ==
  ASSUME NEW p, NEW next
  PROVE  /\ Finish(p, next) \in Seq(Step) /\ Finish(p, next) # <<>>
         /\ Head(Finish(p, next)) = "lease" /\ Shaped(Finish(p, next))
         /\ Has(Finish(p, next), "lease")
         /\ \A x \in {"stage", "activate", "active", "link", "cmd"} : ~Has(Finish(p, next), x)
         /\ Has(Finish(p, next), "confirm") => Payload(p) /\ next.cur = proc[p].exe
         /\ Has(Finish(p, next), "bakup") => Has(Finish(p, next), "confirm")
         /\ Before(Finish(p, next), "confirm", "bakup")
<1> DEFINE b == Payload(p) /\ next.cur = proc[p].exe
           T == Finish(p, next)
<1>1. CASE b
  <2>1. /\ T \in Seq(Step) /\ T # <<>> /\ Len(T) = 6 /\ DOMAIN T = 1 .. 6 /\ Head(T) = "lease"
        /\ T[1] = "lease" /\ T[2] = "confirm" /\ T[3] = "bak" /\ T[4] = "sel"
        /\ T[5] = "bakup" /\ T[6] = "prune"
    BY <1>1 DEF Finish, Write, Step
  <2> HIDE DEF T
  <2>2. Then(T, "activate", "bak") /\ Then(T, "confirm", "bak")
        /\ Then(T, "bak", "sel") /\ Then(T, "link", "cmd")
    BY <2>1 DEF Then
  <2>3. Shaped(T)
    BY <2>1, <2>2 DEF Shaped
  <2>4. /\ Has(T, "lease") /\ Has(T, "confirm") /\ Before(T, "confirm", "bakup")
        /\ \A x \in {"stage", "activate", "active", "link", "cmd"} : ~Has(T, x)
    BY <2>1 DEF Has, Before
  <2> QED BY <1>1, <2>1, <2>3, <2>4 DEF T
<1>2. CASE ~b
  <2>1. /\ T \in Seq(Step) /\ T # <<>> /\ Len(T) = 2 /\ DOMAIN T = 1 .. 2 /\ Head(T) = "lease"
        /\ T[1] = "lease" /\ T[2] = "prune"
    BY <1>2 DEF Finish, Write, Step
  <2> HIDE DEF T
  <2>2. Then(T, "activate", "bak") /\ Then(T, "confirm", "bak")
        /\ Then(T, "bak", "sel") /\ Then(T, "link", "cmd")
    BY <2>1 DEF Then
  <2>3. Shaped(T)
    BY <2>1, <2>2 DEF Shaped
  <2>4. /\ Has(T, "lease")
        /\ \A x \in Step \ {"lease", "prune"} : ~Has(T, x)
    BY <2>1 DEF Has
  <2>5. Before(T, "confirm", "bakup")
    BY <2>4, Vacuous DEF Step
  <2> QED BY <2>1, <2>3, <2>4, <2>5 DEF T, Step
<1> QED BY <1>1, <1>2

LEMMA LaunchFlatKeeps ==
  ASSUME ConstantsAssumption, Inv, NEW p \in Proc, LaunchFlat(p),
         proc[p].at = "looked" /\ proc[p].exe # None, Become(p, "launch", proc[p].exe),
         UNCHANGED <<files, usage, faults>>
  PROVE  Inv'
<1> DEFINE T == <<"stage">> \o Write \o Publish \o <<"lease", "prune">>
<1>1. PICK q \in Release : Begin(p, T, [Read EXCEPT !.cur = q], q, None)
  BY DEF LaunchFlat, StagedAs
<1>2. /\ T \in Seq(Step) /\ T # <<>> /\ Head(T) = "stage" /\ Shaped(T)
      /\ Has(T, "sel") /\ Has(T, "stage") /\ Has(T, "cmd") /\ Has(T, "lease")
      /\ Before(T, "sel", "cmd")
      /\ \A x \in {"activate", "confirm", "bakup"} :
           ~Has(T, x) /\ \A y : Before(T, y, x)
  BY FlatProgram
<1> HIDE DEF T
<1> DEFINE s == [Read EXCEPT !.cur = q]
<1>3. s \in Selection /\ s.cur = q /\ s.pend = Read.pend /\ s.conf = Read.conf
  BY ReadNames DEF Selection
<1> HIDE DEF s
<1>4. q # None
  BY ConstantsAssumption DEF ConstantsAssumption
<1>5. Fits(p, "launch", T, s, q, None)
  BY <1>2, <1>3, <1>4, ReadNames DEF Fits
<1> QED BY <1>1, <1>2, <1>3, <1>5, Begun DEF s, Busy

LEMMA LaunchBackupKeeps ==
  ASSUME ConstantsAssumption, Inv, NEW p \in Proc, LaunchBackup(p),
         proc[p].at = "looked" /\ proc[p].exe # None, Become(p, "launch", proc[p].exe),
         UNCHANGED <<files, usage, faults>>
  PROVE  Inv'
<1> DEFINE T == Write \o Publish \o <<"lease">>
           s == [bak EXCEPT !.pend = Read.pend]
<1>1. Parsed(bak) /\ Good(bak.cur) /\ Begin(p, T, s, bak.cur, None)
  BY DEF LaunchBackup
<1>2. /\ T \in Seq(Step) /\ T # <<>> /\ Head(T) = "bak" /\ Shaped(T)
      /\ Has(T, "sel") /\ Has(T, "cmd") /\ Has(T, "lease") /\ Before(T, "sel", "cmd")
      /\ \A x \in {"stage", "activate", "confirm", "bakup"} :
           ~Has(T, x) /\ \A y : Before(T, y, x)
  BY BackupProgram
<1> HIDE DEF T
<1>3. /\ s \in Selection /\ s.cur = bak.cur /\ s.pend = Read.pend /\ s.conf = bak.conf
      /\ bak.conf # None => cmd = "link"
      /\ bak.cur \in Release /\ Present(bak.cur) /\ bak.cur # None /\ bak # None
  BY <1>1, ReadNames, ConstantsAssumption
  DEF Selection, Inv, TypeOK, Confirms, Parsed, Good, Present, ConstantsAssumption
<1> HIDE DEF s
<1>4. Fits(p, "launch", T, s, bak.cur, None)
  BY <1>2, <1>3, ReadNames DEF Fits
<1> QED BY <1>1, <1>2, <1>3, <1>4, Begun DEF Busy

LEMMA LaunchSelectedKeeps ==
  ASSUME ConstantsAssumption, Inv, NEW p \in Proc, LaunchSelected(p),
         proc[p].at = "looked" /\ proc[p].exe # None, Become(p, "launch", proc[p].exe),
         UNCHANGED <<files, usage, faults>>
  PROVE  Inv'
<1> DEFINE act == Activates(p, Read)
           next == IF act THEN Activated(Read) ELSE Read
           selected == Selected(p, Read, next)
           other == IF act THEN Selected(p, Read, Read) ELSE None
           A == IF act THEN Activate ELSE <<>>
           F == Finish(p, next)
           R == Repairs
           S == R \o A
           T == S \o F
<1>1. /\ Good(selected) /\ Begin(p, T, Read, selected, other)
      /\ act => Good(Read.pend)
  BY DEF LaunchSelected, Activates
<1>2. /\ R \in Seq(Step) /\ Shaped(R) /\ (R # <<>> => Head(R) \notin {"cmd", "sel"})
      /\ \A x \in Step \ {"bak", "sel", "link", "cmd"} : ~Has(R, x)
      /\ Has(R, "link") => Read.cur # None \/ Unpublished(Read)
      /\ (Recovered /\ Read.cur # None) \/ (~Recovered /\ Unpublished(Read)) => Has(R, "cmd")
  BY RepairsProgram
<1>3. /\ A \in Seq(Step) /\ Shaped(A) /\ (A # <<>> => Head(A) = "activate")
      /\ \A x \in {"stage", "lease", "confirm", "bakup", "prune"} : ~Has(A, x)
      /\ act => Has(A, "activate") /\ Has(A, "sel") /\ Has(A, "cmd")
      /\ ~act => ~Has(A, "activate")
      /\ Before(A, "activate", "link")
  BY ActivateProgram, Parts, Vacuous DEF Step
<1>4. /\ F \in Seq(Step) /\ F # <<>> /\ Head(F) = "lease" /\ Shaped(F) /\ Has(F, "lease")
      /\ \A x \in {"stage", "activate", "active", "link", "cmd"} : ~Has(F, x)
      /\ Has(F, "confirm") => Payload(p) /\ next.cur = proc[p].exe
      /\ Has(F, "bakup") => Has(F, "confirm")
      /\ Before(F, "confirm", "bakup")
  BY FinishProgram
<1> HIDE DEF R, A, F
<1>5. /\ S \in Seq(Step) /\ Shaped(S) /\ (S # <<>> => Head(S) \notin {"cmd", "sel"})
      /\ \A x : Has(S, x) <=> Has(R, x) \/ Has(A, x)
      /\ \A x, y : Before(R, x, y) /\ (Has(R, x) \/ Before(A, x, y)) => Before(S, x, y)
  BY <1>2, <1>3, Joined DEF Step
<1> HIDE DEF S
<1>6. /\ T \in Seq(Step) /\ Shaped(T) /\ T # <<>> /\ Head(T) \notin {"cmd", "sel"}
      /\ \A x : Has(T, x) <=> Has(S, x) \/ Has(F, x)
      /\ \A x, y : Before(S, x, y) /\ (Has(S, x) \/ Before(F, x, y)) => Before(T, x, y)
  <2>1. /\ ~Has(S, "prune") /\ ~Has(F, "stage")
        /\ Head(F) \notin {"cmd", "sel"} /\ ~Has(F, "activate")
    BY <1>2, <1>3, <1>4, <1>5 DEF Step
  <2>2. S = <<>> => S \o F = F
    BY <1>4
  <2> QED BY <1>4, <1>5, <2>1, <2>2, Joined
<1> HIDE DEF T
<1>7. /\ Read.cur \in Release \cup {None} /\ Read.pend \in Release \cup {None}
      /\ None \notin Release /\ proc[p].exe \in Release \cup {Flat, None}
  BY ReadNames, ConstantsAssumption DEF Selection, ConstantsAssumption, Inv, TypeOK
<1>8. Payload(p) => proc[p].exe \in Release /\ cmd = "link"
  BY DEF Payload, Inv, Processes
<1>9. /\ selected \in Release /\ Present(selected)
      /\ selected = next.cur \/ (selected = proc[p].exe /\ Payload(p) /\ ~Recovered)
  BY <1>1 DEF Selected, Good, Present
<1>10. /\ act => next.cur = Read.pend
       /\ ~act => next.cur = Read.cur
  BY <1>7, ReadNames DEF Activated, Selection
<1> HIDE DEF act, next, selected
<1>11. sel # None
  <2>1. cmd = "link" => sel # None
    BY DEF Inv, Kept
  <2>2. CASE act
    BY <1>1, <1>7, <2>2, ReadNames DEF Good, Nothing
  <2>3. CASE ~act
    BY <1>7, <1>8, <1>9, <1>10, <2>1, <2>3, ReadNames DEF Nothing
  <2> QED BY <2>2, <2>3
<1>12. Unpublished(Read) => Good(Read.cur)
  BY DEF Unpublished
<1>13. Read.cur # None \/ Before(T, "activate", "link")
  <2>1. SUFFICES ASSUME Read.cur = None
                 PROVE  Before(T, "activate", "link")
    OBVIOUS
  <2>2. ~Has(R, "link") /\ ~Has(F, "link")
    BY <1>2, <1>4, <1>7, <1>12, <2>1 DEF Good
  <2> QED BY <1>3, <1>5, <1>6, <2>2, Vacuous
<1>14. Good(Read.cur) => cmd = "link" \/ Has(R, "cmd")
  BY <1>2, <1>7 DEF Unpublished, Good
<1>15. Has(R, "cmd") \/ ~act => Before(T, "cmd", "activate")
  <2>1. ~Has(R, "activate") /\ ~Has(F, "activate")
    BY <1>2, <1>4 DEF Step
  <2> QED BY <1>3, <1>5, <1>6, <2>1, Vacuous
<1>16. cmd = "link" \/ Has(T, "cmd")
  <2>1. CASE act
    BY <1>3, <1>5, <1>6, <2>1
  <2>2. CASE ~act
    <3>1. CASE selected = Read.cur
      <4>1. Good(Read.cur)
        BY <1>1, <3>1 DEF selected
      <4> QED BY <1>5, <1>6, <1>14, <4>1
    <3>2. CASE selected # Read.cur
      BY <1>8, <1>9, <1>10, <2>2, <3>2
    <3> QED BY <3>1, <3>2
  <2> QED BY <2>1, <2>2
<1>17. act => other = Read.cur \/ (other = proc[p].exe /\ proc[p].exe \in Release)
  BY <1>8 DEF Selected
<1>18. other \in Release \cup {None}
  BY <1>7, <1>17 DEF act
<1> HIDE DEF other
<1>19. Has(T, "activate") <=> act
  BY <1>2, <1>3, <1>4, <1>5, <1>6 DEF Step
<1>20. act => Read.pend # None /\ Present(Read.pend)
  BY <1>1, <1>7 DEF Good, Present
<1>21. ~Has(T, "stage") /\ Has(T, "lease")
       /\ (Has(T, "confirm") \/ Has(T, "bakup") => Payload(p))
  BY <1>2, <1>3, <1>4, <1>5, <1>6 DEF Step
<1>22. Has(T, "confirm") => selected = IF act THEN Read.pend ELSE Read.cur
  <2>1. Has(T, "confirm") => Has(F, "confirm")
    BY <1>2, <1>3, <1>5, <1>6 DEF Step
  <2> QED BY <1>4, <1>9, <1>10, <2>1
<1>23. Before(T, "confirm", "bakup")
  <2>1. ~Has(S, "bakup")
    BY <1>2, <1>3, <1>5 DEF Step
  <2> QED BY <1>4, <1>6, <2>1, Vacuous
<1>24. Fits(p, "launch", T, Read, selected, other)
  BY <1>6, <1>8, <1>9, <1>11, <1>13, <1>14, <1>15, <1>16, <1>17, <1>19, <1>20, <1>21,
     <1>22, <1>23, ReadNames DEF Fits
<1> QED BY <1>1, <1>6, <1>9, <1>18, <1>24, ReadNames, Begun DEF Busy, selected

LEMMA LaunchKeeps ==
  ASSUME ConstantsAssumption, Inv, NEW p \in Proc, Launch(p)
  PROVE  Inv'
BY LaunchSelectedKeeps, LaunchFlatKeeps, LaunchBackupKeeps DEF Launch

----------------------------------------------------------------------------
(* The steps of a transaction.                                             *)

(* What is left to do once the first step is done.                         *)
Left(x) ==
  /\ tx # None /\ tx' # None /\ x \in Step /\ tx.proc \in Proc /\ tx'.proc = tx.proc
  /\ Kind' = proc'[tx.proc].at /\ Runs' = proc'[tx.proc].exe
  /\ Has(tx.todo, x) /\ Doing(x)
  /\ \A y \in Step : Doing(y) <=> y = x
  /\ \A y : Has(tx.todo, y) <=> y = x \/ Has(tx'.todo, y)
  /\ \A y, z : Before(tx.todo, y, z) =>
       x # z /\ (x # y => Before(tx'.todo, y, z))
  /\ \A y : Doing(y)' => Has(tx'.todo, y)
  /\ Distinct(tx.todo) => Distinct(tx'.todo) /\ ~Has(tx'.todo, x)
  /\ ~Has(tx'.todo, "stage")
  /\ x = "prune" => \A y : ~Has(tx'.todo, y)
  /\ x = "activate" => /\ Doing("bak")' /\ Has(tx'.todo, "sel") /\ Has(tx'.todo, "active")
                       /\ ~Has(tx'.todo, "activate")
  /\ x = "confirm" => /\ Doing("bak")' /\ Has(tx'.todo, "sel") /\ ~Has(tx'.todo, "activate")
  /\ x = "active" => ~Has(tx'.todo, "activate")
  /\ x = "bak" => Doing("sel")' /\ Has(tx'.todo, "sel")
  /\ x = "link" => Doing("cmd")' /\ Has(tx'.todo, "cmd")
  /\ Doing("cmd")' => x = "link"
  /\ Doing("sel")' => x = "bak"

LEMMA Stepped ==
  ASSUME ConstantsAssumption, Inv, NEW x, Doing(x), tx' \in Transaction,
         tx'.todo = Tail(tx.todo), tx'.proc = tx.proc
  PROVE  Left(x) /\ Shape'
<1> DEFINE T == tx.todo
           S == Tail(T)
<1>1. /\ tx # None /\ tx' # None /\ tx.proc \in Proc /\ tx'.todo = S
      /\ T # <<>> /\ Head(T) = x /\ T \in Seq(Step) /\ Shaped(T)
  BY ConstantsAssumption DEF ConstantsAssumption, Doing, Inv, TypeOK, Transaction, Shape
<1> HIDE DEF T
<1>2. /\ S \in Seq(Step) /\ Shaped(S) /\ Head(T) \in Step
      /\ \A y : Has(T, y) <=> y = Head(T) \/ Has(S, y)
      /\ \A y, z : Before(T, y, z) =>
           Head(T) # z /\ (Head(T) # y => Before(S, y, z))
      /\ Distinct(T) => Distinct(S) /\ ~Has(S, Head(T))
      /\ ~Has(S, "stage")
      /\ Head(T) = "prune" => S = <<>>
      /\ Head(T) = "activate" =>
           /\ Head(S) = "bak" /\ Has(S, "bak") /\ Has(S, "sel")
           /\ Has(S, "active") /\ ~Has(S, "activate")
      /\ Head(T) = "confirm" =>
           /\ Head(S) = "bak" /\ Has(S, "sel") /\ ~Has(S, "activate")
      /\ Head(T) = "active" => ~Has(S, "activate")
      /\ Head(T) = "bak" => Head(S) = "sel" /\ Has(S, "sel")
      /\ Head(T) = "link" => Head(S) = "cmd" /\ Has(S, "cmd")
      /\ S # <<>> /\ Head(S) = "cmd" => Head(T) = "link"
      /\ S # <<>> /\ Head(S) = "sel" => Head(T) = "bak"
  BY <1>1, Rest
<1>3. \A y : Has(S, y) => S # <<>>
  BY DEF Has
<1>4. ASSUME S # <<>>
      PROVE  Has(S, Head(S))
  <2> HIDE DEF S
  <2>1. 1 \in DOMAIN S /\ S[1] = Head(S)
    BY <1>2, <1>4
  <2> QED BY <2>1 DEF Has
<1> HIDE DEF S
<1>5. \A y : Doing(y)' <=> S # <<>> /\ Head(S) = y
  BY <1>1 DEF Doing
<1>6. \A y : Doing(y) <=> y = x
  BY <1>1 DEF Doing, T
<1>7. Kind' = proc'[tx.proc].at /\ Runs' = proc'[tx.proc].exe
  BY DEF Kind, Runs
<1>8. \A y : Doing(y)' => Has(S, y)
  BY <1>4, <1>5
<1>9. /\ x \in Step /\ Has(T, x)
      /\ \A y, z : Before(T, y, z) => x # z /\ (x # y => Before(S, y, z))
      /\ \A y : Has(T, y) <=> y = x \/ Has(S, y)
      /\ Distinct(T) => Distinct(S) /\ ~Has(S, x)
  BY <1>1, <1>2
<1>10. /\ x = "prune" => \A y : ~Has(S, y)
       /\ x = "activate" => /\ Doing("bak")' /\ Has(S, "sel") /\ Has(S, "active")
                            /\ ~Has(S, "activate")
       /\ x = "confirm" => /\ Doing("bak")' /\ Has(S, "sel") /\ ~Has(S, "activate")
       /\ x = "active" => ~Has(S, "activate")
       /\ x = "bak" => Doing("sel")' /\ Has(S, "sel")
       /\ x = "link" => Doing("cmd")' /\ Has(S, "cmd")
       /\ Doing("cmd")' => x = "link"
       /\ Doing("sel")' => x = "bak"
  BY <1>1, <1>2, <1>3, <1>5
<1>11. Shape'
  BY <1>1, <1>2 DEF Shape
<1> QED BY <1>1, <1>2, <1>6, <1>7, <1>8, <1>9, <1>10, <1>11 DEF Left, T

(* A step that writes at most one file, or takes the lease.                *)
Same ==
  /\ tx'.state = tx.state /\ tx'.run = tx.run /\ tx'.undo = tx.undo
  /\ tx'.activating = tx.activating /\ tx'.other = tx.other /\ proc' = proc

LEMMA DoneLeaves ==
  ASSUME ConstantsAssumption, Inv, NEW x, Doing(x), Done, UNCHANGED proc
  PROVE  tx' \in Transaction /\ Left(x) /\ Shape' /\ Same
<1>1. tx \in Transaction /\ tx.todo # <<>>
  BY DEF Doing, Inv, TypeOK
<1>2. tx.todo \in Seq(Step) /\ Tail(tx.todo) \in Seq(Step)
  BY <1>1 DEF Transaction
<1>3. /\ tx' \in Transaction /\ tx'.todo = Tail(tx.todo) /\ tx'.proc = tx.proc /\ Same
  BY <1>1, <1>2 DEF Done, Transaction, Same
<1> QED BY <1>3, Stepped

LEMMA WriteKeeps ==
  ASSUME ConstantsAssumption, Inv,
         NEW x \in {"bak", "bakup", "sel", "link", "cmd", "lease"},
         tx' \in Transaction, Left(x), Shape', Same, UNCHANGED <<dirs, flat, faults>>,
         sel' = (IF x = "sel" THEN tx.state ELSE sel),
         bak' = (IF x = "bak" /\ KeepsBackup THEN sel
                 ELSE IF x = "bakup" THEN tx.state ELSE bak),
         link' = (IF x = "link" THEN tx.state.cur ELSE link),
         cmd' = (IF x = "cmd" THEN "link" ELSE cmd),
         usage' = (IF x = "lease" THEN usage \cup {[pid |-> tx.proc, release |-> tx.run]}
                   ELSE usage)
  PROVE  Inv'
<1>1. /\ tx # None /\ tx' # None /\ tx.proc \in Proc /\ tx'.proc = tx.proc
      /\ Kind' = Kind /\ Runs' = Runs
      /\ tx.state \in Selection /\ tx.state # None /\ tx.state # Bad
      /\ tx.state.cur \in Release \cup {None} /\ tx.run \in Release \cup {None}
      /\ Kind \notin {"new", "old"}
  BY ConstantsAssumption
  DEF ConstantsAssumption, Left, Same, Kind, Runs, Inv, TypeOK, Transaction, Selection,
      Kinds, Busy
<1>2. \A r : Coming(r) => Present(r)
  BY DEF Coming, Left, Step
<1>3. /\ tx.state.cur # None => Present(tx.state.cur)
      /\ tx.state.pend # None /\ faults = 0 => Present(tx.state.pend)
      /\ tx.state.conf # None => cmd = "link"
  BY <1>1, <1>2 DEF Inv, Selects, Confirms
<1>4. TypeOK'
  <2>1. sel' \in Selection \cup {None, Bad} /\ bak' \in Selection \cup {None}
    BY <1>1 DEF Inv, TypeOK, KeepsBackup, Parsed
  <2>2. usage' \subseteq [pid : Proc, release : Release \cup {None}]
    BY <1>1 DEF Inv, TypeOK
  <2>3. link' \in Release \cup {None} /\ cmd' \in {None, "flat", "link"}
    BY <1>1 DEF Inv, TypeOK
  <2> QED BY <2>1, <2>2, <2>3 DEF Inv, TypeOK, Same
<1>5. Processes'
  BY <1>1 DEF Inv, Processes, Same
<1>6. Kinds'
  BY <1>1 DEF Inv, Kinds, Left
<1>7. Leases'
  <2>1. usage \subseteq usage' /\ \A u \in usage' : u \in usage \/ u.pid = tx.proc
    OBVIOUS
  <2>2. \A u \in usage' : proc[u.pid].at \notin {"new", "old"}
    BY <1>1, <2>1 DEF Inv, Leases, Kind
  <2>3. Kind \in {"launch", "restart"} /\ ~Has(tx'.todo, "lease") =>
          [pid |-> tx.proc, release |-> tx.run] \in usage'
    BY <1>1, <2>1 DEF Inv, Leases, Left
  <2> QED BY <1>1, <2>1, <2>2, <2>3 DEF Inv, Leases, Same, Alive
<1>8. Selects'
  BY <1>1, <1>2 DEF Inv, Selects, Left, Same, Coming, Present, Parsed
<1>9. Publishes'
  <2>1. Doing("cmd")' => link' = tx.state.cur /\ link' # None
    BY <1>1 DEF Inv, Publishes, Left
  <2>2. tx.state.cur # None \/ Before(tx'.todo, "activate", "link")
    BY <1>1 DEF Inv, Publishes, Left
  <2>3. Kind = "launch" /\ Good(tx.state.cur) => cmd' = "link" \/ Before(tx'.todo, "cmd", "activate")
    BY <1>1 DEF Inv, Publishes, Left
  <2> QED BY <1>1, <2>1, <2>2, <2>3 DEF Publishes, Same, Good
<1>10. Returns'
  BY <1>1 DEF Inv, Returns, Left, Same, Good, Present
<1>11. Kept'
  <2>1. /\ sel # None => sel' # None
        /\ x = "cmd" => sel # None
        /\ x = "bakup" => sel # None
    BY <1>1 DEF Inv, Kept, Left, Kinds, Processes, Runs
  <2>2. /\ cmd' = "link" => sel' # None
        /\ bak' # None => sel' # None
        /\ sel' = Bad => faults' >= 1
    BY <1>1, <2>1 DEF Inv, Kept, KeepsBackup, Parsed
  <2>3. /\ sel' # None \/ Before(tx'.todo, "sel", "cmd")
        /\ Has(tx'.todo, "activate") /\ Kind # "setup" => sel' # None
    BY <1>1, <2>1 DEF Inv, Kept, Left
  <2>4. ASSUME tx.activating, tx.undo = None
        PROVE  /\ Kind = "setup" /\ bak' = None
               /\ ~Has(tx'.todo, "bak")
               /\ cmd' = "link" => ~Has(tx'.todo, "cmd")
    <3>1. /\ Kind = "setup" /\ bak = None
          /\ Has(tx.todo, "bak") => Doing("bak") /\ sel = None
          /\ cmd = "link" => ~Has(tx.todo, "cmd")
          /\ Distinct(tx.todo) /\ ~Has(tx.todo, "bakup")
      BY <1>1, <2>4 DEF Inv, Kept, Kinds
    <3>2. bak' = None
      BY <3>1 DEF Left, KeepsBackup, Parsed
    <3>3. ~Has(tx'.todo, "bak")
      BY <3>1 DEF Left, Step
    <3>4. cmd' = "link" => ~Has(tx'.todo, "cmd")
      BY <3>1 DEF Left
    <3> QED BY <3>1, <3>2, <3>3, <3>4
  <2> QED BY <1>1, <2>2, <2>3, <2>4 DEF Kept, Same
<1>12. Confirms'
  BY <1>1, <1>3 DEF Inv, Confirms, Same, KeepsBackup, Parsed
<1>13. InUseKept'
  BY DEF Inv, InUseKept, InRoot, Alive, Present, Same
<1>14. ReferencedKept'
  <2>1. cmd' = "link" => Present(link')
    BY <1>1, <1>3 DEF Inv, ReferencedKept, Publishes, Left
  <2> QED BY <1>1, <1>3, <2>1 DEF Inv, ReferencedKept, Present, Parsed, KeepsBackup
<1>15. Starts'
  BY <1>1 DEF Inv, Starts, Left, Same
<1>16. Unbacked'
  <2>1. SUFFICES ASSUME faults <= 1, bak' = None
                 PROVE  Unbacked'
    BY DEF Unbacked
  <2>2. bak = None /\ x # "bakup" /\ (x = "bak" => ~Parsed(sel))
    BY <1>1, <2>1 DEF KeepsBackup, Parsed
  <2>3. tx.state.conf # None => sel # None
    BY <1>3 DEF Inv, Kept
  <2>4. sel = Bad => faults = 1
    BY <2>1 DEF Inv, Kept, TypeOK
  <2>5. x = "sel" <=> Doing("sel")
    BY DEF Left, Step
  <2>6. Doing("sel")' => x = "bak"
    BY DEF Left
  <2>7. CASE x = "sel"
    BY <1>1, <2>1, <2>2, <2>5, <2>6, <2>7 DEF Inv, Unbacked, Left, Same, Parsed
  <2>8. CASE x # "sel"
    BY <1>1, <2>1, <2>2, <2>3, <2>4, <2>5, <2>6, <2>8 DEF Inv, Unbacked, Left, Same, Parsed
  <2> QED BY <2>7, <2>8
<1>17. WayBack'
  <2>1. CASE x = "bak" /\ KeepsBackup
    BY <2>1 DEF Inv, Unbacked, WayBack, KeepsBackup, Parsed
  <2>2. CASE x = "bakup"
    BY <1>1, <2>2 DEF Inv, Starts, WayBack, Left
  <2>3. CASE ~(x = "bak" /\ KeepsBackup) /\ x # "bakup"
    BY <2>3 DEF Inv, WayBack, Parsed
  <2> QED BY <2>1, <2>2, <2>3
<1> QED BY <1>4, <1>5, <1>6, <1>7, <1>8, <1>9, <1>10, <1>11, <1>12, <1>13, <1>14, <1>15,
           <1>16, <1>17 DEF Inv

LEMMA WritesKeep ==
  ASSUME ConstantsAssumption, Inv,
         DoBackup \/ DoSelect \/ DoLink \/ DoCommand \/ DoLease
  PROVE  Inv'
<1>1. Done /\ UNCHANGED <<proc, dirs, flat, faults>>
  BY DEF DoBackup, DoSelect, DoLink, DoCommand, DoLease, files
<1>2. ASSUME NEW x, Doing(x)
      PROVE  tx' \in Transaction /\ Left(x) /\ Shape' /\ Same
  BY <1>1, <1>2, DoneLeaves
<1>3. CASE DoBackup
  <2>1. CASE Doing("bak")
    BY <1>1, <1>2, <1>3, <2>1, WriteKeeps DEF DoBackup, Left, Step
  <2>2. CASE Doing("bakup")
    BY <1>1, <1>2, <1>3, <2>2, WriteKeeps DEF DoBackup, Left, Step
  <2> QED BY <1>3, <2>1, <2>2 DEF DoBackup
<1>4. CASE DoSelect
  BY <1>1, <1>2, <1>4, WriteKeeps DEF DoSelect
<1>5. CASE DoLink
  BY <1>1, <1>2, <1>5, WriteKeeps DEF DoLink
<1>6. CASE DoCommand
  BY <1>1, <1>2, <1>6, WriteKeeps DEF DoCommand
<1>7. CASE DoLease
  BY <1>1, <1>2, <1>7, WriteKeeps DEF DoLease, files
<1> QED BY <1>3, <1>4, <1>5, <1>6, <1>7

LEMMA StageDone ==
  ASSUME ConstantsAssumption, Inv, DoStage
  PROVE  Inv'
<1>1. /\ UNCHANGED <<sel, bak, link, cmd, flat, usage, proc, faults>>
      /\ dirs' = [dirs EXCEPT ![tx.run] = "good"]
      /\ tx' \in Transaction /\ Left("stage") /\ Shape' /\ Same
  BY DoneLeaves DEF DoStage
<1>2. /\ tx # None /\ tx' # None /\ tx.proc \in Proc /\ tx'.proc = tx.proc
      /\ Kind' = Kind /\ Runs' = Runs /\ tx.run \in Release /\ None \notin Release
  BY <1>1, ConstantsAssumption
  DEF ConstantsAssumption, Left, Same, Kind, Runs, Inv, TypeOK, Transaction, Selects
<1>3. /\ \A r : Present(r) => Present(r)'
      /\ \A r : Coming(r) => Present(r)'
      /\ dirs' \in [Release -> {"none", "good", "rotten", "torn"}]
  BY <1>1, <1>2 DEF Present, Coming, Inv, TypeOK
<1>4. TypeOK'
  BY <1>1, <1>3 DEF Inv, TypeOK
<1>5. Processes' /\ Kinds'
  BY <1>1, <1>2 DEF Inv, Processes, Kinds, Left
<1>6. Leases'
  BY <1>1, <1>2 DEF Inv, Leases, Left, Same, Alive
<1>7. Selects'
  BY <1>1, <1>2, <1>3 DEF Inv, Selects, Left, Same, Coming, Parsed
<1>8. Publishes'
  <2>1. Kind = "launch" => Before(tx'.todo, "cmd", "activate")
    BY <1>1, Vacuous DEF Left, Inv, Kinds
  <2> QED BY <1>1, <1>2, <2>1 DEF Inv, Publishes, Left, Same
<1>9. Returns'
  BY <1>1, <1>2 DEF Inv, Returns, Left, Same
<1>10. Kept'
  BY <1>1, <1>2 DEF Inv, Kept, Left, Same, Step
<1>11. Confirms'
  BY <1>1, <1>2 DEF Inv, Confirms, Same, Parsed
<1>12. InUseKept'
  BY <1>1, <1>3 DEF Inv, InUseKept, InRoot, Alive
<1>13. ReferencedKept'
  BY <1>1, <1>3 DEF Inv, ReferencedKept, Parsed
<1>14. Starts' /\ Unbacked' /\ WayBack'
  BY <1>1, <1>2 DEF Inv, Starts, Unbacked, WayBack, Left, Same, Step, Parsed
<1> QED BY <1>1, <1>4, <1>5, <1>6, <1>7, <1>8, <1>9, <1>10, <1>11, <1>12, <1>13, <1>14 DEF Inv

(* The activation begins: the selection is that of the pending release.    *)
LEMMA ActivateDone ==
  ASSUME ConstantsAssumption, Inv, Doing("activate"), DoActivate
  PROVE  Inv'
<1>1. /\ UNCHANGED <<sel, bak, dirs, link, cmd, flat, usage, proc, faults>>
      /\ tx' = [tx EXCEPT !.todo = Tail(tx.todo), !.state = Activated(tx.state),
                          !.activating = TRUE,
                          !.undo = IF sel = None THEN None ELSE tx.state]
  BY DEF DoActivate, files, Doing
<1>2. /\ tx \in Transaction /\ tx.todo # <<>> /\ tx.todo \in Seq(Step)
      /\ tx.state \in Selection /\ tx.state # None /\ None \notin Release
      /\ Activated(tx.state) \in Selection
      /\ Activated(tx.state).cur = tx.state.pend /\ Activated(tx.state).pend = None
      /\ Activated(tx.state).conf = tx.state.conf
  BY ConstantsAssumption
  DEF ConstantsAssumption, Doing, Inv, TypeOK, Transaction, Selection, Activated
<1>3. /\ tx'.todo = Tail(tx.todo) /\ tx'.state = Activated(tx.state) /\ tx'.activating
      /\ tx'.undo = (IF sel = None THEN None ELSE tx.state)
      /\ tx'.proc = tx.proc /\ tx'.run = tx.run /\ tx'.other = tx.other
      /\ tx' \in Transaction
  <2>1. Tail(tx.todo) \in Seq(Step)
    BY <1>2
  <2> QED BY <1>1, <1>2, <2>1 DEF Transaction
<1>4. Left("activate") /\ Shape'
  BY <1>3, Stepped
<1>5. /\ tx # None /\ tx' # None /\ tx.proc \in Proc /\ Kind' = Kind /\ Runs' = Runs
      /\ Kind \in {"launch", "restart", "setup"}
      /\ tx.state.pend # None /\ (\A r : Coming(r) => Present(r))
  BY <1>1, <1>4 DEF Left, Kind, Runs, Inv, Kinds, Selects, Coming, Step
<1>6. TypeOK' /\ Processes' /\ Kinds' /\ Leases'
  BY <1>1, <1>3, <1>4, <1>5 DEF Inv, TypeOK, Processes, Kinds, Leases, Left, Alive
<1>7. Selects'
  BY <1>1, <1>2, <1>3, <1>4, <1>5 DEF Inv, Selects, Left, Coming, Present
<1>8. Publishes'
  <2>1. Before(tx'.todo, "cmd", "activate")
    BY <1>4, Vacuous DEF Left
  <2> QED BY <1>2, <1>3, <1>4, <1>5, <2>1 DEF Publishes, Left
<1>9. Returns'
  <2>1. tx.state.cur # None => Present(tx.state.cur)
    BY <1>5 DEF Inv, Selects
  <2>2. Kind = "launch" =>
          /\ sel # None
          /\ Good(tx.state.cur) => cmd = "link"
          /\ tx.other = tx.state.cur \/ (tx.other = Runs /\ Runs \in Release)
    BY <1>4, <1>5 DEF Inv, Kept, Publishes, Returns, Left
  <2> QED BY <1>1, <1>2, <1>3, <1>4, <1>5, <2>1, <2>2 DEF Returns, Left, Good, Present
<1>10. Kept'
  BY <1>1, <1>2, <1>3, <1>4, <1>5 DEF Inv, Kept, Left
<1>11. Confirms' /\ InUseKept' /\ ReferencedKept'
  BY <1>1, <1>2, <1>3, <1>5
  DEF Inv, Confirms, InUseKept, InRoot, Alive, ReferencedKept, Present, Parsed
<1>12. Starts' /\ WayBack'
  BY <1>1, <1>2, <1>3, <1>4, <1>5 DEF Inv, Starts, WayBack, Left, Parsed
<1>13. Unbacked'
  <2>1. ~Doing("sel")' /\ Has(tx.todo, "activate") /\ ~Has(tx'.todo, "activate")
    BY <1>4 DEF Left
  <2> QED BY <1>1, <1>2, <1>3, <1>5, <2>1 DEF Inv, Unbacked, Parsed
<1> QED BY <1>4, <1>6, <1>7, <1>8, <1>9, <1>10, <1>11, <1>12, <1>13 DEF Inv

LEMMA ActiveDone ==
  ASSUME ConstantsAssumption, Inv, Doing("active"), DoActivate
  PROVE  Inv'
<1>1. /\ UNCHANGED <<sel, bak, dirs, link, cmd, flat, usage, proc, faults>>
      /\ tx' = [tx EXCEPT !.todo = Tail(tx.todo), !.activating = FALSE, !.undo = None,
                          !.other = None]
  BY DEF DoActivate, files, Doing
<1>2. /\ tx \in Transaction /\ tx.todo # <<>> /\ tx.todo \in Seq(Step)
  BY DEF Doing, Inv, TypeOK, Transaction
<1>3. /\ tx'.todo = Tail(tx.todo) /\ tx'.state = tx.state /\ ~tx'.activating
      /\ tx'.proc = tx.proc /\ tx'.run = tx.run /\ tx' \in Transaction
  <2>1. Tail(tx.todo) \in Seq(Step)
    BY <1>2
  <2> QED BY <1>1, <1>2, <2>1 DEF Transaction
<1>4. Left("active") /\ Shape'
  BY <1>3, Stepped
<1>5. /\ tx # None /\ tx' # None /\ tx.proc \in Proc /\ Kind' = Kind /\ Runs' = Runs
      /\ \A r : Coming(r) => Present(r)
  BY <1>1, <1>4 DEF Left, Kind, Runs, Coming, Step
<1>6. TypeOK' /\ Processes' /\ Kinds' /\ Leases'
  BY <1>1, <1>3, <1>4, <1>5 DEF Inv, TypeOK, Processes, Kinds, Leases, Left, Alive
<1>7. Selects'
  BY <1>1, <1>3, <1>4, <1>5 DEF Inv, Selects, Left, Coming, Present, Parsed
<1>8. Publishes' /\ Returns' /\ Kept'
  BY <1>1, <1>3, <1>4, <1>5 DEF Inv, Publishes, Returns, Kept, Left, Good
<1>9. Confirms' /\ InUseKept' /\ ReferencedKept'
  BY <1>1, <1>3, <1>5
  DEF Inv, Confirms, InUseKept, InRoot, Alive, ReferencedKept, Present, Parsed
<1>10. Starts' /\ Unbacked' /\ WayBack'
  BY <1>1, <1>3, <1>4, <1>5 DEF Inv, Starts, Unbacked, WayBack, Left, Step, Parsed
<1> QED BY <1>4, <1>6, <1>7, <1>8, <1>9, <1>10 DEF Inv

LEMMA ConfirmDone ==
  ASSUME ConstantsAssumption, Inv, DoConfirm
  PROVE  Inv'
<1>1. /\ UNCHANGED <<sel, bak, dirs, link, cmd, flat, usage, proc, faults>> /\ Doing("confirm")
      /\ tx' = [tx EXCEPT !.todo = Tail(tx.todo), !.state = [tx.state EXCEPT !.conf = tx.run]]
  BY DEF DoConfirm, files, Doing
<1>2. /\ tx \in Transaction /\ tx.todo # <<>> /\ tx.todo \in Seq(Step)
      /\ tx.state \in Selection /\ tx.run \in Release \cup {None}
  BY <1>1 DEF Doing, Inv, TypeOK, Transaction
<1>3. /\ tx'.todo = Tail(tx.todo) /\ tx'.activating = tx.activating /\ tx'.undo = tx.undo
      /\ tx'.proc = tx.proc /\ tx'.run = tx.run /\ tx'.other = tx.other
      /\ tx' \in Transaction /\ tx'.state.cur = tx.state.cur /\ tx'.state.pend = tx.state.pend
  <2>1. Tail(tx.todo) \in Seq(Step)
    BY <1>2
  <2>2. [tx.state EXCEPT !.conf = tx.run] \in Selection
    BY <1>2 DEF Selection
  <2> QED BY <1>1, <1>2, <2>1, <2>2 DEF Transaction, Selection
<1>4. Left("confirm") /\ Shape'
  BY <1>1, <1>3, Stepped
<1>5. /\ tx # None /\ tx' # None /\ tx.proc \in Proc /\ Kind' = Kind /\ Runs' = Runs
      /\ (\A r : Coming(r) => Present(r)) /\ Kind = "launch" /\ cmd = "link"
  BY <1>1, <1>4 DEF Left, Kind, Runs, Coming, Step, Inv, Kinds, Processes
<1>6. TypeOK' /\ Processes' /\ Kinds' /\ Leases'
  BY <1>1, <1>3, <1>4, <1>5 DEF Inv, TypeOK, Processes, Kinds, Leases, Left, Alive
<1>7. Selects'
  BY <1>1, <1>3, <1>4, <1>5 DEF Inv, Selects, Left, Coming, Present, Parsed
<1>8. Publishes' /\ Returns' /\ Kept'
  BY <1>1, <1>3, <1>4, <1>5, Vacuous DEF Inv, Publishes, Returns, Kept, Left, Good, Present
<1>9. Confirms' /\ InUseKept' /\ ReferencedKept'
  BY <1>1, <1>3, <1>5
  DEF Inv, Confirms, InUseKept, InRoot, Alive, ReferencedKept, Present, Parsed
<1>10. Starts' /\ WayBack'
  <2>1. tx'.state.conf = tx.run
    BY <1>1, <1>2 DEF Transaction, Selection
  <2> QED BY <1>1, <1>3, <1>4, <1>5, <2>1 DEF Inv, Starts, WayBack, Left, Parsed
<1>11. Unbacked'
  <2>1. /\ tx'.state.conf = tx.run /\ tx.run = tx.state.cur
        /\ ~Has(tx'.todo, "activate") /\ ~Doing("sel")'
    BY <1>1, <1>2, <1>4, <1>5 DEF Transaction, Selection, Left, Inv, Starts
  <2> QED BY <1>1, <1>3, <1>5, <2>1 DEF Inv, Unbacked, Parsed
<1> QED BY <1>4, <1>6, <1>7, <1>8, <1>9, <1>10, <1>11 DEF Inv

(* Deletion spares what Keep names, and nothing is deleted while a process *)
(* is not accounted for.                                                   *)
LEMMA PruneDone ==
  ASSUME ConstantsAssumption, Inv, DoPrune
  PROVE  Inv'
<1>1. /\ UNCHANGED <<sel, bak, link, cmd, proc, faults>> /\ usage' = Live
      /\ tx' \in Transaction /\ Left("prune") /\ Shape' /\ Same
      /\ MayPrune => dirs' \in Pruned(Keep) /\ flat' = (flat /\ ~FlatUnused)
      /\ ~MayPrune => UNCHANGED <<dirs, flat>>
  BY DoneLeaves DEF DoPrune
<1>2. /\ tx # None /\ tx' # None /\ tx.proc \in Proc /\ tx'.proc = tx.proc
      /\ Kind' = Kind /\ Runs' = Runs /\ (\A y : ~Has(tx'.todo, y)) /\ ~tx.activating
      /\ None \notin Release /\ tx.state \in Selection
      /\ \A y : Has(tx.todo, y) => y = "prune"
  <2>1. \A y : Has(tx.todo, y) => y = "prune"
    BY <1>1 DEF Left
  <2>2. ~tx.activating
    BY <1>1, <2>1 DEF Left, Inv, Returns
  <2> QED BY <1>1, <2>1, <2>2, ConstantsAssumption
      DEF ConstantsAssumption, Left, Same, Kind, Runs, Inv, TypeOK, Transaction
<1>3. dirs' \in [Release -> {"none", "good", "rotten", "torn"}] /\ flat' \in BOOLEAN
  BY <1>1 DEF Pruned, Inv, TypeOK
<1>4. ASSUME NEW r \in Keep, Present(r)
      PROVE  Present(r)'
  <2>1. CASE MayPrune
    BY <1>1, <1>4, <2>1 DEF Pruned, Present
  <2>2. CASE ~MayPrune
    BY <1>1, <1>4, <2>2 DEF Present
  <2> QED BY <2>1, <2>2
<1>5. Live \subseteq usage /\ \A u \in usage : u.pid \in Alive => u \in Live
  BY DEF Live
<1>6. tx.proc \in Alive
  BY <1>2 DEF Alive, Inv, Kinds, Kind, Busy
<1>7. /\ tx.state.cur \in Keep /\ tx.state.pend \in Keep /\ Runs \in Keep
      /\ \A u \in Live : u.release \in Keep
      /\ cmd = "link" => link \in Keep
      /\ Parsed(bak) => bak.cur \in Keep
  <2>1. cmd = "link" => Linked = link
    BY DEF Inv, ReferencedKept, Present, Linked
  <2> QED BY <2>1 DEF Keep, Runs
<1>8. \A r : Coming(r) => Present(r)
  BY <1>1 DEF Coming, Left, Step
<1>9. TypeOK'
  BY <1>1, <1>3, <1>5 DEF Inv, TypeOK
<1>10. Processes' /\ Kinds'
  <2>1. Kind \in {"launch", "restart"} => cmd = "link"
    BY <1>2 DEF Inv, Kinds
  <2> QED BY <1>1, <1>2, <2>1 DEF Inv, Processes, Kinds, Distinct, Left
<1>11. Leases'
  <2>1. \A u \in Live : proc[u.pid].at \notin {"new", "old"}
    BY <1>5 DEF Inv, Leases
  <2>2. \A p \in Proc :
          /\ proc[p].at \in {"run", "asked", "staging"} =>
               [pid |-> p, release |-> proc[p].exe] \in Live
          /\ p \in Alive /\ proc[p].exe \in Release /\ ~(tx # None /\ tx.proc = p) =>
               \A u \in Live : u.pid = p => [pid |-> p, release |-> proc[p].exe] \in Live
    BY <1>5 DEF Inv, Leases, Alive
  <2>3. Kind \in {"launch", "restart"} => [pid |-> tx.proc, release |-> tx.run] \in Live
    BY <1>2, <1>5, <1>6 DEF Inv, Leases
  <2> QED BY <1>1, <1>2, <2>1, <2>2, <2>3 DEF Leases, Alive, Same
<1>12. Selects'
  <2>1. /\ tx.state.cur # None => Present(tx.state.cur)'
        /\ tx.state.pend # None /\ faults = 0 => Present(tx.state.pend)'
    BY <1>1, <1>2, <1>4, <1>7, <1>8 DEF Inv, Selects, Present, Same
  <2>2. Kind \in {"launch", "restart"} => tx.run \in Release /\ Present(tx.run)'
    <3>1. SUFFICES ASSUME Kind \in {"launch", "restart"}
                   PROVE  tx.run \in Release /\ Present(tx.run)'
      OBVIOUS
    <3>2. [pid |-> tx.proc, release |-> tx.run] \in Live
      BY <1>2, <1>5, <1>6, <3>1 DEF Inv, Leases
    <3>3. tx.run \in Release /\ Present(tx.run)
      BY <1>2, <1>8, <3>1 DEF Inv, Selects
    <3>4. tx.run \in Keep
      BY <1>7, <3>2
    <3> QED BY <1>1, <1>4, <3>3, <3>4 DEF Present, Same
  <2>3. ~Parsed(sel) \/ sel = tx.state
    BY <1>2 DEF Inv, Selects
  <2> QED BY <1>1, <1>2, <2>1, <2>2, <2>3 DEF Selects, Same, Coming, Parsed
<1>13. Publishes'
  BY <1>1, <1>2, Vacuous DEF Publishes, Left
<1>14. Returns' /\ Kept'
  BY <1>1, <1>2, Vacuous DEF Inv, Returns, Kept, Same
<1>15. Confirms'
  BY <1>1, <1>2 DEF Inv, Confirms, Same, Parsed
<1>16. InUseKept'
  <2>1. SUFFICES ASSUME NEW p \in InRoot, MayPrune
                 PROVE  /\ proc[p].exe \in Release => Present(proc[p].exe)'
                        /\ proc[p].at = "old" => flat'
    BY <1>1 DEF Inv, InUseKept, InRoot, Alive, Present
  <2>2. p \in Proc /\ p \in Alive /\ p \in Tracked
    BY <2>1 DEF InRoot, Alive, MayPrune
  <2>3. CASE p = tx.proc
    BY <1>2, <1>4, <1>7, <2>1, <2>3 DEF Inv, InUseKept, Kinds, Kind, Runs, Busy
  <2>4. CASE p # tx.proc
    <3>1. PICK u \in Live : u.pid = p
      BY <2>2, <2>4 DEF Tracked
    <3>2. proc[p].at # "old"
      BY <1>5, <3>1 DEF Inv, Leases
    <3>3. proc[p].exe \in Release => [pid |-> p, release |-> proc[p].exe] \in Live
      BY <1>5, <2>2, <2>4, <3>1 DEF Inv, Leases
    <3>4. proc[p].exe \in Release => proc[p].exe \in Keep
      BY <1>7, <3>3
    <3> QED BY <1>1, <1>4, <2>1, <3>2, <3>4 DEF Inv, InUseKept, Present
  <2> QED BY <2>3, <2>4
<1>17. ReferencedKept'
  <2>1. cmd = "link" => Present(link)'
    BY <1>1, <1>4, <1>7 DEF Inv, ReferencedKept, Present
  <2>2. cmd = "flat" => flat'
    <3>1. cmd = "flat" => ~FlatUnused
      BY <1>2 DEF FlatUnused, Inv, Confirms
    <3>2. cmd = "flat" => flat
      BY DEF Inv, ReferencedKept
    <3>3. MayPrune => flat' = (flat /\ ~FlatUnused)
      BY <1>1
    <3>4. ~MayPrune => flat' = flat
      BY <1>1
    <3> QED BY <3>1, <3>2, <3>3, <3>4, Zenon
  <2>3. Parsed(sel) => sel = tx.state
    BY <1>2 DEF Inv, Selects
  <2>4. /\ Parsed(sel) /\ sel.cur # None => Present(sel.cur)'
        /\ Parsed(sel) /\ sel.pend # None /\ faults = 0 => Present(sel.pend)'
        /\ Parsed(bak) /\ bak.cur # None => Present(bak.cur)'
    BY <1>1, <1>4, <1>7, <2>3 DEF Inv, ReferencedKept, Present
  <2> QED BY <1>1, <2>1, <2>2, <2>4 DEF ReferencedKept, Parsed, Present
<1>18. Starts' /\ Unbacked' /\ WayBack'
  BY <1>1, <1>2, Vacuous DEF Inv, Starts, Unbacked, WayBack, Left, Same, Step, Parsed
<1> QED BY <1>1, <1>9, <1>10, <1>11, <1>12, <1>13, <1>14, <1>15, <1>16, <1>17, <1>18 DEF Inv

(* Publication fails: what the files name then is what they named before.  *)
LEMMA PublishFailsKeeps ==
  ASSUME ConstantsAssumption, Inv, PublishFails
  PROVE  Inv'
<1> DEFINE p == tx.proc
           goesOn == tx.activating /\ Kind = "launch" /\ Good(tx.undo.cur)
<1>1. /\ UNCHANGED <<bak, dirs, link, cmd, flat, usage>>
      /\ faults \in Nat /\ faults' = faults + 1 /\ faults' # 0 /\ faults' >= 1
      /\ sel' = (IF tx.activating THEN tx.undo ELSE sel)
      /\ tx # None /\ tx \in Transaction /\ p \in Proc
      /\ tx.undo \in Selection \cup {None} /\ tx.other \in Release \cup {None}
  BY DEF PublishFails, Doing, Inv, TypeOK, Transaction
<1>2. /\ None \notin Release /\ ~Parsed(None) /\ Bad \notin Selection
      /\ \A s \in Selection : s # None
  BY ConstantsAssumption DEF ConstantsAssumption, Parsed
<1>3. Has(tx.todo, "cmd")
  <2>1. Shaped(tx.todo) /\ tx.todo # <<>> /\ tx.todo \in Seq(Step)
    BY <1>1 DEF PublishFails, Doing, Inv, Shape, Transaction
  <2>2. Head(tx.todo) = "link" \/ Head(tx.todo) = "cmd"
    BY DEF PublishFails, Doing
  <2> QED BY <2>1, <2>2, Rest
<1>4. tx.activating /\ tx.undo = None => cmd # "link" /\ bak = None
  BY <1>1, <1>3 DEF Inv, Kept
<1>5. /\ tx.activating /\ tx.undo # None /\ tx.undo.cur # None => Present(tx.undo.cur)
      /\ tx.activating /\ tx.undo # None /\ tx.undo.conf # None => cmd = "link"
  BY <1>1 DEF Inv, Returns, Confirms
<1>6. /\ sel' \in Selection \cup {None, Bad}
      /\ cmd = "link" => sel' # None
      /\ bak # None => sel' # None
      /\ Parsed(sel') /\ sel'.cur # None => Present(sel'.cur)
      /\ Parsed(sel') /\ sel'.conf # None => cmd = "link"
  BY <1>1, <1>2, <1>4, <1>5 DEF Inv, TypeOK, Kept, Confirms, ReferencedKept, Parsed
<1>7. ReferencedKept' /\ WayBack'
  BY <1>1, <1>6 DEF Inv, ReferencedKept, WayBack, Present, Parsed
<1>8. faults' <= 1 /\ bak = None =>
         /\ Parsed(sel') => sel'.conf = None
         /\ tx.activating /\ tx.undo # None => tx.undo.conf = None
  <2>1. SUFFICES ASSUME faults = 0, bak = None
                 PROVE  /\ Parsed(sel') => sel'.conf = None
                        /\ tx.activating /\ tx.undo # None => tx.undo.conf = None
    BY <1>1
  <2> QED BY <1>1, <1>2, <2>1 DEF Inv, Unbacked, Parsed
<1>9. CASE goesOn
  <2> DEFINE F == Finish(tx.proc, tx.undo)
  <2>1. /\ tx' = [tx EXCEPT !.activating = FALSE, !.state = tx.undo,
                           !.run = tx.other, !.todo = F]
        /\ UNCHANGED proc
    BY <1>9 DEF PublishFails, Kind
  <2>2. /\ F \in Seq(Step) /\ F # <<>> /\ Head(F) = "lease" /\ Shaped(F) /\ Has(F, "lease")
        /\ \A x \in {"stage", "activate", "active", "link", "cmd"} : ~Has(F, x)
        /\ Has(F, "confirm") => Payload(p) /\ tx.undo.cur = proc[p].exe
        /\ Has(F, "bakup") => Has(F, "confirm")
        /\ Before(F, "confirm", "bakup")
    BY FinishProgram
  <2> HIDE DEF F
  <2>3. /\ tx.activating /\ Kind = "launch" /\ tx.undo # None /\ tx.undo \in Selection
        /\ cmd = "link" /\ Good(tx.undo.cur)
        /\ tx.other = tx.undo.cur \/ (tx.other = Runs /\ Runs \in Release)
    BY <1>1, <1>9 DEF Inv, Returns
  <2>4. /\ tx' \in Transaction /\ tx' # None /\ tx'.proc = p /\ tx'.todo = F
        /\ tx'.state = tx.undo /\ tx'.run = tx.other /\ ~tx'.activating
    <3>1. tx' \in Transaction
      BY <1>1, <2>1, <2>2, <2>3 DEF Transaction
    <3> QED BY <1>1, <2>1, <3>1, ConstantsAssumption DEF ConstantsAssumption, Transaction
  <2>5. Kind' = Kind /\ Runs' = Runs
    BY <2>1, <2>4 DEF Kind, Runs
  <2>6. tx.other \in Release /\ Present(tx.other)
    <3>1. Runs \in Release => Present(Runs)
      BY <1>1, <2>3 DEF Inv, InUseKept, InRoot, Alive, Runs, Kind
    <3> QED BY <2>3, <3>1 DEF Good, Present
  <2>7. TypeOK'
    BY <1>1, <1>6, <2>1, <2>4 DEF Inv, TypeOK
  <2>8. Shape' /\ Processes' /\ InUseKept'
    BY <1>1, <2>1, <2>2, <2>4 DEF Inv, Shape, Processes, InUseKept, InRoot, Alive, Present
  <2>9. Kinds'
    BY <1>1, <2>2, <2>3, <2>4, <2>5 DEF Kinds, Busy, Payload, Runs
  <2>10. Leases'
    BY <1>1, <2>1, <2>2, <2>4 DEF Inv, Leases, Alive
  <2>11. Selects'
    BY <1>1, <1>5, <2>2, <2>3, <2>4, <2>5, <2>6 DEF Selects, Coming, Present
  <2>12. Publishes'
    <3>1. ~Doing("cmd")'
      BY <2>2, <2>4 DEF Doing
    <3>2. tx.undo.cur # None
      BY <1>2, <2>3 DEF Good
    <3> QED BY <1>1, <2>3, <2>4, <3>1, <3>2 DEF Publishes
  <2>13. Returns'
    BY <2>2, <2>4 DEF Returns
  <2>14. Kept'
    BY <1>1, <1>6, <2>2, <2>3, <2>4 DEF Kept
  <2>15. Confirms'
    BY <1>1, <1>6, <2>3, <2>4 DEF Inv, Confirms, Parsed
  <2>16. Starts'
    BY <2>2, <2>3, <2>4 DEF Starts, Runs
  <2>17. Unbacked'
    BY <1>1, <1>8, <2>3, <2>4 DEF Unbacked, Parsed
  <2> QED BY <1>7, <2>7, <2>8, <2>9, <2>10, <2>11, <2>12, <2>13, <2>14, <2>15, <2>16, <2>17
      DEF Inv
<1>10. CASE ~goesOn
  <2>1. /\ tx' = None
        /\ proc' = [proc EXCEPT ![p] = [at |-> "gone", exe |-> None, alone |-> FALSE]]
    BY <1>10 DEF PublishFails, Become, Kind
  <2>2. /\ proc'[p].at = "gone" /\ proc'[p].exe = None
        /\ \A q \in Proc \ {p} : proc'[q] = proc[q]
    BY <1>1, <2>1 DEF Inv, TypeOK
  <2>3. TypeOK'
    BY <1>1, <1>6, <2>1 DEF Inv, TypeOK
  <2>4. /\ Processes /\ Leases /\ InUseKept /\ \A u \in usage : u.pid \in Proc
    BY DEF Inv, TypeOK
  <2>5. Processes'
    BY <1>1, <1>2, <2>1, <2>2, <2>4 DEF Processes, Busy
  <2>6. Leases'
    BY <1>1, <1>2, <2>1, <2>2, <2>4 DEF Leases, Alive
  <2>7. InUseKept'
    BY <1>1, <1>2, <2>2, <2>4, ConstantsAssumption
    DEF InUseKept, InRoot, Alive, Present, ConstantsAssumption
  <2>8. Shape' /\ Kinds' /\ Selects' /\ Publishes' /\ Returns'
    BY <2>1 DEF Shape, Kinds, Selects, Publishes, Returns
  <2>9. Kept' /\ Confirms' /\ Starts' /\ Unbacked'
    BY <1>1, <1>6, <1>8, <2>1 DEF Inv, Kept, Confirms, Starts, Unbacked, Parsed
  <2> QED BY <1>7, <2>3, <2>5, <2>6, <2>7, <2>8, <2>9 DEF Inv
<1> QED BY <1>9, <1>10

(* The end: a process runs on from a release that it has a lease for.      *)
LEMMA CommitKeeps ==
  ASSUME ConstantsAssumption, Inv, Commit
  PROVE  Inv'
<1> DEFINE p == tx.proc
           old == IF proc[p].at = "restart" /\ proc[p].exe # tx.run
                  THEN {[pid |-> p, release |-> proc[p].exe]} ELSE {}
<1>1. /\ tx # None /\ tx' = None /\ tx.todo = <<>> /\ usage' = usage \ old
      /\ UNCHANGED <<files, faults>> /\ tx \in Transaction /\ p \in Proc
      /\ None \notin Release
  BY ConstantsAssumption DEF ConstantsAssumption, Commit, Inv, TypeOK, Transaction
<1>2. /\ Kind \in Busy \cup {"run", "asked"}
      /\ \A x : ~Has(tx.todo, x) /\ ~Doing(x)
  BY <1>1 DEF Inv, Kinds, Has, Doing
<1>3. Kind \in {"launch", "restart"} =>
        /\ tx.run \in Release /\ Present(tx.run) /\ cmd = "link"
        /\ [pid |-> p, release |-> tx.run] \in usage'
  BY <1>1, <1>2 DEF Inv, Selects, Coming, Kinds, Leases
<1>4. Kind \in {"run", "asked", "staging"} =>
        /\ proc[p].exe \in Release /\ Present(proc[p].exe)
        /\ [pid |-> p, release |-> proc[p].exe] \in usage'
  BY <1>1 DEF Inv, Leases, Processes, InUseKept, InRoot, Alive, Kind
<1>5. PICK at \in {"start", "run", "asked", "gone"}, exe \in Release \cup {None} :
        /\ proc'[p].at = at /\ proc'[p].exe = exe
        /\ \A q \in Proc \ {p} : proc'[q] = proc[q]
        /\ proc' \in [Proc -> [at : {"new", "start", "looked", "old", "run", "asked", "launch",
                                     "staging", "setup", "restart", "quit", "backend", "gone"},
                               exe : Release \cup {Flat, None}, alone : BOOLEAN]]
        /\ exe \in Release =>
             Present(exe) /\ cmd = "link" /\ [pid |-> p, release |-> exe] \in usage'
        /\ exe = None => at = "gone"
  <2>1. proc \in [Proc -> [at : {"new", "start", "looked", "old", "run", "asked", "launch",
                                 "staging", "setup", "restart", "quit", "backend", "gone"},
                           exe : Release \cup {Flat, None}, alone : BOOLEAN]]
    BY DEF Inv, TypeOK
  <2>2. ASSUME NEW at \in {"start", "run", "gone"}, NEW exe \in Release \cup {None},
               Become(p, at, exe)
        PROVE  /\ proc'[p].at = at /\ proc'[p].exe = exe
               /\ \A q \in Proc \ {p} : proc'[q] = proc[q]
               /\ proc' \in [Proc -> [at : {"new", "start", "looked", "old", "run", "asked", "launch",
                                            "staging", "setup", "restart", "quit", "backend", "gone"},
                                      exe : Release \cup {Flat, None}, alone : BOOLEAN]]
    BY <1>1, <2>1, <2>2 DEF Become
  <2>3. CASE Kind = "launch"
    <3>1. PICK at \in {"start", "run"} : Become(p, at, tx.run)
      BY <2>3 DEF Commit, Kind
    <3> QED BY <1>1, <1>3, <2>2, <2>3, <3>1
  <2>4. CASE Kind = "restart"
    <3>1. Become(p, "start", tx.run)
      BY <2>4 DEF Commit, Kind
    <3> QED BY <1>1, <1>3, <2>2, <2>4, <3>1
  <2>5. CASE Kind = "staging"
    <3>1. Become(p, "run", proc[p].exe)
      BY <2>5 DEF Commit, Kind
    <3>2. cmd = "link"
      BY <1>1, <1>4, <2>5 DEF Inv, Processes
    <3> QED BY <1>1, <1>4, <2>2, <2>5, <3>1, <3>2
  <2>6. CASE Kind \in {"setup", "quit"}
    <3>1. Become(p, "gone", None)
      BY <2>6 DEF Commit, Kind
    <3> QED BY <1>1, <2>2, <3>1
  <2>7. CASE Kind \in {"run", "asked"}
    <3>1. proc' = proc
      BY <2>7 DEF Commit, Kind
    <3>2. cmd = "link"
      BY <1>1, <1>4, <2>7 DEF Inv, Processes
    <3> QED BY <1>1, <1>4, <2>1, <2>7, <3>1, <3>2 DEF Kind
  <2> QED BY <1>2, <2>3, <2>4, <2>5, <2>6, <2>7 DEF Busy
<1>6. TypeOK'
  BY <1>1, <1>5 DEF Inv, TypeOK, files
<1>7. /\ UNCHANGED <<files, faults>> /\ usage' \subseteq usage
      /\ \A u \in usage : u.pid = p \/ u \in usage'
      /\ \A u \in usage : u.pid \in Proc
  BY <1>1 DEF Inv, TypeOK
<1>8. Processes'
  BY <1>1, <1>5, <1>7 DEF Inv, Processes, Busy, files
<1>9. Leases'
  <2>1. \A u \in usage' : proc'[u.pid].at \notin {"new", "old"}
    BY <1>5, <1>7 DEF Inv, Leases
  <2>2. ASSUME NEW q \in Proc
        PROVE  /\ proc'[q].at \in {"run", "asked", "staging"} =>
                    [pid |-> q, release |-> proc'[q].exe] \in usage'
               /\ q \in Alive' /\ proc'[q].exe \in Release =>
                    \A u \in usage' : u.pid = q =>
                      [pid |-> q, release |-> proc'[q].exe] \in usage'
    <3>1. CASE q = p
      BY <1>5, <3>1
    <3>2. CASE q # p
      <4>1. [pid |-> q, release |-> proc[q].exe] \in usage =>
              [pid |-> q, release |-> proc[q].exe] \in usage'
        BY <1>7, <3>2
      <4>2. proc'[q] = proc[q]
        BY <1>5, <3>2
      <4> QED BY <1>7, <3>2, <4>1, <4>2 DEF Inv, Leases, Alive
    <3> QED BY <3>1, <3>2
  <2> QED BY <1>1, <2>1, <2>2 DEF Leases
<1>10. InUseKept'
  <2>1. \A q \in Proc \ {p} : proc'[q] = proc[q]
    BY <1>5
  <2>2. proc'[p].at # "old" /\ (proc'[p].exe \in Release => Present(proc'[p].exe))
    BY <1>5
  <2> QED BY <1>7, <2>1, <2>2 DEF Inv, InUseKept, InRoot, Alive, Present, files
<1> QED BY <1>1, <1>6, <1>8, <1>9, <1>10, Ended

----------------------------------------------------------------------------
(* The theorems.                                                           *)

LEMMA InitHolds ==
  ASSUME ConstantsAssumption, Init
  PROVE  Inv
<1>1. /\ sel = None /\ bak = None /\ link = None /\ tx = None /\ faults = 0 /\ usage = {}
      /\ \A r \in Release : dirs[r] = "none"
      /\ \A p \in Proc : proc[p].at = "new" /\ proc[p].exe = None
      /\ cmd # "link" /\ (cmd = "flat" => flat)
  BY ConstantsAssumption DEF Init, ConstantsAssumption
<1>2. TypeOK
  BY ConstantsAssumption DEF Init, TypeOK, ConstantsAssumption
<1>3. Shape /\ Kinds /\ Selects /\ Publishes /\ Returns /\ Kept /\ Confirms
      /\ Starts /\ Unbacked /\ WayBack
  BY <1>1, ConstantsAssumption
  DEF Shape, Kinds, Selects, Publishes, Returns, Kept, Confirms, Starts, Unbacked, WayBack,
      Parsed, ConstantsAssumption
<1>4. Processes /\ Leases /\ InUseKept /\ ReferencedKept
  BY <1>1, ConstantsAssumption
  DEF Processes, Leases, Busy, InUseKept, InRoot, Alive, ReferencedKept, Parsed,
      ConstantsAssumption
<1> QED BY <1>2, <1>3, <1>4 DEF Inv

LEMMA NextKeeps ==
  ASSUME ConstantsAssumption, Inv, [Next]_vars
  PROVE  Inv'
<1>1. ASSUME NEW p \in Proc,
             \/ Start(p) \/ StartSetup(p) \/ LookAround(p) \/ Launch(p) \/ Die(p) \/ Quit(p)
             \/ Stage(p) \/ AskRestart(p) \/ RestartInto(p) \/ Install(p) \/ Cleanup(p)
             \/ \E q \in Proc : StartBackend(p, q) \/ RetainChild(p, q)
      PROVE  Inv'
  BY <1>1, StartKeeps, StartSetupKeeps, LookAroundKeeps, LaunchKeeps, DieKeeps, CleanupKeeps,
     StageKeeps, AskRestartKeeps, RestartIntoKeeps, InstallKeeps, StartBackendKeeps,
     RetainChildKeeps
<1>2. CASE DoActivate
  <2>1. Doing("activate") \/ Doing("active")
    BY <1>2 DEF DoActivate
  <2> QED BY <1>2, <2>1, ActivateDone, ActiveDone
<1>3. CASE \/ DoStage \/ DoConfirm \/ DoBackup \/ DoSelect \/ DoLink \/ DoCommand
           \/ PublishFails \/ DoLease \/ DoPrune \/ Commit \/ Damage
  BY <1>3, StageDone, ConfirmDone, WritesKeep, PublishFailsKeeps, PruneDone, CommitKeeps,
     DamageKeeps
<1>4. CASE UNCHANGED vars
  <2>1. /\ TypeOK' /\ Processes' /\ Leases' /\ InUseKept'
        /\ UNCHANGED <<files, tx, faults, proc>>
    BY <1>4 DEF Inv, vars, files, TypeOK, Processes, Leases, InUseKept, InRoot, Alive,
                Kind, Present
  <2> QED BY <2>1, Undisturbed
<1> QED BY <1>1, <1>2, <1>3, <1>4 DEF Next

(* Inv is inductive: it holds at the start and every step keeps it.        *)
THEOREM Invariant == Spec => []Inv
<1>1. Init => Inv
  BY InitHolds, ConstantsAssumption
<1>2. Inv /\ [Next]_vars => Inv'
  BY NextKeeps, ConstantsAssumption
<1> QED BY <1>1, <1>2, PTL DEF Spec

(* Every write is well formed: the files stay within their schema.         *)
THEOREM Typed == Spec => []TypeOK
<1>1. Inv => TypeOK
  BY DEF Inv
<1> QED BY <1>1, Invariant, PTL

(* "Never guess that a release is unused" (release-install.ts:492): no     *)
(* cleanup, of any process, deletes what a running process was started     *)
(* from, whether it has a lease yet or not.                                *)
THEOREM InUse == Spec => []InUseKept
<1>1. Inv => InUseKept
  BY DEF Inv
<1> QED BY <1>1, Invariant, PTL

(* Whatever write a crash comes after, the command, the links, the         *)
(* selection and its backup lead to releases that are on disk              *)
(* (writeSelection, publishCurrent and pruneReleases in their order).      *)
THEOREM Referenced == Spec => []ReferencedKept
<1>1. Inv => ReferencedKept
  BY DEF Inv
<1> QED BY <1>1, Invariant, PTL

(* "The way back" (release-install.ts:506): with one fault of the disk at  *)
(* the most, a backup of a confirmed release is of that release            *)
(* (writeSelection, confirmRelease).                                       *)
THEOREM Way == Spec => []WayBack
<1>1. Inv => WayBack
  BY DEF Inv
<1> QED BY <1>1, Invariant, PTL
=============================================================================
