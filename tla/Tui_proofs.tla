----------------------------- MODULE Tui_proofs -----------------------------
(***************************************************************************)
(* The terminal interface, for any number of conversations, messages,      *)
(* operations and tasks at once.  First the dialogs: the interface is busy *)
(* only while an operation will end it, and a stale answer shows nothing.  *)
(* Then the conversation: no row still sending is lost from sight or stays *)
(* when its send has been answered, and replies are sent with true links.  *)
(* Both modules keep their own variables; the proofs share no state.       *)
(***************************************************************************)
EXTENDS TuiDialogs, TuiConversation, FiniteSetTheorems, TLAPS

(* What a call may end with, and what is asked of the backend: the screens *)
(* of the interface, or to stay, or to load the list once more.            *)
Ends == Screens \cup {Same, Again}
Calls == [waits : Nat, checks : SUBSET Nat, ends : SUBSET Ends, answered : Nat]

(* A call that compares the counter after its last answer, or shows no     *)
(* screen of its own then.                                                 *)
GuardedCall(call) ==
  /\ call \in Calls
  /\ call.answered < call.waits
  /\ call.waits \in call.checks \/ call.ends \subseteq {NoDialog, Same, Again}

(* A table of the operations and what each waits for. *)
Guarded(table) == \A op \in DOMAIN table : GuardedCall(table[op])

Operations ==
  {"installUpdate", "checkForUpdatesFromAbout", "loadControlStatus", "configureControl",
   "dismissControlSetup", "loadAdvancedConfig", "saveAdvancedConfig", "loadRooms",
   "createRoom", "joinRoom", "leaveRoom", "loadRoomInvite", "loadGroupDetails",
   "leaveGroup", "mutePeer", "unmutePeer", "muteGroup", "unmuteGroup",
   "sendFriendRequest", "respondToFriendRequest", "cancelFriendRequest", "unfriendPeer",
   "blockPeer", "blockSenderFromRequest", "loadFriendRequests", "loadBlockedPeers",
   "unblockPeer", "reStun", "loadDebugInfo", "loadFiles", "confirmPendingFileSend",
   "sendFile", "downloadFile", "loadFilesDir", "loadFilesSettings", "loadStorageDir",
   "setFilesDir", "setStorageDir", "clearFilesDir", "clearStorageDir",
   "saveDisplayName", "setAccessibilityFlashing", "saveDndEnabled",
   "testNotificationDelivery", "confirmNotificationDelivery", "disableNotifications",
   "toggleNotificationEvent"}

LEMMA AskGuarded ==
  ASSUME NEW n \in 1..3, NEW C \in SUBSET (1..3), NEW E \in SUBSET Ends,
         n \in C \/ E \subseteq {NoDialog, Same, Again}
  PROVE  GuardedCall(Ask(n, C, E))
BY DEF Ask, GuardedCall, Calls

LEMMA PlainGuarded ==
  ASSUME NEW d \in Ends
  PROVE  GuardedCall(Plain(d))
BY AskGuarded DEF Plain

(* Every operation the interface can start, from any screen, is guarded:   *)
(* table by table, then for the function CallsFrom that joins the tables.  *)
LEMMA UpdateGuarded ==
  ASSUME NEW from
  PROVE  Guarded(UpdateCalls(from)) /\ DOMAIN UpdateCalls(from) =
           {"installUpdate", "checkForUpdatesFromAbout"}
<1>1. /\ GuardedCall(Ask(1, {1}, {"update/installed", "update-token/release"}))
      /\ GuardedCall(Ask(1, {1}, {"update", "about", "update-token"}))
  BY AskGuarded DEF Ends, Screens, Updater
<1> QED  BY <1>1 DEF Guarded, UpdateCalls

LEMMA ControlGuarded ==
  ASSUME NEW from
  PROVE  Guarded(ControlCalls(from)) /\ DOMAIN ControlCalls(from) =
           {"loadControlStatus", "configureControl", "dismissControlSetup",
            "loadAdvancedConfig", "saveAdvancedConfig"}
<1>1. /\ GuardedCall(Plain("control-status"))
      /\ GuardedCall(Plain(NoDialog))
      /\ GuardedCall(Plain("advanced"))
      /\ GuardedCall(Plain(IF from = "customisation-splash" THEN from ELSE "advanced"))
  BY AskGuarded, PlainGuarded DEF Ends, Screens, Updater
<1> QED  BY <1>1 DEF Guarded, ControlCalls

LEMMA RoomGuarded ==
  ASSUME NEW from
  PROVE  Guarded(RoomCalls(from)) /\ DOMAIN RoomCalls(from) =
           {"loadRooms", "createRoom", "joinRoom", "leaveRoom", "loadRoomInvite",
            "loadGroupDetails", "leaveGroup"}
<1>1. GuardedCall(Plain("rooms")) /\ GuardedCall(Plain("group-detail"))
  BY PlainGuarded DEF Ends, Screens
<1>2. /\ GuardedCall(Ask(2, {2}, {"room-created"}))
      /\ GuardedCall(Ask(2, {2}, {"rooms"}))
  BY AskGuarded DEF Ends, Screens
<1>3. GuardedCall(Ask(1, {}, {NoDialog}))
  BY AskGuarded DEF Ends, Screens
<1> QED  BY <1>1, <1>2, <1>3 DEF Guarded, RoomCalls

LEMMA MuteGuarded ==
  ASSUME NEW from
  PROVE  Guarded(MuteCalls(from)) /\ DOMAIN MuteCalls(from) =
           {"mutePeer", "unmutePeer", "muteGroup", "unmuteGroup"}
<1>1. GuardedCall(Ask(2, {1}, {NoDialog}))
  BY AskGuarded DEF Ends, Screens
<1> QED  BY <1>1 DEF Guarded, MuteCalls

LEMMA FriendGuarded ==
  ASSUME NEW from
  PROVE  Guarded(FriendCalls(from)) /\ DOMAIN FriendCalls(from) =
           {"sendFriendRequest", "respondToFriendRequest", "cancelFriendRequest",
            "unfriendPeer", "blockPeer", "blockSenderFromRequest"}
<1>1. GuardedCall(Ask(3, {1}, {NoDialog}))
  BY AskGuarded DEF Ends, Screens
<1> QED  BY <1>1 DEF Guarded, FriendCalls

LEMMA ListsGuarded ==
  ASSUME NEW from
  PROVE  Guarded(FriendLists(from)) /\ DOMAIN FriendLists(from) =
           {"loadFriendRequests", "loadBlockedPeers", "unblockPeer"}
<1>1. /\ GuardedCall(Plain("friend-requests"))
      /\ GuardedCall(Plain("blocked"))
      /\ GuardedCall(Ask(3, {1}, {Again}))
  BY AskGuarded, PlainGuarded DEF Ends, Screens, Updater
<1> QED  BY <1>1 DEF Guarded, FriendLists

LEMMA DebugGuarded ==
  ASSUME NEW from
  PROVE  Guarded(DebugCalls(from)) /\ DOMAIN DebugCalls(from) =
           {"reStun", "loadDebugInfo", "loadFiles"}
<1>1. /\ GuardedCall(Plain(Same))
      /\ GuardedCall(Plain("file-list"))
  BY AskGuarded, PlainGuarded DEF Ends, Screens, Updater
<1> QED  BY <1>1 DEF Guarded, DebugCalls

LEMMA FileGuarded ==
  ASSUME NEW from
  PROVE  Guarded(FileCalls(from)) /\ DOMAIN FileCalls(from) =
           {"confirmPendingFileSend", "sendFile", "downloadFile"}
<1>1. /\ GuardedCall(Plain(NoDialog))
      /\ GuardedCall(Ask(1, {1}, {NoDialog, "file-confirm", Same}))
  BY AskGuarded, PlainGuarded DEF Ends, Screens, Updater
<1> QED  BY <1>1 DEF Guarded, FileCalls

LEMMA StorageGuarded ==
  ASSUME NEW from
  PROVE  Guarded(StorageCalls(from)) /\ DOMAIN StorageCalls(from) =
           {"loadFilesDir", "loadFilesSettings", "loadStorageDir", "setFilesDir",
            "setStorageDir", "clearFilesDir", "clearStorageDir"}
<1>1. /\ GuardedCall(Plain("files-dir"))
      /\ GuardedCall(Plain("files-settings"))
      /\ GuardedCall(Plain("storage-dir"))
      /\ GuardedCall(Plain(IF from \in {"storage-dir", "files-settings"} THEN from
                        ELSE "files-dir"))
      /\ GuardedCall(Plain(IF from \in {"files-settings", "files-dir"} THEN from
                        ELSE "storage-dir"))
  BY AskGuarded, PlainGuarded DEF Ends, Screens, Updater
<1> QED  BY <1>1 DEF Guarded, StorageCalls

LEMMA ProfileGuarded ==
  ASSUME NEW from
  PROVE  Guarded(ProfileCalls(from)) /\ DOMAIN ProfileCalls(from) =
           {"saveDisplayName", "setAccessibilityFlashing", "saveDndEnabled"}
<1>1. /\ GuardedCall(Plain(NoDialog))
      /\ GuardedCall(Plain(Same))
      /\ GuardedCall(Ask(2, {1, 2}, {"control-status", "control/first", NoDialog}))
      /\ GuardedCall(Plain(IF from \in {"notifications", "notification-settings"}
                        THEN "notifications" ELSE Same))
  BY AskGuarded, PlainGuarded DEF Ends, Screens, Updater
<1> QED  BY <1>1 DEF Guarded, ProfileCalls

LEMMA NotificationGuarded ==
  ASSUME NEW from
  PROVE  Guarded(NotificationCalls(from)) /\ DOMAIN NotificationCalls(from) =
           {"testNotificationDelivery", "confirmNotificationDelivery",
            "disableNotifications", "toggleNotificationEvent"}
<1>1. /\ GuardedCall(Ask(1, {1}, AfterTest(from)))
      /\ GuardedCall(Plain(AfterSetup(from, "notifications")))
      /\ GuardedCall(Plain("notification-settings"))
  BY AskGuarded, PlainGuarded DEF Ends, Screens, Updater, AfterTest, AfterSetup
<1> QED  BY <1>1 DEF Guarded, NotificationCalls

LEMMA CallsGuarded ==
  ASSUME NEW from
  PROVE  DOMAIN CallsFrom(from) = Operations /\ Guarded(CallsFrom(from))
<1>1. \A table \in CallTables(from) : Guarded(table)
  BY UpdateGuarded, ControlGuarded, RoomGuarded, MuteGuarded, FriendGuarded, ListsGuarded,
     DebugGuarded, FileGuarded, StorageGuarded, ProfileGuarded, NotificationGuarded
     DEF CallTables
<1>2. UNION {DOMAIN table : table \in CallTables(from)} = Operations
  BY UpdateGuarded, ControlGuarded, RoomGuarded, MuteGuarded, FriendGuarded, ListsGuarded,
     DebugGuarded, FileGuarded, StorageGuarded, ProfileGuarded, NotificationGuarded
     DEF CallTables, Operations
<1>3. DOMAIN CallsFrom(from) = Operations
  BY <1>2 DEF CallsFrom
<1>4. ASSUME NEW op \in DOMAIN CallsFrom(from)
      PROVE  GuardedCall(CallsFrom(from)[op])
  <2> DEFINE table == CHOOSE table \in CallTables(from) : op \in DOMAIN table
  <2>1. \E t \in CallTables(from) : op \in DOMAIN t
    BY DEF CallsFrom
  <2>2. table \in CallTables(from) /\ op \in DOMAIN table
    BY <2>1
  <2>3. CallsFrom(from)[op] = table[op]
    BY DEF CallsFrom
  <2> HIDE DEF table
  <2> QED  BY <2>2, <2>3, <1>1 DEF Guarded
<1> QED  BY <1>3, <1>4 DEF Guarded

(* Every entry, key and button leads to a screen of the interface and runs *)
(* an operation of the tables.                                             *)
LinkKnown(l) == l.show \in Screens \cup {Same} /\ l.run \in Operations \cup {NoCall}

LEMMA LinksKnown == \A l \in Links \cup Categories : LinkKnown(l)
<1>1. \A l \in Categories : LinkKnown(l)
  BY DEF Categories, Show, Run, Link, LinkKnown, Screens, Updater, Operations
<1>2. \A l \in UpdateLinks : LinkKnown(l)
  BY DEF UpdateLinks, Show, Run, Link, LinkKnown, Screens, Updater, Operations
<1>3. \A l \in ControlLinks : LinkKnown(l)
  BY DEF ControlLinks, Show, Run, Link, LinkKnown, Screens, Updater, Operations
<1>4. \A l \in AdvancedLinks : LinkKnown(l)
  BY DEF AdvancedLinks, Show, Run, Link, LinkKnown, Screens, Updater, Operations
<1>5. \A l \in RoomLinks : LinkKnown(l)
  BY DEF RoomLinks, Show, Run, Link, LinkKnown, Screens, Updater, Operations
<1>6. \A l \in ProfileLinks : LinkKnown(l)
  BY DEF ProfileLinks, Show, Run, Link, LinkKnown, Screens, Updater, Operations
<1>7. \A l \in FriendLinks : LinkKnown(l)
  BY DEF FriendLinks, Show, Run, Link, LinkKnown, Screens, Updater, Operations
<1>8. \A l \in BlockLinks : LinkKnown(l)
  BY DEF BlockLinks, Show, Run, Link, LinkKnown, Screens, Updater, Operations
<1>9. \A l \in DebugLinks : LinkKnown(l)
  BY DEF DebugLinks, Show, Run, Link, LinkKnown, Screens, Updater, Operations
<1>10. \A l \in NotificationLinks : LinkKnown(l)
  <2>1. ASSUME NEW enable, NEW confirm, NEW fallback \in Screens
        PROVE  \A l \in DeliveryLinks(enable, confirm, fallback) : LinkKnown(l)
    BY DEF DeliveryLinks, Show, Run, Link, LinkKnown, Operations
  <2>2. "notification-fallback" \in Screens /\ "notification-fallback/first" \in Screens
    BY DEF Screens
  <2> HIDE DEF DeliveryLinks
  <2> QED
    BY <2>1, <2>2
       DEF NotificationLinks, Show, Run, Link, LinkKnown, Screens, Updater, Operations
<1>11. \A l \in FileConfirmLinks : LinkKnown(l)
  BY DEF FileConfirmLinks, Show, Run, Link, LinkKnown, Screens, Updater, Operations
<1>12. \A l \in FileSendLinks : LinkKnown(l)
  BY DEF FileSendLinks, Show, Run, Link, LinkKnown, Screens, Updater, Operations
<1>13. \A l \in FileListLinks : LinkKnown(l)
  BY DEF FileListLinks, Show, Run, Link, LinkKnown, Screens, Updater, Operations
<1>14. \A l \in DownloadLinks : LinkKnown(l)
  BY DEF DownloadLinks, Show, Run, Link, LinkKnown, Screens, Updater, Operations
<1>15. \A l \in LocationLinks : LinkKnown(l)
  BY DEF LocationLinks, Show, Run, Link, LinkKnown, Screens, Updater, Operations
<1>16. \A l \in StorageLinks : LinkKnown(l)
  BY DEF StorageLinks, Show, Run, Link, LinkKnown, Screens, Updater, Operations
<1>17. \A l \in MainLinks : LinkKnown(l)
  BY DEF MainLinks, InlineFriendAction, Show, Run, Link, LinkKnown, Screens, Updater, Operations
<1> QED
  BY <1>1, <1>2, <1>3, <1>4, <1>5, <1>6, <1>7, <1>8, <1>9, <1>10, <1>11, <1>12,
     <1>13, <1>14, <1>15, <1>16, <1>17 DEF Links, FileLinks

LEMMA BackKnown == \A d : LinkKnown(GoBack(d))
BY DEF GoBack, Link, LinkKnown, Screens, Updater, Operations

-----------------------------------------------------------------------------
(* The invariant of the dialogs: every call that waits is guarded          *)
(* (CallsTrue), which no property of the runs says and StaleNeverShows     *)
(* needs; BusyTrue is inductive with the types.                            *)
Tasks == {"startup", "first update check", "update check", "staging", "picker"}
TasksKnown == tasks \subseteq Tasks

DialogTypes ==
  /\ dialog \in Screens
  /\ busy \in BOOLEAN
  /\ holder \in Slots \cup {NoSlot}
  /\ calls \in [Slots -> Calls]
  /\ leaving \in BOOLEAN

CallsTrue == \A s \in Slots : calls[s].waits > 0 => GuardedCall(calls[s])

DialogInv == DialogTypes /\ CallsTrue /\ BusyTrue

LEMMA SlotFacts ==
  /\ MaxCalls \in Nat /\ NoSlot \notin Slots
  /\ Idle \in Calls /\ Idle.waits = 0
  /\ NoDialog \in Screens
BY BoundsAssumption DEF BoundsAssumption, Slots, NoSlot, Idle, Ask, Calls, NoDialog, Screens

LEMMA WaitingFacts ==
  ASSUME DialogTypes, NEW s \in Slots
  PROVE  s \in Waiting <=> calls[s].waits > 0
BY DEF DialogTypes, Calls, Waiting, Free

(* A change of screen leaves the calls waiting and moves the counter on.   *)
LEMMA ScreenChanges ==
  ASSUME DialogInv, NEW d \in Screens, ShowDialog(d), UNCHANGED <<calls, leaving>>
  PROVE  DialogInv'
BY DEF DialogInv, DialogTypes, CallsTrue, BusyTrue, ShowDialog

LEMMA NothingChanges ==
  ASSUME DialogInv, dialog' \in Screens, leaving' \in BOOLEAN,
         UNCHANGED <<busy, holder, calls>>
  PROVE  DialogInv'
BY DEF DialogInv, DialogTypes, CallsTrue, BusyTrue, Waiting, Free

LEMMA BeginKeepsInv ==
  ASSUME DialogInv, NEW op \in Operations, NEW from \in Screens, NEW d \in Screens,
         NEW isBusy, NEW held, Begin(op, from, d, isBusy, held), UNCHANGED leaving,
         isBusy => isBusy = busy /\ held = holder
  PROVE  DialogInv'
<1>1. CASE isBusy
  <2>1. UNCHANGED <<busy, holder, calls>> /\ dialog' = d
    BY <1>1 DEF Begin
  <2> QED  BY <2>1, NothingChanges DEF DialogInv, DialogTypes
<1>2. CASE ~isBusy
  <2> DEFINE call == CallOf[from][op]
  <2>1. PICK s \in Slots :
          /\ dialog' = d /\ busy' = TRUE /\ holder' = s
          /\ calls' = [calls EXCEPT ![s] = call]
    <3>1. Free # {}
      BY <1>2 DEF Begin
    <3>2. (CHOOSE free \in Free : TRUE) \in Slots
      BY <3>1 DEF Free
    <3> QED  BY <1>2, <3>2 DEF Begin
  <2>2. GuardedCall(call)
    <3>1. call = CallsFrom(from)[op]
      BY DEF CallOf
    <3> QED  BY <3>1, CallsGuarded DEF Guarded
  <2> HIDE DEF call
  <2>3. call \in Calls /\ call.waits > 0
    BY <2>2 DEF GuardedCall, Calls
  <2>4. DialogTypes'
    BY <2>1, <2>3 DEF DialogInv, DialogTypes
  <2>5. calls'[s] = call /\ \A t \in Slots : t # s => calls'[t] = calls[t]
    BY <2>1 DEF DialogInv, DialogTypes
  <2>6. CallsTrue'
    BY <2>2, <2>5 DEF DialogInv, CallsTrue
  <2>7. BusyTrue'
    <3>1. calls'[s].waits # 0
      BY <2>3, <2>5 DEF Calls
    <3> QED  BY <2>1, <3>1, SlotFacts DEF BusyTrue, Waiting, Free
  <2> QED  BY <2>4, <2>6, <2>7 DEF DialogInv
<1> QED  BY <1>1, <1>2

LEMMA FollowKeepsInv ==
  ASSUME DialogInv, NEW l, LinkKnown(l), Follow(l), UNCHANGED leaving
  PROVE  DialogInv'
<1>1. CASE l.run = NoCall
  <2>1. CASE l.show = Same
    <3>1. UNCHANGED <<dialog, busy, holder, calls>>
      BY <1>1, <2>1 DEF Follow
    <3> QED  BY <3>1, NothingChanges DEF DialogInv, DialogTypes
  <2>2. CASE l.show # Same
    <3>1. l.show \in Screens /\ ShowDialog(l.show) /\ UNCHANGED calls
      BY <1>1, <2>2 DEF Follow, LinkKnown
    <3> QED  BY <3>1, ScreenChanges
  <2> QED  BY <2>1, <2>2
<1>2. CASE l.run # NoCall
  <2>1. l.run \in Operations /\ dialog \in Screens
    BY <1>2 DEF LinkKnown, DialogInv, DialogTypes
  <2>2. CASE l.show = Same
    <3>1. Begin(l.run, dialog, dialog, busy, holder)
      BY <1>2, <2>2 DEF Follow
    <3> QED  BY <2>1, <3>1, BeginKeepsInv
  <2>3. CASE l.show # Same
    <3>1. Begin(l.run, dialog, l.show, FALSE, NoSlot) /\ l.show \in Screens
      BY <1>2, <2>3 DEF Follow, LinkKnown
    <3> QED  BY <2>1, <3>1, BeginKeepsInv
  <2> QED  BY <2>2, <2>3
<1> QED  BY <1>1, <1>2

(* The end of a call: the counter moves on if it was still the call's.     *)
(* A call is over.  The interface was its own, and is given back, or was   *)
(* another call's.                                                         *)
LEMMA HangKeepsInv ==
  ASSUME DialogInv, NEW s \in Waiting, Hang(s), UNCHANGED leaving, dialog' \in Screens,
         \/ Finish(s)
         \/ UNCHANGED <<busy, holder>> /\ holder # s
         \/ busy' = FALSE /\ holder' = NoSlot
  PROVE  DialogInv'
<1>1. s \in Slots /\ calls' = [calls EXCEPT ![s] = Idle]
  BY DEF Waiting, Hang
<1>2. \/ busy' = FALSE /\ holder' = NoSlot
      \/ UNCHANGED <<busy, holder>> /\ holder # s
  BY DEF Finish
<1>3. calls'[s] = Idle /\ \A t \in Slots : t # s => calls'[t] = calls[t]
  BY <1>1 DEF DialogInv, DialogTypes
<1>4. DialogTypes'
  BY <1>1, <1>2, SlotFacts DEF DialogInv, DialogTypes
<1>5. CallsTrue'
  BY <1>3, SlotFacts DEF DialogInv, CallsTrue
<1>6. BusyTrue'
  BY <1>2, <1>3 DEF DialogInv, BusyTrue, Waiting, Free
<1> QED  BY <1>4, <1>5, <1>6 DEF DialogInv

LEMMA AnswerMarkKeepsInv ==
  ASSUME DialogInv, NEW s \in Waiting, UNCHANGED <<dialog, busy, holder, leaving>>,
         calls[s].answered + 1 < calls[s].waits,
         calls' = [calls EXCEPT ![s].answered = calls[s].answered + 1]
  PROVE  DialogInv'
<1> DEFINE call == [calls[s] EXCEPT !.answered = calls[s].answered + 1]
<1>1. s \in Slots /\ calls[s] \in Calls /\ calls' = [calls EXCEPT ![s] = call]
  BY DEF DialogInv, DialogTypes, Waiting
<1>2. /\ call \in Calls /\ call.waits = calls[s].waits /\ call.checks = calls[s].checks
      /\ call.ends = calls[s].ends /\ call.answered = calls[s].answered + 1
  BY <1>1 DEF Calls
<1> HIDE DEF call
<1>3. calls'[s] = call /\ \A t \in Slots : t # s => calls'[t] = calls[t]
  BY <1>1 DEF DialogInv, DialogTypes
<1>4. DialogTypes'
  BY <1>1, <1>2 DEF DialogInv, DialogTypes
<1>5. GuardedCall(calls[s]) => GuardedCall(call)
  BY <1>2 DEF GuardedCall
<1>6. CallsTrue'
  BY <1>2, <1>3, <1>5 DEF DialogInv, CallsTrue
<1>7. BusyTrue'
  BY <1>1, <1>2, <1>3 DEF DialogInv, BusyTrue, Waiting, Free
<1> QED  BY <1>4, <1>6, <1>7 DEF DialogInv

LEMMA EndKeepsInv ==
  ASSUME DialogInv, NEW s \in Waiting, NEW d \in Ends, End(s, d), UNCHANGED leaving
  PROVE  DialogInv'
<1>0. Same # Again /\ NoDialog \in Screens /\ s \in Slots
  BY SlotFacts DEF Same, Again, Waiting
<1>1. CASE d = Same
  <2>1. UNCHANGED dialog /\ Finish(s) /\ Hang(s)
    BY <1>0, <1>1 DEF End
  <2>2. dialog' \in Screens
    BY <2>1 DEF DialogInv, DialogTypes
  <2> QED  BY <2>1, <2>2, HangKeepsInv
<1>2. CASE d = Again /\ (holder = s \/ ~busy)
  <2> DEFINE call == CallOf[dialog]["loadBlockedPeers"]
  <2>1. /\ UNCHANGED dialog /\ busy' = TRUE /\ holder' = s
        /\ calls' = [calls EXCEPT ![s] = call]
    BY <1>0, <1>2 DEF End
  <2>2. GuardedCall(call)
    <3>1. call = CallsFrom(dialog)["loadBlockedPeers"]
      BY DEF CallOf, DialogInv, DialogTypes
    <3>2. "loadBlockedPeers" \in Operations
      BY DEF Operations
    <3> QED  BY <3>1, <3>2, CallsGuarded DEF Guarded
  <2> HIDE DEF call
  <2>3. call \in Calls /\ call.waits > 0
    BY <2>2 DEF GuardedCall, Calls
  <2>4. DialogTypes'
    BY <1>0, <2>1, <2>3 DEF DialogInv, DialogTypes
  <2>5. calls'[s] = call /\ \A t \in Slots : t # s => calls'[t] = calls[t]
    BY <1>0, <2>1 DEF DialogInv, DialogTypes
  <2>6. CallsTrue'
    BY <2>2, <2>5 DEF DialogInv, CallsTrue
  <2>7. BusyTrue'
    <3>1. calls'[s].waits # 0
      BY <2>3, <2>5 DEF Calls
    <3> QED  BY <1>0, <2>1, <3>1, SlotFacts DEF BusyTrue, Waiting, Free
  <2> QED  BY <2>4, <2>6, <2>7 DEF DialogInv
<1>3. CASE d = Again /\ ~(holder = s \/ ~busy)
  <2>1. UNCHANGED <<dialog, busy, holder>> /\ Hang(s) /\ holder # s
    BY <1>0, <1>3 DEF End
  <2> QED  BY <2>1, HangKeepsInv DEF DialogInv, DialogTypes
<1>4. CASE d \notin {Same, Again}
  <2>1. ShowDialog(d) /\ Hang(s) /\ d \in Screens
    BY <1>4 DEF End, Ends
  <2> QED  BY <2>1, HangKeepsInv DEF ShowDialog
<1> QED  BY <1>1, <1>2, <1>3, <1>4

LEMMA CallKeepsInv ==
  ASSUME DialogInv, NEW s \in Slots, Answer(s) \/ Fail(s)
  PROVE  DialogInv'
<1>1. s \in Waiting /\ UNCHANGED leaving
  BY DEF Answer, Fail, quiet
<1>2. CASE Fail(s)
  BY <1>1, <1>2, HangKeepsInv DEF Fail, DialogInv, DialogTypes
<1>3. CASE Answer(s)
  <2> DEFINE n == calls[s].answered + 1
  <2>1. CASE Overtaken(s, n)
    <3>1. Hang(s) /\ UNCHANGED <<dialog, busy, holder>> /\ holder # s
      BY <1>3, <2>1 DEF Answer, Overtaken
    <3> QED  BY <1>1, <3>1, HangKeepsInv DEF DialogInv, DialogTypes
  <2>2. CASE ~Overtaken(s, n) /\ n < calls[s].waits
    <3>1. calls' = [calls EXCEPT ![s].answered = n] /\ UNCHANGED <<dialog, busy, holder>>
      BY <1>3, <2>2 DEF Answer
    <3> QED  BY <1>1, <2>2, <3>1, AnswerMarkKeepsInv
  <2>3. CASE ~Overtaken(s, n) /\ ~(n < calls[s].waits)
    <3>1. PICK d \in calls[s].ends : End(s, d)
      BY <1>3, <2>3 DEF Answer
    <3>2. d \in Ends
      BY DEF DialogInv, DialogTypes, Calls
    <3> QED  BY <1>1, <3>1, <3>2, EndKeepsInv
  <2> QED  BY <2>1, <2>2, <2>3
<1> QED  BY <1>2, <1>3

LEMMA DialogInitInv == DialogInit => DialogInv
<1> SUFFICES ASSUME DialogInit
             PROVE  DialogInv
  OBVIOUS
<1>1. Idle \in Calls /\ Idle.waits = 0
  BY SlotFacts DEF Idle, Ask
<1> HIDE DEF Idle
<1>2. calls \in [Slots -> Calls] /\ \A s \in Slots : calls[s] = Idle
  BY <1>1 DEF DialogInit
<1>3. DialogTypes
  BY <1>2, SlotFacts DEF DialogInit, DialogTypes
<1>4. CallsTrue
  BY <1>1, <1>2 DEF CallsTrue
<1>5. BusyTrue
  BY DEF DialogInit, BusyTrue
<1> QED  BY <1>3, <1>4, <1>5 DEF DialogInv

LEMMA DialogNextInv == DialogInv /\ [DialogNext]_dialogVars => DialogInv'
<1> SUFFICES ASSUME DialogInv, [DialogNext]_dialogVars
             PROVE  DialogInv'
  OBVIOUS
<1>0. dialog \in Screens /\ leaving \in BOOLEAN
  BY DEF DialogInv, DialogTypes
<1>1. ASSUME NEW l \in LinksOf[dialog], Pick(l)
      PROVE  DialogInv'
  <2>1. LinkKnown(l)
    BY <1>0, <1>1, LinksKnown DEF LinksOf
  <2> QED  BY <1>1, <2>1, FollowKeepsInv DEF Pick, quiet
<1>2. ASSUME NEW l \in Categories, PickCategory(l)
      PROVE  DialogInv'
  <2>1. LinkKnown(l)
    BY <1>2, LinksKnown
  <2> QED  BY <1>2, <2>1, FollowKeepsInv DEF PickCategory, quiet
<1>3. CASE ToggleSettings
  <2>1. /\ ShowDialog(IF dialog = "settings" THEN NoDialog ELSE "settings")
        /\ UNCHANGED <<calls, leaving>>
    BY <1>3 DEF ToggleSettings, quiet
  <2>2. (IF dialog = "settings" THEN NoDialog ELSE "settings") \in Screens
    BY DEF Screens
  <2> QED  BY <2>1, <2>2, ScreenChanges
<1>4. CASE OpenFriendsInbox
  <2>1. "friends" \in Screens
    BY DEF Screens
  <2> QED  BY <1>4, <2>1, ScreenChanges DEF OpenFriendsInbox, quiet
<1>5. CASE Back
  BY <1>5, BackKnown, FollowKeepsInv DEF Back, quiet
<1>6. CASE DismissOnOverlay
  BY <1>6, SlotFacts, ScreenChanges DEF DismissOnOverlay, quiet
<1>7. CASE DismissUpdate
  BY <1>7, SlotFacts, ScreenChanges DEF DismissUpdate, quiet
<1>8. CASE Leave
  BY <1>0, <1>8, NothingChanges DEF Leave
<1>9. ASSUME NEW s \in Slots, Answer(s) \/ Fail(s)
      PROVE  DialogInv'
  BY <1>9, CallKeepsInv
<1>10. CASE FriendRequest
  <2>1. "friend-request-incoming" \in Screens
    BY DEF Screens
  <2> QED  BY <1>0, <1>10, <2>1, NothingChanges DEF FriendRequest
<1>11. CASE FinishStartup
  <2>1. {"rename/first", "control/first", "notification-enable/first"} \subseteq Screens
    BY DEF Screens
  <2> QED  BY <1>0, <1>11, <2>1, NothingChanges DEF FinishStartup
<1>12. CASE UpdateChecked
  <2>1. {"update", "update-token"} \subseteq Screens
    BY DEF Screens, Updater
  <2> QED  BY <1>0, <1>12, <2>1, ScreenChanges, NothingChanges DEF UpdateChecked
<1>13. CASE PasteFile
  BY <1>0, <1>13, NothingChanges DEF PasteFile
<1>14. CASE FileStaged
  <2>1. "file-confirm" \in Screens
    BY DEF Screens
  <2> QED  BY <1>0, <1>14, <2>1, ScreenChanges, NothingChanges DEF FileStaged
<1>15. CASE OpenFilePicker
  BY <1>0, <1>15, NothingChanges DEF OpenFilePicker
<1>16. CASE FilePicked
  <2>1. "sendFile" \in Operations
    BY DEF Operations
  <2>2. CASE Begin("sendFile", dialog, dialog, busy, holder)
    BY <1>0, <1>16, <2>1, <2>2, BeginKeepsInv DEF FilePicked
  <2>3. CASE UNCHANGED <<dialog, busy, holder, calls>>
    BY <1>0, <1>16, <2>3, NothingChanges DEF FilePicked
  <2> QED  BY <1>16, <2>2, <2>3 DEF FilePicked
<1>17. CASE UNCHANGED dialogVars
  BY <1>0, <1>17, NothingChanges DEF dialogVars
<1> QED
  BY <1>1, <1>2, <1>3, <1>4, <1>5, <1>6, <1>7, <1>8, <1>9, <1>10, <1>11, <1>12,
     <1>13, <1>14, <1>15, <1>16, <1>17 DEF DialogNext

LEMMA DialogAlways == DialogSpec => []DialogInv
  BY DialogInitInv, DialogNextInv, PTL DEF DialogSpec

LEMMA TasksTyped == DialogSpec => []TasksKnown
<1>1. DialogInit => TasksKnown
  BY DEF DialogInit, Tasks, TasksKnown
<1>2. TasksKnown /\ [DialogNext]_dialogVars => TasksKnown'
  BY DEF Tasks, TasksKnown, DialogNext, dialogVars, quiet, Pick, PickCategory, ToggleSettings,
         OpenFriendsInbox, Back, DismissOnOverlay, DismissUpdate, Leave, Answer, Fail,
         FriendRequest, FinishStartup, UpdateChecked, PasteFile, FileStaged,
         OpenFilePicker, FilePicked, Begun, Ended
<1> QED  BY <1>1, <1>2, PTL DEF DialogSpec

(* The screen shown is one of types.ts, and every call waiting ends with a *)
(* screen of types.ts: no link, key, button, event or answer leads         *)
(* anywhere else (the dialogs of ChatApp.tsx and SettingsPanel.tsx).       *)
THEOREM DialogTyped == DialogSpec => [](DialogTypes /\ TasksKnown)
<1>1. DialogInv => DialogTypes
  BY DEF DialogInv
<1> QED  BY <1>1, DialogAlways, TasksTyped, PTL

(* While "Working..." is shown an operation is under way that will end it, *)
(* for any number of operations and tasks at once: no answer, failure,     *)
(* change of screen or overtaken call leaves it on (beginDialogAction,     *)
(* finishDialogAction).                                                    *)
THEOREM BusyEnds == DialogSpec => []BusyTrue
<1>1. DialogInv => BusyTrue
  BY DEF DialogInv
<1> QED  BY <1>1, DialogAlways, PTL

(* An overtaken call with its last answer has compared before, unless it   *)
(* only closes the screen: it is guarded.                                  *)
LEMMA StaleStep ==
  ASSUME DialogInv, NEW s \in Slots, s \in Waiting, holder # s, Answer(s)
  PROVE  dialog' \in {dialog, NoDialog}
<1> DEFINE n == calls[s].answered + 1
<1>1. CASE Overtaken(s, n) \/ n < calls[s].waits
  BY <1>1 DEF Answer
<1>2. CASE ~Overtaken(s, n) /\ ~(n < calls[s].waits)
  <2>1. PICK d \in calls[s].ends : End(s, d)
    BY <1>2 DEF Answer
  <2>2. GuardedCall(calls[s]) /\ calls[s] \in Calls
    BY WaitingFacts DEF DialogInv, DialogTypes, CallsTrue
  <2>3. n = calls[s].waits
    BY <1>2, <2>2 DEF GuardedCall, Calls
  <2>4. calls[s].waits \notin calls[s].checks
    BY <1>2, <2>3 DEF Overtaken
  <2>5. d \in {NoDialog, Same, Again}
    BY <2>1, <2>2, <2>4 DEF GuardedCall
  <2> QED  BY <2>1, <2>5 DEF End, ShowDialog, NoDialog, Same, Again
<1> QED  BY <1>1, <1>2

(* An answer the user no longer waits for never shows the screen it was    *)
(* asked for, for any number of operations at once (the comparisons with   *)
(* dialogActionRef): whatever screens and operations came in between, it   *)
(* leaves the screen alone or closes it.                                   *)
THEOREM StaleAnswersHidden == DialogSpec => StaleNeverShows
<1>1. DialogInv /\ [DialogNext]_dialogVars =>
        [\A s \in Slots : (s \in Waiting /\ holder # s /\ Answer(s))
           => dialog' \in {dialog, NoDialog}]_dialogVars
  BY StaleStep
<1> QED  BY <1>1, DialogAlways, PTL DEF DialogSpec, StaleNeverShows

-----------------------------------------------------------------------------
(* Messages, rows, requests and replies there can be. *)
Messages == Own \cup Received
Rows == [id : Messages, temp : BOOLEAN, state : {"pending", "sent", "failed"}]
Asked == {"send", "history", "refresh", "delete"}
Requests == {Ignored} \cup [do : Asked, conversation : Conversations,
                            message : Messages \cup {NoReply}]
Replies == {Ignored} \cup [do : Asked \cup {"event", "status"},
                           conversation : Conversations,
                           message : Messages \cup {NoReply},
                           ok : BOOLEAN, history : SUBSET Messages]

ConversationTypes ==
  /\ selected \in Conversations \cup {None}
  /\ messages \in SUBSET Rows
  /\ buffer \in [Conversations -> SUBSET Rows]
  /\ meta \in [Own -> {"none", "acked", "failed"}]
  /\ queue \in [Conversations -> Seq(Own)]
  /\ home \in [Messages -> Conversations \cup {None}]
  /\ replyTo \in [Own -> Messages \cup {NoReply}]
  /\ requests \in Seq(Requests)
  /\ replies \in Seq(Replies)
  /\ store \in [Conversations -> SUBSET Messages]
  /\ link \in [Own -> Messages \cup {NoReply}]
  /\ reported \in SUBSET Own
  /\ closed \in BOOLEAN
  /\ visits \in Nat /\ deletes \in Nat

(* The invariant of the conversation.  A row is that of a message there is, *)
(* and one still sending is an own message under its temporary id.         *)
Present == {i \in Messages : Typed(i)}

RowTrue(r) == r.id \in Present /\ (IsPending(r) => r.id \in Own /\ r.temp)
RowsTrue ==
  /\ \A r \in messages : RowTrue(r)
  /\ \A c \in Conversations : \A r \in buffer[c] : RowTrue(r) /\ IsPending(r)

(* So is all the backend has or tells; it has own messages at home only.   *)
StoreTrue ==
  /\ \A c \in Conversations :
       store[c] \subseteq Present /\ \A i \in store[c] \cap Own : home[i] = c
  /\ \A k \in 1..Len(replies) :
       /\ replies[k].do \in {"history", "refresh"} => replies[k].history \subseteq Present
       /\ replies[k].do = "event" => replies[k].message \in Present

(* Own messages are typed in the order of their numbers, and answer ones   *)
(* typed before.                                                           *)
TypedInOrder ==
  /\ \E n \in 0..MaxSends : \A i \in Own : Typed(i) <=> i <= n
  /\ \A i \in Own : ~Typed(i) => meta[i] = "none"
  /\ \A i \in Own : replyTo[i] \in Own => replyTo[i] < i

(* A queue has the unsettled sends of its conversation, in order: all of   *)
(* them, each once.                                                        *)
QueuesTrue ==
  \A c \in Conversations :
    /\ \A k \in 1..Len(queue[c]) :
         home[queue[c][k]] = c /\ meta[queue[c][k]] = "none"
    /\ \A k, l \in 1..Len(queue[c]) : k < l => queue[c][k] < queue[c][l]
    /\ \A i \in Own : home[i] = c /\ meta[i] = "none" =>
         \E k \in 1..Len(queue[c]) : queue[c][k] = i

AtHead(i) == queue[home[i]] # <<>> /\ Head(queue[home[i]]) = i
SameSend(r, q) == r.do = "send" /\ q.do = "send" /\ r.conversation = q.conversation

(* A request under way, given the queues and what the sends have become.   *)
RequestTrue(queues, known, r) ==
  /\ r.do = "send" => /\ queues[r.conversation] # <<>>
                      /\ r.message = Head(queues[r.conversation])
  /\ r.do = "delete" /\ r.message \in Own => known[r.message] # "none"

(* Between the two ends of the connection there is at most one send of a   *)
(* conversation, that of the head of its queue.                            *)
InFlight(asked, answered, queues, known) ==
  /\ \A k \in 1..Len(asked) : RequestTrue(queues, known, asked[k])
  /\ \A k \in 1..Len(answered) : RequestTrue(queues, known, answered[k])
  /\ \A k, l \in 1..Len(asked) : SameSend(asked[k], asked[l]) => k = l
  /\ \A k, l \in 1..Len(answered) : SameSend(answered[k], answered[l]) => k = l
  /\ \A k \in 1..Len(asked), l \in 1..Len(answered) : ~SameSend(asked[k], answered[l])

RequestsTrue == InFlight(requests, replies, queue, meta)

(* The reply link of a message is decided when it becomes the head of its  *)
(* queue, and then every message typed before it there has settled; the    *)
(* backend only has messages whose link is decided.                        *)
LinkTrue(i) ==
  \/ link[i] = replyTo[i]
  \/ /\ link[i] = NoReply /\ replyTo[i] \in Own
     /\ meta[replyTo[i]] = "failed" \/ home[replyTo[i]] # home[i]
LinksDecided ==
  \A i \in Own : Typed(i) =>
    /\ meta[i] # "none" \/ AtHead(i) => LinkTrue(i)
    /\ i \in store[home[i]] => meta[i] # "none" \/ AtHead(i)

(* When the connection is lost nothing is sent any more, and the sends     *)
(* still queued never settle: the second part of the invariant ends there. *)
Going == QueuesTrue /\ RequestsTrue /\ LinksDecided
Shown == RowsTrue /\ StoreTrue /\ TypedInOrder /\ SettledNotPending /\ LinksTrue
ConversationInv == ConversationTypes /\ Shown /\ (closed \/ Going)

(* Of a step: the row of an unsettled message that was in sight, or is new, *)
(* is in sight after it.                                                   *)
StaysInSight(i) ==
  (Typed(i) => InSight(i)) /\ Typed(i)' /\ meta'[i] = "none" => InSight(i)'
SightKept == \A i \in Own : StaysInSight(i)

-----------------------------------------------------------------------------
LEMMA ConversationConstants ==
  /\ MaxSends \in Nat /\ MaxEvents \in Nat
  /\ Own \subseteq Nat \ {0} /\ Received \subseteq Nat \ {0} /\ Own \cap Received = {}
  /\ None \notin Conversations /\ NoReply \notin Messages
  /\ Own \subseteq Messages /\ Received \subseteq Messages
BY ConversationAssumption
   DEF ConversationAssumption, Own, Received, None, Conversations, NoReply, Messages

(* What Append, Head and Tail do to a queue, entry by entry.               *)
LEMMA QueueAppended ==
  ASSUME NEW S, NEW s \in Seq(S), NEW x \in S
  PROVE  /\ Append(s, x) \in Seq(S) /\ Len(Append(s, x)) = Len(s) + 1
         /\ \A k \in 1..Len(s) : Append(s, x)[k] = s[k]
         /\ Append(s, x)[Len(s) + 1] = x
         /\ Len(s) \in Nat
         /\ Append(s, x) # <<>>
         /\ DOMAIN Append(s, x) = 1..Len(s) + 1 /\ DOMAIN s = 1..Len(s)
OBVIOUS

LEMMA QueueServed ==
  ASSUME NEW S, NEW s \in Seq(S), s # <<>>
  PROVE  /\ Tail(s) \in Seq(S) /\ Len(Tail(s)) = Len(s) - 1
         /\ Len(s) \in Nat /\ Len(s) > 0
         /\ \A k \in 1..Len(s) - 1 : Tail(s)[k] = s[k + 1]
         /\ Head(s) = s[1] /\ Head(s) \in S
         /\ DOMAIN Tail(s) = 1..Len(s) - 1 /\ DOMAIN s = 1..Len(s)
OBVIOUS

(* The next number is that of no message yet, and follows all others.      *)
LEMMA NewNumber ==
  ASSUME ConversationInv, NEW i, i = 1 + Cardinality({j \in Own : Typed(j)}), i \in Own
  PROVE  /\ ~Typed(i) /\ \A j \in Own : Typed(j) <=> j < i
         /\ i \in Nat /\ \A j \in Own : j \in Nat
<1> USE DEF ConversationInv, Shown
<1>1. PICK n \in 0..MaxSends : \A j \in Own : Typed(j) <=> j <= n
  BY DEF TypedInOrder
<1>2. MaxSends \in Nat /\ Own = 1..MaxSends
  BY ConversationConstants DEF Own
<1>3. {j \in Own : Typed(j)} = 1..n
  BY <1>1, <1>2
<1>4. Cardinality(1..n) = n
  BY FS_Interval, <1>2
<1> DEFINE T == {j \in Own : Typed(j)}
<1>5. Cardinality(T) = n
  BY <1>3, <1>4, Zenon
<1>6. i = 1 + n
  <2> HIDE DEF T
  <2>1. i = 1 + Cardinality(T)
    BY DEF T
  <2> QED  BY <2>1, <1>5
<1> HIDE DEF ConversationInv, Shown
<1>7. \A j \in Own : Typed(j) <=> j < i
  BY <1>1, <1>2, <1>6
<1>8. i \in Nat /\ \A j \in Own : j \in Nat
  BY <1>2, <1>6
<1> QED  BY <1>7, <1>8

(* One more request, no second send of its conversation.                   *)
LEMMA FlightAsks ==
  ASSUME NEW S, NEW T, NEW rq \in Seq(S), NEW rp \in Seq(T), NEW q, NEW m, NEW r \in S,
         InFlight(rq, rp, q, m), RequestTrue(q, m, r),
         \A k \in 1..Len(rq) : ~SameSend(rq[k], r),
         \A k \in 1..Len(rp) : ~SameSend(rp[k], r)
  PROVE  InFlight(Append(rq, r), rp, q, m)
<1> DEFINE s == Append(rq, r)
<1>1. /\ Len(s) = Len(rq) + 1 /\ Len(rq) \in Nat
      /\ \A k \in 1..Len(rq) : s[k] = rq[k]
      /\ s[Len(rq) + 1] = r
  BY QueueAppended
<1>2. \A k \in 1..Len(s) : k \in 1..Len(rq) \/ k = Len(rq) + 1
  BY <1>1
<1>3. \A x, y : SameSend(x, y) => SameSend(y, x)
  BY DEF SameSend
<1> HIDE DEF s
<1>4. \A k \in 1..Len(s) : RequestTrue(q, m, s[k])
  BY <1>1, <1>2 DEF InFlight
<1>5. \A k, l \in 1..Len(s) : SameSend(s[k], s[l]) => k = l
  BY <1>1, <1>2, <1>3 DEF InFlight
<1>6. \A k \in 1..Len(s), l \in 1..Len(rp) : ~SameSend(s[k], rp[l])
  BY <1>1, <1>2, <1>3 DEF InFlight
<1>7. InFlight(s, rp, q, m)
  BY <1>4, <1>5, <1>6 DEF InFlight
<1> QED  BY <1>7 DEF s

(* The two directions are alike.                                           *)
LEMMA FlightTurned ==
  ASSUME NEW rq, NEW rp, NEW q, NEW m, InFlight(rq, rp, q, m)
  PROVE  InFlight(rp, rq, q, m)
<1>1. \A x, y : SameSend(x, y) => SameSend(y, x)
  BY DEF SameSend
<1> QED  BY <1>1 DEF InFlight

(* One more reply, no second send of its conversation.                     *)
LEMMA FlightTells ==
  ASSUME NEW S, NEW T, NEW rq \in Seq(S), NEW rp \in Seq(T), NEW q, NEW m, NEW r \in T,
         InFlight(rq, rp, q, m), RequestTrue(q, m, r),
         \A k \in 1..Len(rq) : ~SameSend(rq[k], r),
         \A k \in 1..Len(rp) : ~SameSend(rp[k], r)
  PROVE  InFlight(rq, Append(rp, r), q, m)
<1>1. InFlight(rp, rq, q, m)
  BY FlightTurned
<1>2. InFlight(Append(rp, r), rq, q, m)
  BY <1>1, FlightAsks
<1> QED  BY <1>2, FlightTurned

(* The first request leaves; no other is a send of its conversation.       *)
LEMMA FlightShrinks ==
  ASSUME NEW S, NEW rq \in Seq(S), NEW rp, NEW q, NEW m,
         InFlight(rq, rp, q, m), rq # <<>>
  PROVE  /\ InFlight(Tail(rq), rp, q, m) /\ RequestTrue(q, m, Head(rq))
         /\ \A k \in 1..Len(Tail(rq)) : ~SameSend(Tail(rq)[k], Head(rq))
         /\ \A k \in 1..Len(rp) : ~SameSend(rp[k], Head(rq))
<1> DEFINE s == Tail(rq)
<1>1. /\ Len(s) = Len(rq) - 1 /\ Len(rq) \in Nat /\ Len(rq) > 0
      /\ \A k \in 1..Len(rq) - 1 : s[k] = rq[k + 1]
      /\ Head(rq) = rq[1]
  BY QueueServed
<1>2. \A k \in 1..Len(s) : k + 1 \in 1..Len(rq) /\ s[k] = rq[k + 1] /\ k + 1 # 1
  BY <1>1
<1>3. 1 \in 1..Len(rq)
  BY <1>1
<1>4. \A x, y : SameSend(x, y) => SameSend(y, x)
  BY DEF SameSend
<1> HIDE DEF s
<1>5. \A k \in 1..Len(s) : RequestTrue(q, m, s[k])
  BY <1>2 DEF InFlight
<1>6. \A k, l \in 1..Len(s) : SameSend(s[k], s[l]) => k = l
  <2> TAKE k, l \in 1..Len(s)
  <2>1. SameSend(s[k], s[l]) => k + 1 = l + 1
    BY <1>2 DEF InFlight
  <2> QED  BY <2>1
<1>7. \A k \in 1..Len(s), l \in 1..Len(rp) : ~SameSend(s[k], rp[l])
  BY <1>2 DEF InFlight
<1>8. InFlight(s, rp, q, m)
  BY <1>5, <1>6, <1>7 DEF InFlight
<1>9. RequestTrue(q, m, Head(rq))
  BY <1>1, <1>3 DEF InFlight
<1>10. \A k \in 1..Len(s) : ~SameSend(s[k], Head(rq))
  BY <1>1, <1>2, <1>3 DEF InFlight
<1>11. \A k \in 1..Len(rp) : ~SameSend(rp[k], Head(rq))
  BY <1>1, <1>3, <1>4 DEF InFlight
<1> QED  BY <1>8, <1>9, <1>10, <1>11 DEF s

(* The queues and the outcomes change, not what concerns the requests.     *)
LEMMA FlightStays ==
  ASSUME NEW rq, NEW rp, NEW q, NEW m, NEW q2, NEW m2, InFlight(rq, rp, q, m),
         \A k \in 1..Len(rq) : RequestTrue(q2, m2, rq[k]),
         \A k \in 1..Len(rp) : RequestTrue(q2, m2, rp[k])
  PROVE  InFlight(rq, rp, q2, m2)
BY DEF InFlight

(* A new row, at the end of its queue; the request when it is alone there. *)
LEMMA SendKeepsInv ==
  ASSUME ConversationInv, NEW parent, Send(parent)
  PROVE  ConversationInv' /\ SightKept
<1>1. PICK i \in Own :
        /\ ~closed /\ selected # None /\ i = 1 + Cardinality({j \in Own : Typed(j)})
        /\ parent \in {r.id : r \in messages} \cup {NoReply}
        /\ home' = [home EXCEPT ![i] = selected]
        /\ replyTo' = [replyTo EXCEPT ![i] = parent]
        /\ messages' = messages \cup {Row(i, TRUE, "pending")}
        /\ queue' = [queue EXCEPT ![selected] = Append(@, i)]
        /\ IF queue[selected] = <<>>
           THEN /\ requests' = Append(requests, Request("send", selected, i))
                /\ link' = [link EXCEPT ![i] = LinkTo(parent, meta)]
           ELSE UNCHANGED <<requests, link>>
        /\ UNCHANGED <<selected, buffer, meta, replies, store, reported, closed,
                       visits, deletes>>
  BY DEF Send
<1>2. /\ ~Typed(i) /\ \A j \in Own : Typed(j) <=> j < i
      /\ i \in Nat /\ \A j \in Own : j \in Nat
  BY <1>1, NewNumber
<1>3. i \in Own /\ ~closed
  BY <1>1
<1>4. ConversationTypes /\ Shown /\ Going
  BY <1>3 DEF ConversationInv
<1>5. /\ i \in Messages /\ selected \in Conversations /\ selected # None
      /\ home[i] = None /\ meta[i] = "none"
  BY <1>1, <1>3, <1>2, <1>4, ConversationConstants
     DEF ConversationTypes, Typed, Shown, TypedInOrder
<1>6. parent \in Messages \cup {NoReply} /\ (parent \in Own => parent < i)
  <2>1. CASE parent = NoReply
    BY <2>1, ConversationConstants
  <2>2. CASE parent # NoReply
    <3>1. PICK r \in messages : parent = r.id
      BY <1>1, <2>2
    <3>2. parent \in Present
      BY <3>1, <1>4 DEF Shown, RowsTrue, RowTrue
    <3> QED  BY <3>2, <1>2 DEF Present
  <2> QED  BY <2>1, <2>2
<1>7. Row(i, TRUE, "pending") \in Rows
  BY <1>5 DEF Row, Rows
<1>8. LinkTo(parent, meta) \in Messages \cup {NoReply}
  BY <1>6 DEF LinkTo
<1>9. queue[selected] \in Seq(Own)
  BY <1>4, <1>5 DEF ConversationTypes
<1>10. /\ Append(queue[selected], i) \in Seq(Own)
       /\ Len(Append(queue[selected], i)) = Len(queue[selected]) + 1
       /\ \A k \in 1..Len(queue[selected]) :
            Append(queue[selected], i)[k] = queue[selected][k]
       /\ Append(queue[selected], i)[Len(queue[selected]) + 1] = i
       /\ Len(queue[selected]) \in Nat
       /\ Append(queue[selected], i) # <<>>
  BY <1>3, <1>9, QueueAppended
<1>11. ConversationTypes'
  <2>1. Request("send", selected, i) \in Requests
    BY <1>5 DEF Request, Requests, Asked
  <2>2. requests' \in Seq(Requests)
    <3>1. Append(requests, Request("send", selected, i)) \in Seq(Requests)
      BY <2>1, <1>4, QueueAppended DEF ConversationTypes
    <3> QED  BY <3>1, <1>1, <1>4 DEF ConversationTypes
  <2>3. link' \in [Own -> Messages \cup {NoReply}]
    <3>1. CASE queue[selected] = <<>>
      BY <3>1, <1>1, <1>4, <1>8 DEF ConversationTypes
    <3>2. CASE queue[selected] # <<>>
      BY <3>2, <1>1, <1>4 DEF ConversationTypes
    <3> QED  BY <3>1, <3>2
  <2>4. queue' \in [Conversations -> Seq(Own)]
    BY <1>1, <1>4, <1>10 DEF ConversationTypes
  <2>5. home' \in [Messages -> Conversations \cup {None}]
    BY <1>1, <1>4, <1>5 DEF ConversationTypes
  <2> QED
    BY <2>2, <2>3, <2>4, <2>5, <1>1, <1>4, <1>6, <1>7 DEF ConversationTypes
<1>12. home'[i] # None /\ \A j \in Messages : home[j] # None => home'[j] = home[j]
  BY <1>2, <1>1, <1>4, <1>5 DEF ConversationTypes, Typed
<1>13. RowsTrue'
  <2>1. Present \subseteq Present' /\ i \in Present'
    BY <1>12, <1>5 DEF Present, Typed
  <2>2. RowTrue(Row(i, TRUE, "pending"))'
    BY <2>1, <1>3 DEF RowTrue, Row
  <2> QED  BY <2>1, <2>2, <1>1, <1>4 DEF Shown, RowsTrue, RowTrue
<1>14. StoreTrue'
  <2>1. Present \subseteq Present'
    BY <1>12 DEF Present, Typed
  <2>2. \A c \in Conversations : \A j \in store[c] \cap Own : home'[j] = c
    BY <1>12, <1>4, ConversationConstants DEF Shown, StoreTrue, Present, Typed
  <2> QED  BY <2>1, <2>2, <1>1, <1>4 DEF Shown, StoreTrue
<1>15. TypedInOrder'
  <2>1. i \in 0..MaxSends
    BY <1>3, ConversationConstants DEF Own
  <2>4. \A j \in Own : home[j] # None <=> j < i
    BY <1>2 DEF Typed
  <2>5. \A j \in Own : home'[j] # None <=> (j < i \/ j = i)
    BY <2>4, <1>1, <1>4, <1>5, ConversationConstants DEF ConversationTypes
  <2>6. \A j \in Own : home'[j] # None <=> j <= i
    BY <2>5, <1>2
  <2>2. \A j \in Own : home'[j] = None => meta'[j] = "none"
    BY <1>12, <1>1, <1>4, ConversationConstants DEF Shown, TypedInOrder, Typed
  <2>3. \A j \in Own : replyTo'[j] \in Own => replyTo'[j] < j
    BY <1>1, <1>4, <1>6 DEF ConversationTypes, Shown, TypedInOrder
  <2> QED  BY <2>1, <2>6, <2>2, <2>3 DEF TypedInOrder, Typed
<1>16. SightKept
  <2> SUFFICES ASSUME NEW j \in Own, Typed(j) => InSight(j), home'[j] # None
               PROVE  InSight(j)'
    BY DEF SightKept, StaysInSight, Typed
  <2>1. CASE j = i
    BY <2>1, <1>1 DEF InSight
  <2>2. CASE j # i
    <3>1. home[j] # None
      BY <2>2, <1>1, <1>4, ConversationConstants DEF ConversationTypes
    <3> QED  BY <3>1, <1>1 DEF InSight, Typed
  <2> QED  BY <2>1, <2>2
<1>17. SettledNotPending'
  BY <1>1, <1>4, <1>5 DEF Shown, SettledNotPending, Row
<1>18. QueuesTrue'
  <2> SUFFICES ASSUME NEW c \in Conversations
               PROVE  /\ \A k \in 1..Len(queue'[c]) :
                           home'[queue'[c][k]] = c /\ meta'[queue'[c][k]] = "none"
                      /\ \A k, l \in 1..Len(queue'[c]) :
                           k < l => queue'[c][k] < queue'[c][l]
                      /\ \A j \in Own : home'[j] = c /\ meta'[j] = "none" =>
                           \E k \in 1..Len(queue'[c]) : queue'[c][k] = j
    BY DEF QueuesTrue
  <2>0. queue[c] \in Seq(Own) /\ Len(queue[c]) \in Nat
        /\ \A k \in 1..Len(queue[c]) : queue[c][k] \in Own
    BY <1>4 DEF ConversationTypes
  <2>1. /\ \A k \in 1..Len(queue[c]) :
             home[queue[c][k]] = c /\ meta[queue[c][k]] = "none" /\ queue[c][k] < i
        /\ \A k, l \in 1..Len(queue[c]) : k < l => queue[c][k] < queue[c][l]
        /\ \A j \in Own : home[j] = c /\ meta[j] = "none" =>
             \E k \in 1..Len(queue[c]) : queue[c][k] = j
    <3>1. /\ \A k \in 1..Len(queue[c]) :
               home[queue[c][k]] = c /\ meta[queue[c][k]] = "none"
          /\ \A k, l \in 1..Len(queue[c]) : k < l => queue[c][k] < queue[c][l]
          /\ \A j \in Own : home[j] = c /\ meta[j] = "none" =>
               \E k \in 1..Len(queue[c]) : queue[c][k] = j
      BY <1>4 DEF Going, QueuesTrue
    <3>2. \A j \in Own : home[j] = c => j < i
      BY <1>2, ConversationConstants DEF Typed
    <3> QED  BY <3>1, <3>2, <2>0
  <2>2. \A j \in Own : j # i => home'[j] = home[j]
    BY <1>1, <1>4, ConversationConstants DEF ConversationTypes
  <2>3. CASE c # selected
    <3>1. queue'[c] = queue[c]
      BY <2>3, <1>1, <1>4 DEF ConversationTypes
    <3>2. home'[i] # c
      BY <2>3, <1>1, <1>4, <1>5 DEF ConversationTypes
    <3>3. \A j \in Own : home'[j] = c => home[j] = c
      BY <3>2, <2>2
    <3>4. \A k \in 1..Len(queue[c]) : home'[queue[c][k]] = c
      BY <2>0, <2>1, <2>2, <1>2
    <3> QED  BY <3>1, <3>3, <3>4, <2>1, <1>1
  <2>4. CASE c = selected
    <3>1. queue'[c] = Append(queue[c], i) /\ home'[i] = c
      BY <2>4, <1>1, <1>4, <1>5 DEF ConversationTypes
    <3>2. /\ Len(queue'[c]) = Len(queue[c]) + 1
          /\ \A k \in 1..Len(queue[c]) : queue'[c][k] = queue[c][k]
          /\ queue'[c][Len(queue[c]) + 1] = i
      BY <3>1, <2>4, <1>10
    <3>3. \A k \in 1..Len(queue'[c]) : k \in 1..Len(queue[c]) \/ k = Len(queue[c]) + 1
      BY <3>2, <2>0
    <3>4. \A k \in 1..Len(queue'[c]) :
             home'[queue'[c][k]] = c /\ meta'[queue'[c][k]] = "none"
      BY <3>1, <3>2, <3>3, <2>0, <2>1, <2>2, <1>1, <1>2, <1>5
    <3>5. \A k, l \in 1..Len(queue'[c]) : k < l => queue'[c][k] < queue'[c][l]
      <4>1. ASSUME NEW k \in 1..Len(queue'[c]), NEW l \in 1..Len(queue'[c]), k < l
            PROVE  queue'[c][k] < queue'[c][l]
        <5>1. k \in 1..Len(queue[c])
          BY <4>1, <3>2, <2>0
        <5>2. queue'[c][k] = queue[c][k] /\ queue[c][k] < i
          BY <5>1, <3>2, <2>1
        <5>3. CASE l \in 1..Len(queue[c])
          BY <5>1, <5>2, <5>3, <4>1, <3>2, <2>1
        <5>4. CASE l = Len(queue[c]) + 1
          BY <5>2, <5>4, <3>2
        <5> QED  BY <5>3, <5>4, <3>3
      <4> QED  BY <4>1
    <3>6. ASSUME NEW j \in Own, home'[j] = c, meta'[j] = "none"
          PROVE  \E k \in 1..Len(queue'[c]) : queue'[c][k] = j
      <4>1. CASE j = i
        BY <4>1, <3>2, <2>0
      <4>2. CASE j # i
        <5>1. PICK k \in 1..Len(queue[c]) : queue[c][k] = j
          BY <4>2, <3>6, <2>2, <2>1, <1>1
        <5>2. k \in 1..Len(queue'[c])
          BY <3>2, <2>0
        <5> QED  BY <5>1, <5>2, <3>2
      <4> QED  BY <4>1, <4>2
    <3> QED  BY <3>4, <3>5, <3>6
  <2> QED  BY <2>3, <2>4
<1>19. \A c \in Conversations : queue[c] # <<>> =>
          queue'[c] # <<>> /\ Head(queue'[c]) = Head(queue[c])
  <2> SUFFICES ASSUME NEW c \in Conversations, queue[c] # <<>>
               PROVE  queue'[c] # <<>> /\ Head(queue'[c]) = Head(queue[c])
    OBVIOUS
  <2>1. CASE c # selected
    BY <2>1, <1>1, <1>4 DEF ConversationTypes
  <2>2. CASE c = selected
    <3>1. queue'[c] = Append(queue[c], i)
      BY <2>2, <1>1, <1>4 DEF ConversationTypes
    <3>2. queue'[c] # <<>>
      BY <3>1, <2>2, <1>10
    <3>3. Head(queue[c]) = queue[c][1] /\ 1 \in 1..Len(queue[c])
      BY <2>2, <1>9, QueueServed
    <3>4. Head(queue'[c]) = queue'[c][1]
      BY <3>1, <2>2, <1>10, <3>2, QueueServed
    <3> QED  BY <3>1, <3>2, <3>3, <3>4, <2>2, <1>10
  <2> QED  BY <2>1, <2>2
<1>20. RequestsTrue'
  <2>1. /\ \A k \in 1..Len(requests) : requests[k] \in Requests
        /\ \A k \in 1..Len(replies) : replies[k] \in Replies
        /\ requests \in Seq(Requests) /\ replies \in Seq(Replies)
    BY <1>4 DEF ConversationTypes
  <2>2. InFlight(requests, replies, queue, meta)
    BY <1>4 DEF Going, RequestsTrue
  <2>3. InFlight(requests, replies, queue', meta')
    <3>1. \A r \in Requests \cup Replies : RequestTrue(queue, meta, r) =>
                                              RequestTrue(queue', meta', r)
      BY <1>19, <1>1 DEF RequestTrue, Requests, Replies, Ignored, Request
    <3>2. /\ \A k \in 1..Len(requests) : RequestTrue(queue', meta', requests[k])
          /\ \A k \in 1..Len(replies) : RequestTrue(queue', meta', replies[k])
      BY <2>1, <2>2, <3>1 DEF InFlight
    <3> QED  BY <2>2, <3>2, FlightStays
  <2>5. CASE queue[selected] # <<>>
    BY <2>3, <2>5, <1>1 DEF RequestsTrue
  <2>6. CASE queue[selected] = <<>>
    <3> DEFINE new == Request("send", selected, i)
    <3>1. new \in Requests
      BY <1>5 DEF Request, Requests, Asked
    <3>2. RequestTrue(queue', meta', new)
      <4>1. queue'[selected] = Append(queue[selected], i)
        BY <1>1, <1>4, <1>5 DEF ConversationTypes
      <4>2. Len(queue[selected]) = 0
        BY <2>6
      <4>3. queue'[selected] # <<>> /\ queue'[selected][1] = i
        BY <4>1, <4>2, <1>10
      <4>4. Head(queue'[selected]) = i
        BY <4>1, <4>3, <1>10, QueueServed
      <4> QED  BY <4>3, <4>4, <1>1 DEF RequestTrue, Request
    <3>3. /\ \A k \in 1..Len(requests) : ~SameSend(requests[k], new)
          /\ \A k \in 1..Len(replies) : ~SameSend(replies[k], new)
      BY <2>2, <2>6 DEF InFlight, RequestTrue, SameSend, Request
    <3>4. InFlight(Append(requests, new), replies, queue', meta')
      <4> HIDE DEF new
      <4> QED  BY <2>1, <2>3, <3>1, <3>2, <3>3, FlightAsks
    <3> QED  BY <3>4, <2>6, <1>1 DEF RequestsTrue
  <2> QED  BY <2>5, <2>6
<1>21. LinksDecided'
  <2> SUFFICES ASSUME NEW j \in Own, home'[j] # None
               PROVE  /\ meta'[j] # "none" \/ AtHead(j)' => LinkTrue(j)'
                      /\ j \in store'[home'[j]] => meta'[j] # "none" \/ AtHead(j)'
    BY DEF LinksDecided, Typed
  <2>1. CASE j # i
    <3>1. /\ home[j] = home'[j] /\ meta'[j] = meta[j] /\ link'[j] = link[j]
          /\ replyTo'[j] = replyTo[j] /\ store'[home[j]] = store[home[j]]
          /\ home[j] # None /\ home[j] \in Conversations
      BY <2>1, <1>1, <1>4, ConversationConstants DEF ConversationTypes
    <3>2. replyTo[j] \in Own => replyTo[j] # i /\ home'[replyTo[j]] = home[replyTo[j]]
                                /\ meta'[replyTo[j]] = meta[replyTo[j]]
      <4>1. replyTo[j] \in Own => replyTo[j] < j /\ j < i
        BY <3>1, <1>2, <1>4 DEF Shown, TypedInOrder, Typed
      <4>2. replyTo[j] \in Own => replyTo[j] # i
        BY <4>1, <1>2
      <4> QED  BY <4>2, <1>1, <1>4, ConversationConstants DEF ConversationTypes
    <3>3. /\ meta[j] # "none" \/ AtHead(j) => LinkTrue(j)
          /\ j \in store[home[j]] => meta[j] # "none" \/ AtHead(j)
      BY <3>1, <1>4 DEF Going, LinksDecided, Typed
    <3>4. LinkTrue(j) => LinkTrue(j)'
      BY <3>1, <3>2 DEF LinkTrue
    <3>5. AtHead(j) => AtHead(j)'
      BY <3>1, <1>19 DEF AtHead
    <3>6. AtHead(j)' /\ meta[j] = "none" => AtHead(j)
      <4> SUFFICES ASSUME AtHead(j)', queue[home[j]] = <<>>, meta[j] = "none"
                   PROVE  FALSE
        BY <3>1, <1>19 DEF AtHead
      <4>1. \E k \in 1..Len(queue[home[j]]) : queue[home[j]][k] = j
        BY <3>1, <1>4 DEF Going, QueuesTrue
      <4> QED  BY <4>1
    <3> QED  BY <3>1, <3>3, <3>4, <3>5, <3>6
  <2>2. CASE j = i
    <3>1. /\ home'[i] = selected /\ meta'[i] = "none" /\ replyTo'[i] = parent
          /\ i \notin store'[selected]
      BY <1>1, <1>4, <1>5, <1>3 DEF ConversationTypes, Shown, StoreTrue, Present, Typed
    <3>2. CASE queue[selected] # <<>>
      <4>1. Head(queue[selected]) # i
        <5>1. Head(queue[selected]) = queue[selected][1] /\ 1 \in 1..Len(queue[selected])
          BY <3>2, <1>9, QueueServed
        <5>2. home[queue[selected][1]] = selected
          BY <5>1, <1>4, <1>5 DEF Going, QueuesTrue
        <5> QED  BY <5>1, <5>2, <1>5
      <4>2. ~AtHead(i)'
        BY <4>1, <3>1, <3>2, <1>5, <1>19 DEF AtHead
      <4> QED  BY <4>2, <3>1, <2>2
    <3>3. CASE queue[selected] = <<>>
      <4>1. link'[i] = LinkTo(parent, meta)
        BY <3>3, <1>1, <1>4, <1>3 DEF ConversationTypes
      <4>2. CASE ~(parent \in Own /\ meta[parent] # "acked")
        <5>1. LinkTrue(i)'
          BY <4>1, <4>2, <3>1, <1>1 DEF LinkTrue, LinkTo
        <5> QED  BY <5>1, <3>1, <2>2
      <4>3. CASE parent \in Own /\ meta[parent] # "acked"
        <5>1. parent # i /\ home'[parent] = home[parent]
          BY <4>3, <1>6, <1>1, <1>2, <1>4, ConversationConstants DEF ConversationTypes
        <5>2. meta[parent] = "none" => home[parent] # selected
          <6> SUFFICES ASSUME meta[parent] = "none", home[parent] = selected
                       PROVE  FALSE
            OBVIOUS
          <6>1. \E k \in 1..Len(queue[selected]) : queue[selected][k] = parent
            BY <4>3, <1>4, <1>5 DEF Going, QueuesTrue
          <6> QED  BY <6>1, <3>3
        <5>3. meta[parent] \in {"none", "failed"}
          BY <4>3, <1>4 DEF ConversationTypes
        <5>4. link'[i] = NoReply
          BY <4>1, <4>3 DEF LinkTo
        <5>5. meta'[parent] = "failed" \/ home'[parent] # home'[i]
          BY <5>1, <5>2, <5>3, <3>1, <1>1
        <5>6. LinkTrue(i)'
          BY <5>4, <5>5, <4>3, <3>1, <1>1 DEF LinkTrue
        <5> QED  BY <5>6, <3>1, <2>2
      <4> QED  BY <4>2, <4>3
    <3> QED  BY <3>2, <3>3
  <2> QED  BY <2>1, <2>2
<1>22. LinksTrue'
  BY <1>21, ConversationConstants DEF LinksDecided, LinkTrue, LinksTrue
<1> QED
  BY <1>11, <1>13, <1>14, <1>15, <1>16, <1>17, <1>18, <1>20, <1>21, <1>22
     DEF ConversationInv, Shown, Going

(* What only depends on the messages typed and their sends.                *)
LEMMA NothingSettles ==
  ASSUME ConversationInv, ~closed,
         UNCHANGED <<meta, queue, home, replyTo, store, link>>
  PROVE  TypedInOrder' /\ QueuesTrue' /\ LinksDecided' /\ LinksTrue'
<1>1. TypedInOrder /\ QueuesTrue /\ LinksDecided /\ LinksTrue
  BY DEF ConversationInv, Shown, Going
<1>2. TypedInOrder'
  BY <1>1 DEF TypedInOrder, Typed
<1>3. QueuesTrue'
  BY <1>1 DEF QueuesTrue
<1>4. LinksDecided'
  BY <1>1 DEF LinksDecided, LinkTrue, AtHead, Typed
<1>5. LinksTrue'
  BY <1>1 DEF LinksTrue, Typed
<1> QED  BY <1>2, <1>3, <1>4, <1>5

LEMMA CancelledKeeps ==
  ASSUME NEW S, Ignored \in S, NEW s \in Seq(S)
  PROVE  /\ Cancelled(s) \in Seq(S) /\ Len(Cancelled(s)) = Len(s)
         /\ \A k \in 1..Len(s) :
              Cancelled(s)[k] = IF s[k].do = "history" THEN Ignored ELSE s[k]
<1>1. Len(s) \in Nat /\ \A k \in 1..Len(s) : s[k] \in S
  OBVIOUS
<1>2. Cancelled(s) = [k \in 1..Len(s) |-> IF s[k].do = "history" THEN Ignored ELSE s[k]]
  BY DEF Cancelled
<1>3. \A k \in 1..Len(s) : (IF s[k].do = "history" THEN Ignored ELSE s[k]) \in S
  BY <1>1
<1> QED  BY <1>1, <1>2, <1>3

(* A change of conversation, given that what is put aside are rows pending *)
(* in the conversation shown, and that at most its history is asked for.   *)
LEMMA TurnKeepsInv ==
  ASSUME ConversationInv, NEW key \in Conversations \cup {None}, Turn(key),
         buffer' \in [Conversations -> SUBSET Rows],
         \A c \in Conversations : \A r \in buffer'[c] :
           r \in buffer[c] \/ (r \in messages /\ IsPending(r)),
         \/ requests' = Cancelled(requests)
         \/ /\ key # None
            /\ requests' = Append(Cancelled(requests), Request("history", key, NoReply))
  PROVE  ConversationInv'
<1>1. /\ ~closed /\ visits' = visits + 1 /\ selected' = key
      /\ messages' = {}
      /\ replies' = Cancelled(replies)
      /\ UNCHANGED <<meta, queue, home, replyTo, store, link, reported, closed, deletes>>
  BY DEF Turn
<1>2. ConversationTypes /\ Shown /\ Going
  BY <1>1 DEF ConversationInv
<1>3. /\ key # None => Request("history", key, NoReply) \in Requests
      /\ Ignored \in Requests /\ Ignored \in Replies
  BY DEF Request, Requests, Asked, Replies
<1>4. requests \in Seq(Requests) /\ replies \in Seq(Replies)
  BY <1>2 DEF ConversationTypes
<1>5. /\ Cancelled(requests) \in Seq(Requests) /\ Len(Cancelled(requests)) = Len(requests)
      /\ \A k \in 1..Len(requests) :
           Cancelled(requests)[k] = IF requests[k].do = "history" THEN Ignored ELSE requests[k]
  BY <1>3, <1>4, CancelledKeeps
<1>6. /\ Cancelled(replies) \in Seq(Replies) /\ Len(Cancelled(replies)) = Len(replies)
      /\ \A k \in 1..Len(replies) :
           Cancelled(replies)[k] = IF replies[k].do = "history" THEN Ignored ELSE replies[k]
  BY <1>3, <1>4, CancelledKeeps
<1>7. ConversationTypes'
  <2>1. requests' \in Seq(Requests)
    BY <1>3, <1>5, QueueAppended
  <2> QED  BY <2>1, <1>1, <1>2, <1>6 DEF ConversationTypes
<1>8. Present' = Present
  BY <1>1 DEF Present, Typed
<1>9. RowsTrue'
  BY <1>1, <1>2, <1>8 DEF Shown, RowsTrue, RowTrue
<1>10. StoreTrue'
  <2>1. Ignored.do \notin {"history", "refresh", "event"}
    BY DEF Ignored, Request
  <2>2. \A k \in 1..Len(replies') :
          /\ replies'[k].do \in {"history", "refresh"} => replies'[k].history \subseteq Present
          /\ replies'[k].do = "event" => replies'[k].message \in Present
    BY <2>1, <1>1, <1>2, <1>6 DEF Shown, StoreTrue
  <2> QED  BY <2>2, <1>1, <1>2, <1>8 DEF Shown, StoreTrue
<1>11. SettledNotPending'
  BY <1>1 DEF SettledNotPending
<1>12. RequestsTrue'
  <2> DEFINE new == Request("history", key, NoReply)
             rq == Cancelled(requests)
             rp == Cancelled(replies)
  <2>1. /\ Ignored.do \notin {"send", "delete"}
        /\ new.do \notin {"send", "delete"}
    BY DEF Ignored, Request
  <2>2. InFlight(requests, replies, queue, meta)
    BY <1>2 DEF Going, RequestsTrue
  <2>3. InFlight(rq, rp, queue, meta)
    <3>1. /\ RequestTrue(queue, meta, Ignored)
          /\ \A r : ~SameSend(Ignored, r) /\ ~SameSend(r, Ignored)
      BY <2>1 DEF RequestTrue, SameSend
    <3>2. /\ Len(rq) = Len(requests) /\ Len(rp) = Len(replies)
          /\ \A k \in 1..Len(requests) : rq[k] = Ignored \/ rq[k] = requests[k]
          /\ \A k \in 1..Len(replies) : rp[k] = Ignored \/ rp[k] = replies[k]
      BY <1>5, <1>6
    <3> HIDE DEF rq, rp
    <3>3. /\ \A k \in 1..Len(rq) : RequestTrue(queue, meta, rq[k])
          /\ \A k \in 1..Len(rp) : RequestTrue(queue, meta, rp[k])
      BY <3>1, <3>2, <2>2 DEF InFlight
    <3>4. /\ \A k, l \in 1..Len(rq) : SameSend(rq[k], rq[l]) => k = l
          /\ \A k, l \in 1..Len(rp) : SameSend(rp[k], rp[l]) => k = l
      BY <3>1, <3>2, <2>2 DEF InFlight
    <3>5. \A k \in 1..Len(rq), l \in 1..Len(rp) : ~SameSend(rq[k], rp[l])
      BY <3>1, <3>2, <2>2 DEF InFlight
    <3> QED  BY <3>3, <3>4, <3>5 DEF InFlight
  <2>4. /\ RequestTrue(queue, meta, new)
        /\ \A r : ~SameSend(r, new)
    BY <2>1 DEF RequestTrue, SameSend
  <2> HIDE DEF new, rq, rp
  <2>5. key # None => InFlight(Append(rq, new), rp, queue, meta)
    BY <2>3, <2>4, <1>3, <1>5, <1>6, FlightAsks DEF rq, rp, new
  <2> QED  BY <2>3, <2>5, <1>1 DEF RequestsTrue, rq, rp, new
<1>13. TypedInOrder' /\ QueuesTrue' /\ LinksDecided' /\ LinksTrue'
  BY <1>1, NothingSettles
<1> QED
  BY <1>7, <1>9, <1>10, <1>11, <1>12, <1>13 DEF ConversationInv, Shown, Going

(* With a conversation selected, a row shown is put aside with those that  *)
(* are, unless no more fit.                                                *)
LEMMA SelectKeepsInv ==
  ASSUME ConversationInv, NEW c \in Conversations, Select(c)
  PROVE  /\ ConversationInv'
         /\ \A i \in Own : StaysInSight(i) \/ LostOnLeaving(i)
<1>1. ConversationTypes /\ Turn(c)
  BY DEF ConversationInv, Select
<1> DEFINE shown == {r \in messages : IsPending(r)}
<1>2. PICK kept : /\ kept \subseteq buffer[c] \cup shown /\ buffer[c] \subseteq kept
                  /\ kept = buffer[c] \cup shown \/ Cardinality(kept) = MaxAside
                  /\ buffer' = [buffer EXCEPT ![c] = kept]
  BY DEF Select, Capped
<1>3. /\ buffer' \in [Conversations -> SUBSET Rows] /\ buffer'[c] = kept
      /\ \A d \in Conversations : buffer[d] \subseteq buffer'[d]
      /\ \A d \in Conversations : d # c => buffer'[d] = buffer[d]
  BY <1>1, <1>2 DEF ConversationTypes
<1>4. \A d \in Conversations : \A r \in buffer'[d] :
        r \in buffer[d] \/ (r \in messages /\ IsPending(r))
  BY <1>2, <1>3
<1>5. ConversationInv'
  <2>1. c # None
    BY ConversationConstants
  <2>2. requests' = Append(Cancelled(requests), Request("history", c, NoReply))
    BY DEF Select
  <2> QED  BY <2>1, <2>2, <1>1, <1>3, <1>4, TurnKeepsInv
<1>6. \A i \in Own : StaysInSight(i) \/ LostOnLeaving(i)
  <2> SUFFICES ASSUME NEW i \in Own, InSight(i)
               PROVE  InSight(i)' \/ LostOnLeaving(i)
    BY <1>1 DEF StaysInSight, Turn, Typed
  <2> DEFINE row == Row(i, TRUE, "pending")
  <2>1. row.id = i /\ IsPending(row)
    BY DEF Row, IsPending
  <2>2. CASE \E d \in Conversations : row \in buffer[d]
    <3>1. \E d \in Conversations : row \in buffer'[d]
      BY <2>2, <1>3
    <3> QED  BY <3>1 DEF InSight
  <2>3. CASE row \in messages /\ kept = buffer[c] \cup shown
    <3>1. row \in buffer'[c]
      BY <2>1, <2>3, <1>3
    <3> QED  BY <3>1 DEF InSight
  <2>4. CASE row \in messages /\ Cardinality(kept) = MaxAside
    <3>1. \E r \in messages : r.id = i
      BY <2>1, <2>4
    <3>2. selected' # selected /\ Cardinality(buffer'[selected']) = MaxAside
      BY <2>4, <1>1, <1>3 DEF Turn
    <3> QED  BY <3>1, <3>2 DEF LostOnLeaving
  <2> QED  BY <2>2, <2>3, <2>4, <1>2 DEF InSight
<1> QED  BY <1>5, <1>6

LEMMA DeselectKeepsInv ==
  ASSUME ConversationInv, Deselect
  PROVE  /\ ConversationInv'
         /\ \A i \in Own : StaysInSight(i) \/ LostOnLeaving(i)
<1>1. /\ ConversationTypes /\ Turn(None)
      /\ requests' = Cancelled(requests) /\ UNCHANGED buffer
  BY DEF ConversationInv, Deselect
<1>2. ConversationInv'
  BY <1>1, TurnKeepsInv DEF ConversationTypes
<1>3. \A i \in Own : StaysInSight(i) \/ LostOnLeaving(i)
  <2> SUFFICES ASSUME NEW i \in Own, InSight(i)
               PROVE  InSight(i)' \/ LostOnLeaving(i)
    BY <1>1 DEF StaysInSight, Turn, Typed
  <2> DEFINE row == Row(i, TRUE, "pending")
  <2>1. row.id = i
    BY DEF Row
  <2>2. CASE \E d \in Conversations : row \in buffer[d]
    BY <2>2, <1>1 DEF InSight
  <2>3. CASE row \in messages
    BY <2>1, <2>3, <1>1 DEF LostOnLeaving, Turn
  <2> QED  BY <2>2, <2>3 DEF InSight
<1> QED  BY <1>2, <1>3

LEMMA DeleteKeepsInv ==
  ASSUME ConversationInv, NEW i \in Messages, Delete(i)
  PROVE  ConversationInv' /\ SightKept
<1>1. /\ ~closed /\ deletes' = deletes + 1
      /\ \E r \in messages : r.id = i
      /\ i \in Own => meta[i] # "none"
      /\ UNCHANGED <<selected, meta, queue, home, replyTo, replies, store, link,
                     reported, closed, visits>>
  BY DEF Delete
<1>2. ConversationTypes /\ Shown /\ Going
  BY <1>1 DEF ConversationInv
<1>3. i \in Present /\ home[i] \in Conversations
  BY <1>1, <1>2, ConversationConstants
     DEF Shown, RowsTrue, RowTrue, Present, Typed, ConversationTypes
<1>4. Present' = Present
  BY <1>1 DEF Present, Typed
<1>5. TypedInOrder' /\ QueuesTrue' /\ LinksDecided' /\ LinksTrue'
  BY <1>1, NothingSettles
<1>6. StoreTrue'
  BY <1>1, <1>2, <1>4 DEF Shown, StoreTrue
<1>7. InFlight(requests, replies, queue, meta)
  BY <1>2 DEF Going, RequestsTrue
<1>8. CASE i \in Own /\ meta[i] = "failed"
  <2>1. /\ messages' = Without(messages, i)
        /\ buffer' = [c \in Conversations |-> Without(buffer[c], i)]
        /\ UNCHANGED requests
    BY <1>8 DEF Delete
  <2>2. ConversationTypes'
    BY <2>1, <1>1, <1>2 DEF ConversationTypes, Without
  <2>3. RowsTrue'
    BY <2>1, <1>2, <1>4 DEF Shown, RowsTrue, RowTrue, Without
  <2>4. SightKept
    <3> SUFFICES ASSUME NEW j \in Own, InSight(j), meta[j] = "none"
                 PROVE  InSight(j)'
      BY <1>1 DEF SightKept, StaysInSight, Typed
    <3>1. j # i /\ Row(j, TRUE, "pending").id = j
      BY <1>8 DEF Row
    <3>2. CASE Row(j, TRUE, "pending") \in messages
      BY <3>1, <3>2, <2>1 DEF Without, InSight
    <3>3. CASE \E d \in Conversations : Row(j, TRUE, "pending") \in buffer[d]
      <4>1. PICK d \in Conversations : Row(j, TRUE, "pending") \in buffer[d]
        BY <3>3
      <4>2. buffer'[d] = {r \in buffer[d] : r.id # i}
        BY <2>1 DEF Without
      <4> QED  BY <3>1, <4>1, <4>2 DEF InSight
    <3> QED  BY <3>2, <3>3 DEF InSight
  <2>5. SettledNotPending'
    BY <2>1, <1>1, <1>2 DEF Shown, SettledNotPending, Without
  <2>6. RequestsTrue'
    BY <2>1, <1>1, <1>7 DEF RequestsTrue
  <2> QED
    BY <2>2, <2>3, <2>4, <2>5, <2>6, <1>5, <1>6 DEF ConversationInv, Shown, Going
<1>9. CASE ~(i \in Own /\ meta[i] = "failed")
  <2> DEFINE new == Request("delete", home[i], i)
  <2>1. requests' = Append(requests, new) /\ UNCHANGED <<messages, buffer>>
    BY <1>9 DEF Delete
  <2>2. new \in Requests
    BY <1>3 DEF Request, Requests, Asked
  <2>3. RequestTrue(queue, meta, new) /\ \A r : ~SameSend(r, new)
    BY <1>1 DEF RequestTrue, SameSend, Request
  <2> HIDE DEF new
  <2>4. ConversationTypes'
    <3>1. requests' \in Seq(Requests)
      BY <2>1, <2>2, <1>2, QueueAppended DEF ConversationTypes
    <3> QED  BY <3>1, <2>1, <1>1, <1>2 DEF ConversationTypes
  <2>5. RowsTrue' /\ SightKept /\ SettledNotPending'
    BY <2>1, <1>1, <1>2, <1>4
       DEF Shown, RowsTrue, RowTrue, SettledNotPending, Typed,
           SightKept, StaysInSight, InSight
  <2>6. RequestsTrue'
    <3>1. InFlight(Append(requests, new), replies, queue, meta)
      BY <2>2, <2>3, <1>2, <1>7, FlightAsks DEF ConversationTypes
    <3> QED  BY <3>1, <2>1, <1>1 DEF RequestsTrue
  <2> QED
    BY <2>4, <2>5, <2>6, <1>5, <1>6 DEF ConversationInv, Shown, Going
<1> QED  BY <1>8, <1>9

(* The rows, when none changes and the messages there are only grow.       *)
LEMMA RowsStay ==
  ASSUME ConversationTypes, Shown, UNCHANGED <<messages, buffer, meta>>,
         Present \subseteq Present', \A j \in Own : home'[j] = home[j]
  PROVE  RowsTrue' /\ SightKept /\ SettledNotPending'
<1>1. RowsTrue'
  BY DEF Shown, RowsTrue, RowTrue
<1>2. SightKept
  BY DEF SightKept, StaysInSight, InSight, Typed
<1>3. SettledNotPending'
  BY DEF Shown, SettledNotPending
<1> QED  BY <1>1, <1>2, <1>3

LEMMA HeadQueued ==
  ASSUME ConversationTypes, QueuesTrue, NEW c \in Conversations, queue[c] # <<>>
  PROVE  /\ Head(queue[c]) = queue[c][1] /\ Head(queue[c]) \in Own
         /\ home[Head(queue[c])] = c /\ meta[Head(queue[c])] = "none"
<1>1. queue[c] \in Seq(Own)
  BY DEF ConversationTypes
<1>2. Head(queue[c]) = queue[c][1] /\ 1 \in 1..Len(queue[c]) /\ Head(queue[c]) \in Own
  BY <1>1, QueueServed
<1> QED  BY <1>2 DEF QueuesTrue

LEMMA ServeKeepsInv ==
  ASSUME ConversationInv, NEW ok \in BOOLEAN, Serve(ok)
  PROVE  ConversationInv' /\ SightKept
<1> DEFINE request == Head(requests)
           c == request.conversation
           i == request.message
           new == Reply(request, ok)
<1>1. /\ ~closed /\ requests # <<>>
      /\ store' = CASE ok /\ request.do = "send" -> [store EXCEPT ![c] = @ \cup {i}]
                     [] ok /\ request.do = "delete" -> [store EXCEPT ![c] = @ \ {i}]
                     [] OTHER -> store
      /\ replies' = Append(replies, new)
      /\ requests' = Tail(requests)
      /\ UNCHANGED <<selected, messages, buffer, meta, queue, home, replyTo, link,
                     reported, closed, visits, deletes>>
  BY DEF Serve
<1>2. ConversationTypes /\ Shown /\ Going
  BY <1>1 DEF ConversationInv
<1>3. /\ requests \in Seq(Requests) /\ replies \in Seq(Replies)
      /\ store \in [Conversations -> SUBSET Messages]
      /\ InFlight(requests, replies, queue, meta)
  BY <1>2 DEF ConversationTypes, Going, RequestsTrue
<1>4. /\ request \in Requests /\ Tail(requests) \in Seq(Requests)
      /\ InFlight(Tail(requests), replies, queue, meta)
      /\ RequestTrue(queue, meta, request)
      /\ \A k \in 1..Len(Tail(requests)) : ~SameSend(Tail(requests)[k], request)
      /\ \A k \in 1..Len(replies) : ~SameSend(replies[k], request)
  BY <1>1, <1>3, QueueServed, FlightShrinks
<1>5. request.do \in {"send", "delete"} =>
        c \in Conversations /\ i \in Messages \cup {NoReply}
  BY <1>4 DEF Requests, Ignored, Request
<1>6. request.do = "send" =>
        c \in Conversations /\ queue[c] # <<>> /\ i = Head(queue[c]) /\ i \in Own
        /\ home[i] = c
  BY <1>4, <1>5, <1>2, HeadQueued DEF RequestTrue, Going
<1>7. /\ new \in Replies
      /\ new.do = request.do /\ new.conversation = c /\ new.message = i
      /\ new.do \in {"history", "refresh"} =>
           new.history = {} \/ (new.history = store[c] /\ c \in Conversations)
      /\ new.do # "event"
  <2>1. CASE request = Ignored
    <3>1. new = Ignored
      BY <2>1 DEF Reply
    <3> QED  BY <2>1, <3>1 DEF Replies, Ignored, Request
  <2>2. CASE request # Ignored
    <3>1. /\ request \in [do : Asked, conversation : Conversations,
                           message : Messages \cup {NoReply}]
          /\ c \in Conversations
      BY <2>2, <1>4 DEF Requests
    <3>2. new = [do |-> request.do, conversation |-> c, message |-> i, ok |-> ok,
                 history |-> IF ok /\ request.do \in {"history", "refresh"}
                             THEN store[c] ELSE {}]
      BY <2>2 DEF Reply
    <3>3. store[c] \in SUBSET Messages
      BY <3>1, <1>3
    <3>4. new \in Replies
      BY <3>1, <3>2, <3>3 DEF Replies
    <3> QED  BY <3>1, <3>2, <3>4 DEF Asked
  <2> QED  BY <2>1, <2>2
<1> HIDE DEF request, new, c, i
<1>8. ConversationTypes'
  <2>1. store' \in [Conversations -> SUBSET Messages]
    <3>1. CASE ok /\ request.do = "send"
      BY <3>1, <1>1, <1>3, <1>6, ConversationConstants
    <3>2. CASE ok /\ request.do = "delete"
      BY <3>2, <1>1, <1>3, <1>5
    <3>3. CASE ~(ok /\ request.do \in {"send", "delete"})
      BY <3>3, <1>1, <1>3
    <3> QED  BY <3>1, <3>2, <3>3
  <2>2. replies' \in Seq(Replies)
    BY <1>1, <1>3, <1>7, QueueAppended
  <2> QED  BY <2>1, <2>2, <1>1, <1>2, <1>4 DEF ConversationTypes
<1>9. Present' = Present
  BY <1>1 DEF Present, Typed
<1>10. \A d \in Conversations : \A j \in store'[d] :
         j \in store[d] \/ (request.do = "send" /\ d = c /\ j = i)
  <2>1. CASE ok /\ request.do = "send"
    BY <2>1, <1>1, <1>3, <1>6
  <2>2. CASE ok /\ request.do = "delete"
    BY <2>2, <1>1, <1>3, <1>5
  <2>3. CASE ~(ok /\ request.do \in {"send", "delete"})
    BY <2>3, <1>1
  <2> QED  BY <2>1, <2>2, <2>3
<1>11. StoreTrue'
  <2>1. i \in Own /\ home[i] = c /\ c \in Conversations => i \in Present
    BY ConversationConstants DEF Present, Typed
  <2>2. /\ \A d \in Conversations :
             store[d] \subseteq Present /\ \A j \in store[d] \cap Own : home[j] = d
        /\ \A k \in 1..Len(replies) :
             /\ replies[k].do \in {"history", "refresh"} => replies[k].history \subseteq Present
             /\ replies[k].do = "event" => replies[k].message \in Present
    BY <1>2 DEF Shown, StoreTrue
  <2>3. \A d \in Conversations :
          store'[d] \subseteq Present /\ \A j \in store'[d] \cap Own : home[j] = d
    BY <2>1, <2>2, <1>6, <1>10
  <2>4. /\ Len(replies') = Len(replies) + 1 /\ Len(replies) \in Nat
        /\ \A k \in 1..Len(replies) : replies'[k] = replies[k]
        /\ replies'[Len(replies) + 1] = new
    BY <1>1, <1>3, <1>7, QueueAppended
  <2>5. new.do \in {"history", "refresh"} => new.history \subseteq Present
    BY <2>2, <1>7
  <2>6. \A k \in 1..Len(replies') : k \in 1..Len(replies) \/ k = Len(replies) + 1
    BY <2>4
  <2>7. \A k \in 1..Len(replies') :
          /\ replies'[k].do \in {"history", "refresh"} => replies'[k].history \subseteq Present
          /\ replies'[k].do = "event" => replies'[k].message \in Present
    BY <2>2, <2>4, <2>5, <2>6, <1>7
  <2> QED  BY <2>3, <2>7, <1>1, <1>9 DEF StoreTrue
<1>12. RowsTrue' /\ SightKept /\ SettledNotPending'
  BY <1>1, <1>2, <1>9, RowsStay
<1>13. TypedInOrder' /\ QueuesTrue'
  BY <1>1, <1>2 DEF Shown, Going, TypedInOrder, QueuesTrue, Typed
<1>14. RequestsTrue'
  <2>1. /\ RequestTrue(queue, meta, new)
        /\ \A r : SameSend(r, new) => SameSend(r, request)
    BY <1>4, <1>7 DEF RequestTrue, SameSend, c, i
  <2>2. InFlight(Tail(requests), Append(replies, new), queue, meta)
    BY <2>1, <1>3, <1>4, <1>7, FlightTells
  <2> QED  BY <2>2, <1>1 DEF RequestsTrue
<1>15. LinksDecided'
  <2> SUFFICES ASSUME NEW j \in Own, Typed(j)
               PROVE  /\ meta[j] # "none" \/ AtHead(j) => LinkTrue(j)
                      /\ j \in store'[home[j]] => meta[j] # "none" \/ AtHead(j)
    BY <1>1 DEF LinksDecided, Typed, AtHead, LinkTrue
  <2>1. /\ meta[j] # "none" \/ AtHead(j) => LinkTrue(j)
        /\ j \in store[home[j]] => meta[j] # "none" \/ AtHead(j)
    BY <1>2 DEF Going, LinksDecided
  <2>2. home[j] \in Conversations
    BY <1>2, ConversationConstants DEF ConversationTypes, Typed
  <2>3. request.do = "send" /\ home[j] = c /\ j = i => AtHead(j)
    BY <1>6 DEF AtHead
  <2> QED  BY <2>1, <2>2, <2>3, <1>10
<1>16. LinksTrue'
  BY <1>15, ConversationConstants DEF LinksDecided, LinkTrue, LinksTrue
<1> QED
  BY <1>8, <1>11, <1>12, <1>13, <1>14, <1>15, <1>16, <1>2 DEF ConversationInv, Shown, Going

(* An event or an answer that is no send reaches the client.               *)
LEMMA TellKeepsFlight ==
  ASSUME ConversationTypes, Going, NEW new \in Replies, new.do \in {"event", "status"}
  PROVE  InFlight(requests, Append(replies, new), queue, meta)
<1>1. /\ requests \in Seq(Requests) /\ replies \in Seq(Replies)
      /\ InFlight(requests, replies, queue, meta)
  BY DEF ConversationTypes, Going, RequestsTrue
<1>2. RequestTrue(queue, meta, new) /\ \A r : ~SameSend(r, new)
  BY DEF RequestTrue, SameSend
<1> QED  BY <1>1, <1>2, FlightTells

LEMMA EventTold ==
  ASSUME NEW do \in {"event", "status"}, NEW c \in Conversations, NEW i \in Messages
  PROVE  /\ Reply(Request(do, c, i), TRUE) \in Replies
         /\ Reply(Request(do, c, i), TRUE).do = do
         /\ Reply(Request(do, c, i), TRUE).message = i
<1>1. Request(do, c, i) # Ignored
  <2>1. Request(do, c, i).do = do /\ Ignored.do = "cancelled"
    BY DEF Request, Ignored
  <2> QED  BY <2>1
<1>2. Reply(Request(do, c, i), TRUE) =
        [do |-> do, conversation |-> c, message |-> i, ok |-> TRUE, history |-> {}]
  BY <1>1 DEF Reply, Request
<1> DEFINE r == [do |-> do, conversation |-> c, message |-> i, ok |-> TRUE,
                history |-> {}]
<1>3. r \in [do : Asked \cup {"event", "status"}, conversation : Conversations,
             message : Messages \cup {NoReply}, ok : BOOLEAN, history : SUBSET Messages]
  OBVIOUS
<1>4. r.do = do /\ r.message = i
  OBVIOUS
<1> HIDE DEF r
<1>5. Reply(Request(do, c, i), TRUE) = r
  BY <1>2 DEF r
<1> QED  BY <1>3, <1>4, <1>5 DEF Replies

LEMMA IncomingKeepsInv ==
  ASSUME ConversationInv, NEW c \in Conversations, Incoming(c)
  PROVE  ConversationInv' /\ SightKept
<1>1. PICK i \in Received :
        /\ ~closed
        /\ home' = [home EXCEPT ![i] = c]
        /\ store' = [store EXCEPT ![c] = @ \cup {i}]
        /\ replies' = Append(replies, Reply(Request("event", c, i), TRUE))
        /\ UNCHANGED <<selected, messages, buffer, meta, queue, replyTo, requests,
                       link, reported, closed, visits, deletes>>
  BY DEF Incoming
<1> DEFINE new == Reply(Request("event", c, i), TRUE)
<1>2. ConversationTypes /\ Shown /\ Going
  BY <1>1 DEF ConversationInv
<1>3. i \in Messages /\ i \notin Own
  BY ConversationConstants
<1>4. new \in Replies /\ new.do = "event" /\ new.message = i
  BY <1>3, EventTold
<1> HIDE DEF new
<1>5. /\ home' \in [Messages -> Conversations \cup {None}] /\ home'[i] = c
      /\ \A j \in Messages : j # i => home'[j] = home[j]
      /\ \A j \in Own : home'[j] = home[j]
  BY <1>1, <1>2, <1>3, ConversationConstants DEF ConversationTypes
<1>6. ConversationTypes'
  <2>1. store' \in [Conversations -> SUBSET Messages]
    BY <1>1, <1>2, <1>3 DEF ConversationTypes
  <2>2. replies' \in Seq(Replies)
    BY <1>1, <1>2, <1>4, QueueAppended DEF ConversationTypes, new
  <2> QED  BY <2>1, <2>2, <1>1, <1>2, <1>5 DEF ConversationTypes
<1>7. Present \subseteq Present' /\ i \in Present'
  BY <1>3, <1>5, ConversationConstants DEF Present, Typed
<1>8. RowsTrue' /\ SightKept /\ SettledNotPending'
  BY <1>1, <1>2, <1>5, <1>7, RowsStay
<1>9. \A d \in Conversations : \A j \in Own : j \in store'[d] <=> j \in store[d]
  BY <1>1, <1>2, <1>3 DEF ConversationTypes
<1>10. StoreTrue'
  <2>1. /\ \A d \in Conversations :
             store[d] \subseteq Present /\ \A j \in store[d] \cap Own : home[j] = d
        /\ \A k \in 1..Len(replies) :
             /\ replies[k].do \in {"history", "refresh"} => replies[k].history \subseteq Present
             /\ replies[k].do = "event" => replies[k].message \in Present
    BY <1>2 DEF Shown, StoreTrue
  <2>2. \A d \in Conversations : store'[d] \subseteq store[d] \cup {i}
    BY <1>1, <1>2 DEF ConversationTypes
  <2>3. \A d \in Conversations :
          store'[d] \subseteq Present' /\ \A j \in store'[d] \cap Own : home'[j] = d
    BY <2>1, <2>2, <1>5, <1>7, <1>9
  <2>4. /\ Len(replies') = Len(replies) + 1 /\ Len(replies) \in Nat
        /\ \A k \in 1..Len(replies) : replies'[k] = replies[k]
        /\ replies'[Len(replies) + 1] = new
    <3>1. replies' = Append(replies, new) /\ replies \in Seq(Replies)
      BY <1>1, <1>2 DEF ConversationTypes, new
    <3> QED  BY <3>1, <1>4, QueueAppended
  <2>5. \A k \in 1..Len(replies') : k \in 1..Len(replies) \/ k = Len(replies) + 1
    BY <2>4
  <2>6. \A k \in 1..Len(replies') :
          /\ replies'[k].do \in {"history", "refresh"} => replies'[k].history \subseteq Present'
          /\ replies'[k].do = "event" => replies'[k].message \in Present'
    BY <2>1, <2>4, <2>5, <1>4, <1>7
  <2> QED  BY <2>3, <2>6 DEF StoreTrue
<1>11. TypedInOrder'
  BY <1>1, <1>2, <1>5 DEF Shown, TypedInOrder, Typed
<1>12. QueuesTrue'
  <2>1. \A d \in Conversations : \A k \in 1..Len(queue[d]) : queue[d][k] \in Own
    BY <1>2 DEF ConversationTypes
  <2> QED  BY <2>1, <1>1, <1>2, <1>5 DEF Going, QueuesTrue
<1>13. RequestsTrue'
  BY <1>1, <1>2, <1>4, TellKeepsFlight DEF RequestsTrue, new
<1>14. LinksDecided'
  <2> SUFFICES ASSUME NEW j \in Own, home[j] # None
               PROVE  /\ meta[j] # "none" \/ AtHead(j) => LinkTrue(j)'
                      /\ j \in store'[home[j]] => meta[j] # "none" \/ AtHead(j)
    BY <1>1, <1>5 DEF LinksDecided, Typed, AtHead
  <2>1. /\ meta[j] # "none" \/ AtHead(j) => LinkTrue(j)
        /\ j \in store[home[j]] => meta[j] # "none" \/ AtHead(j)
    BY <1>2 DEF Going, LinksDecided, Typed
  <2>2. home[j] \in Conversations
    BY <1>2, ConversationConstants DEF ConversationTypes
  <2>3. LinkTrue(j) => LinkTrue(j)'
    BY <1>1, <1>5 DEF LinkTrue
  <2> QED  BY <2>1, <2>2, <2>3, <1>9
<1>15. LinksTrue'
  BY <1>14, ConversationConstants DEF LinksDecided, LinkTrue, LinksTrue
<1> QED
  BY <1>6, <1>8, <1>10, <1>11, <1>12, <1>13, <1>14, <1>15
     DEF ConversationInv, Shown, Going

LEMMA GroupStatusKeepsInv ==
  ASSUME ConversationInv, NEW i \in Own, GroupStatus(i)
  PROVE  ConversationInv' /\ SightKept
<1> DEFINE new == Reply(Request("status", home[i], i), TRUE)
<1>1. /\ ~closed /\ home[i] \in Groups
      /\ reported' = reported \cup {i}
      /\ replies' = Append(replies, new)
      /\ UNCHANGED <<selected, messages, buffer, meta, queue, home, replyTo, requests,
                     store, link, closed, visits, deletes>>
  BY DEF GroupStatus
<1>2. ConversationTypes /\ Shown /\ Going
  BY <1>1 DEF ConversationInv
<1>3. new \in Replies /\ new.do = "status"
  BY <1>1, ConversationConstants, EventTold DEF Conversations
<1> HIDE DEF new
<1>4. ConversationTypes'
  <2>1. replies' \in Seq(Replies)
    BY <1>1, <1>2, <1>3, QueueAppended DEF ConversationTypes
  <2> QED  BY <2>1, <1>1, <1>2 DEF ConversationTypes
<1>5. Present' = Present
  BY <1>1 DEF Present, Typed
<1>6. RowsTrue' /\ SightKept /\ SettledNotPending'
  BY <1>1, <1>2, <1>5, RowsStay
<1>7. StoreTrue'
  <2>1. /\ Len(replies') = Len(replies) + 1 /\ Len(replies) \in Nat
        /\ \A k \in 1..Len(replies) : replies'[k] = replies[k]
        /\ replies'[Len(replies) + 1] = new
    BY <1>1, <1>2, <1>3, QueueAppended DEF ConversationTypes
  <2>2. \A k \in 1..Len(replies') : k \in 1..Len(replies) \/ k = Len(replies) + 1
    BY <2>1
  <2> QED  BY <2>1, <2>2, <1>1, <1>2, <1>3, <1>5 DEF Shown, StoreTrue
<1>8. RequestsTrue'
  BY <1>1, <1>2, <1>3, TellKeepsFlight DEF RequestsTrue
<1>9. TypedInOrder' /\ QueuesTrue' /\ LinksDecided' /\ LinksTrue'
  BY <1>1, NothingSettles
<1> QED  BY <1>4, <1>6, <1>7, <1>8, <1>9 DEF ConversationInv, Shown, Going

(* Receive: the facts about the reply and what stays.                      *)
ReplyTakenFacts(reply) ==
  /\ reply \in Replies
  /\ Tail(replies) \in Seq(Replies)
  /\ InFlight(requests, Tail(replies), queue, meta)
  /\ RequestTrue(queue, meta, reply)
  /\ \A k \in 1..Len(requests) : ~SameSend(requests[k], reply)
  /\ \A k \in 1..Len(Tail(replies)) : ~SameSend(Tail(replies)[k], reply)
  /\ reply.do \in {"history", "refresh"} => reply.history \subseteq Present
  /\ reply.do = "event" => reply.message \in Present
  /\ \A k \in 1..Len(Tail(replies)) :
       LET r == Tail(replies)[k] IN
         /\ r \in Replies
         /\ r.do \in {"history", "refresh"} => r.history \subseteq Present
         /\ r.do = "event" => r.message \in Present

LEMMA ReplyTaken ==
  ASSUME ConversationTypes, Shown, Going, replies # <<>>
  PROVE  ReplyTakenFacts(Head(replies))
<1>1. /\ requests \in Seq(Requests) /\ replies \in Seq(Replies)
      /\ InFlight(replies, requests, queue, meta)
  BY FlightTurned DEF ConversationTypes, Going, RequestsTrue
<1>2. /\ InFlight(requests, Tail(replies), queue, meta)
      /\ RequestTrue(queue, meta, Head(replies))
      /\ \A k \in 1..Len(requests) : ~SameSend(requests[k], Head(replies))
      /\ \A k \in 1..Len(Tail(replies)) : ~SameSend(Tail(replies)[k], Head(replies))
  BY <1>1, FlightShrinks, FlightTurned
<1>3. /\ Tail(replies) \in Seq(Replies) /\ Head(replies) \in Replies
      /\ Head(replies) = replies[1] /\ 1 \in 1..Len(replies)
      /\ \A k \in 1..Len(Tail(replies)) :
           Tail(replies)[k] = replies[k + 1] /\ k + 1 \in 1..Len(replies)
           /\ replies[k + 1] \in Replies
  BY <1>1, QueueServed
<1>4. \A k \in 1..Len(replies) :
        /\ replies[k].do \in {"history", "refresh"} => replies[k].history \subseteq Present
        /\ replies[k].do = "event" => replies[k].message \in Present
  BY DEF Shown, StoreTrue
<1> QED  BY <1>2, <1>3, <1>4 DEF ReplyTakenFacts

(* A reply is taken that settles no send; the history may be asked again.  *)
Took == /\ ~closed /\ replies # <<>> /\ replies' = Tail(replies)
        /\ UNCHANGED <<selected, home, replyTo, store, reported, closed, visits, deletes>>
Calm == /\ UNCHANGED <<meta, queue, link>>
        /\ \/ UNCHANGED requests
           \/ /\ selected \in Conversations
              /\ requests' = Append(requests, Request("refresh", selected, NoReply))

LEMMA CalmKeeps ==
  ASSUME ConversationInv, Took, Calm,
         messages' \in SUBSET Rows, buffer' \in [Conversations -> SUBSET Rows],
         RowsTrue', SettledNotPending'
  PROVE  ConversationInv'
<1>1. ConversationTypes /\ Shown /\ Going
  BY DEF ConversationInv, Took
<1>2. ReplyTakenFacts(Head(replies))
  BY <1>1, ReplyTaken DEF Took
<1> DEFINE new == Request("refresh", selected, NoReply)
<1>3. /\ selected \in Conversations => new \in Requests
      /\ RequestTrue(queue, meta, new) /\ \A r : ~SameSend(r, new)
  BY <1>1 DEF ConversationTypes, Request, Requests, Asked, RequestTrue, SameSend
<1>4. requests \in Seq(Requests) /\ Tail(replies) \in Seq(Replies)
      /\ InFlight(requests, Tail(replies), queue, meta)
  BY <1>1, <1>2 DEF ConversationTypes, ReplyTakenFacts
<1> HIDE DEF new
<1>5. selected \in Conversations => Append(requests, new) \in Seq(Requests)
  BY <1>3, <1>4, QueueAppended
<1>6. selected \in Conversations => InFlight(Append(requests, new), Tail(replies), queue, meta)
  BY <1>3, <1>4, FlightAsks
<1>7. requests' \in Seq(Requests) /\ RequestsTrue'
  <2>1. CASE UNCHANGED requests
    BY <2>1, <1>4 DEF Took, Calm, RequestsTrue
  <2>2. CASE selected \in Conversations /\ requests' = Append(requests, new)
    BY <2>2, <1>5, <1>6 DEF Took, Calm, RequestsTrue
  <2> QED  BY <2>1, <2>2 DEF Calm, new
<1>8. ConversationTypes'
  BY <1>1, <1>4, <1>7 DEF ConversationTypes, Took, Calm
<1>9. StoreTrue'
  <2>1. Present' = Present
    BY DEF Took, Present, Typed
  <2> QED  BY <2>1, <1>1, <1>2 DEF Took, Shown, StoreTrue, ReplyTakenFacts
<1>10. TypedInOrder' /\ QueuesTrue' /\ LinksDecided' /\ LinksTrue'
  BY NothingSettles DEF Took, Calm
<1> QED  BY <1>7, <1>8, <1>9, <1>10 DEF ConversationInv, Shown, Going

(* A row still pending survives the history that replaces the rows.        *)
LEMMA PreserveKeepsPending ==
  ASSUME NEW current, NEW server, NEW j, Row(j, TRUE, "pending") \in current,
         \A r \in server : r.id = j /\ r.temp => r = Row(j, TRUE, "pending")
  PROVE  Row(j, TRUE, "pending") \in Preserve(current, server)
<1> DEFINE p == Row(j, TRUE, "pending")
<1>1. IsPending(p) /\ p.id = j /\ p.temp = TRUE
  BY DEF Row, IsPending
<1> HIDE DEF p
<1>2. p \in current /\ \A r \in server : r.id = j /\ r.temp => r = p
  BY DEF p
<1>3. CASE \E r \in server : SameId(p, r)
  <2>1. PICK r \in server : SameId(p, r)
    BY <1>3
  <2>2. r.id = j /\ r.temp
    BY <2>1, <1>1 DEF SameId
  <2> QED  BY <2>2, <1>2 DEF Preserve, p
<1>4. CASE ~\E r \in server : SameId(p, r)
  BY <1>1, <1>2, <1>4 DEF Preserve, p
<1> QED  BY <1>3, <1>4

LEMMA KnownRows ==
  ASSUME NEW S \in SUBSET Messages, S \subseteq Present
  PROVE  \A r \in Known(S) : r \in Rows /\ RowTrue(r) /\ ~IsPending(r) /\ r.temp = FALSE
<1> SUFFICES ASSUME NEW r \in Known(S)
             PROVE  r \in Rows /\ RowTrue(r) /\ ~IsPending(r) /\ r.temp = FALSE
  OBVIOUS
<1>1. PICK i \in S : r = Row(i, FALSE, "sent")
  BY DEF Known
<1> QED  BY <1>1 DEF Row, Rows, RowTrue, IsPending

(* The rows when the server's, none pending, are merged into them.         *)
LEMMA MergedRows ==
  ASSUME ConversationTypes, Shown, NEW S \in SUBSET Messages, S \subseteq Present,
         UNCHANGED <<home, meta, buffer>>,
         \/ messages' = Preserve(messages, Known(S))
         \/ messages' = messages \cup Known(S)
  PROVE  messages' \in SUBSET Rows /\ RowsTrue' /\ SightKept /\ SettledNotPending'
<1>1. Present' = Present
  BY DEF Present, Typed
<1>2. \A r \in Known(S) : r \in Rows /\ RowTrue(r) /\ ~IsPending(r) /\ r.temp = FALSE
  BY KnownRows
<1>3. messages' \subseteq messages \cup Known(S)
  BY DEF Preserve
<1>4. messages' \in SUBSET Rows
  BY <1>2, <1>3 DEF ConversationTypes
<1>5. RowsTrue'
  BY <1>1, <1>2, <1>3 DEF Shown, RowsTrue, RowTrue
<1>6. SettledNotPending'
  BY <1>2, <1>3 DEF Shown, SettledNotPending
<1>7. \A j \in Own : Row(j, TRUE, "pending") \in messages =>
                      Row(j, TRUE, "pending") \in messages'
  <2> SUFFICES ASSUME NEW j \in Own, Row(j, TRUE, "pending") \in messages
               PROVE  Row(j, TRUE, "pending") \in messages'
    OBVIOUS
  <2>1. Row(j, TRUE, "pending") \in Preserve(messages, Known(S))
    BY <1>2, PreserveKeepsPending
  <2> QED  BY <2>1
<1>8. SightKept
  BY <1>7 DEF SightKept, StaysInSight, InSight, Typed
<1> QED  BY <1>4, <1>5, <1>6, <1>8

LEMMA RefreshKeepsInv ==
  ASSUME ConversationInv, Took, RefreshAnswered(Head(replies)),
         Head(replies).do = "refresh"
  PROVE  ConversationInv' /\ SightKept
<1> DEFINE answer == Head(replies)
<1>1. ConversationTypes /\ Shown /\ Going
  BY DEF ConversationInv, Took
<1>2. ReplyTakenFacts(answer)
  BY <1>1, ReplyTaken DEF Took
<1>3. answer.history \in SUBSET Messages /\ answer.history \subseteq Present
  BY <1>2 DEF ReplyTakenFacts, Present
<1>4. Calm /\ UNCHANGED <<home, meta, buffer>>
  BY DEF RefreshAnswered, Calm, Took
<1>5. messages' = Preserve(messages, Known(answer.history)) \/ UNCHANGED messages
  BY DEF RefreshAnswered
<1> HIDE DEF answer
<1>6. CASE messages' = Preserve(messages, Known(answer.history))
  <2>1. messages' \in SUBSET Rows /\ RowsTrue' /\ SightKept /\ SettledNotPending'
    BY <1>1, <1>3, <1>4, <1>6, MergedRows
  <2> QED  BY <2>1, <1>1, <1>4, CalmKeeps DEF ConversationTypes
<1>7. CASE UNCHANGED messages
  <2>1. Present' = Present
    BY <1>4 DEF Present, Typed
  <2>2. RowsTrue' /\ SightKept /\ SettledNotPending'
    BY <2>1, <1>1, <1>4, <1>7, RowsStay
  <2> QED  BY <2>2, <1>1, <1>4, <1>7, CalmKeeps DEF ConversationTypes
<1> QED  BY <1>5, <1>6, <1>7

LEMMA EventKeepsInv ==
  ASSUME ConversationInv, Took, Head(replies).do \in {"event", "status", "cancelled"},
         \/ Head(replies).do = "event" /\ (\/ PeerMessageEvent(Head(replies))
                                           \/ GroupMessageEvent(Head(replies)))
         \/ Head(replies).do = "status" /\ GroupStatusEvent(Head(replies))
         \/ UNCHANGED <<messages, buffer, meta, queue, requests, link>>
  PROVE  ConversationInv' /\ SightKept
<1> DEFINE event == Head(replies)
<1>1. ConversationTypes /\ Shown /\ Going
  BY DEF ConversationInv, Took
<1>2. ReplyTakenFacts(event)
  BY <1>1, ReplyTaken DEF Took
<1>3. event.do = "event" => {event.message} \in SUBSET Messages
                            /\ {event.message} \subseteq Present
  BY <1>2 DEF ReplyTakenFacts, Present
<1>4. Calm /\ UNCHANGED <<home, meta, buffer>>
  <2>1. event.do # "cancelled" => event.conversation \in Conversations
    BY <1>2 DEF ReplyTakenFacts, Replies, Ignored, Request
  <2> QED
    BY <2>1 DEF PeerMessageEvent, GroupMessageEvent, GroupStatusEvent, Refresh, Calm, Took
<1>5. \/ UNCHANGED messages
      \/ event.do = "event" /\ messages' = messages \cup Known({event.message})
  BY DEF PeerMessageEvent, GroupMessageEvent, GroupStatusEvent
<1> HIDE DEF event
<1>6. CASE event.do = "event" /\ messages' = messages \cup Known({event.message})
  <2>1. messages' \in SUBSET Rows /\ RowsTrue' /\ SightKept /\ SettledNotPending'
    BY <1>1, <1>3, <1>4, <1>6, MergedRows
  <2> QED  BY <2>1, <1>1, <1>4, CalmKeeps DEF ConversationTypes
<1>7. CASE UNCHANGED messages
  <2>1. Present' = Present
    BY <1>4 DEF Present, Typed
  <2>2. RowsTrue' /\ SightKept /\ SettledNotPending'
    BY <2>1, <1>1, <1>4, <1>7, RowsStay
  <2> QED  BY <2>2, <1>1, <1>4, <1>7, CalmKeeps DEF ConversationTypes
<1> QED  BY <1>5, <1>6, <1>7

(* The rows put aside come back as what their sends have become.           *)
LEMMA RevivedRows ==
  ASSUME ConversationTypes, Shown, NEW c \in Conversations, NEW S
  PROVE  /\ \A r \in Revived(buffer[c], S) :
              /\ r \in Rows /\ RowTrue(r)
              /\ IsPending(r) => meta[r.id] = "none"
              /\ r.temp /\ meta[r.id] = "none" => r = Row(r.id, TRUE, "pending")
         /\ \A j \in Own : meta[j] = "none" /\ Row(j, TRUE, "pending") \in buffer[c]
              => Row(j, TRUE, "pending") \in Revived(buffer[c], S)
<1> DEFINE Back1(q) == CASE meta[q.id] = "failed" -> Row(q.id, TRUE, "failed")
                         [] meta[q.id] = "acked" -> Row(q.id, FALSE, "sent")
                         [] OTHER -> q
<1>1. Revived(buffer[c], S) =
        {Back1(q) : q \in {r \in buffer[c] : ~(meta[r.id] = "acked" /\ r.id \in S)}}
  BY DEF Revived
<1>2. ASSUME NEW r \in Revived(buffer[c], S)
      PROVE  /\ r \in Rows /\ RowTrue(r)
             /\ IsPending(r) => meta[r.id] = "none"
             /\ r.temp /\ meta[r.id] = "none" => r = Row(r.id, TRUE, "pending")
  <2>1. PICK q \in buffer[c] : r = Back1(q)
    BY <1>1, <1>2
  <2>2. q \in Rows /\ q.id \in Present /\ q.id \in Own /\ q.temp /\ q.state = "pending"
    BY DEF ConversationTypes, Shown, RowsTrue, RowTrue, IsPending
  <2>3. q = Row(q.id, TRUE, "pending") /\ q.id \in Messages
    BY <2>2 DEF Rows, Row
  <2>4. meta[q.id] \in {"none", "acked", "failed"}
    BY <2>2 DEF ConversationTypes
  <2>5. CASE meta[q.id] = "failed"
    <3>1. r = Row(q.id, TRUE, "failed")
      BY <2>1, <2>5
    <3> QED  BY <3>1, <2>2, <2>3, <2>5 DEF Row, Rows, RowTrue, IsPending
  <2>6. CASE meta[q.id] = "acked"
    <3>1. r = Row(q.id, FALSE, "sent")
      BY <2>1, <2>6
    <3> QED  BY <3>1, <2>2, <2>3, <2>6 DEF Row, Rows, RowTrue, IsPending
  <2>7. CASE meta[q.id] = "none"
    <3>1. r = q
      BY <2>1, <2>7
    <3> QED  BY <3>1, <2>2, <2>3, <2>7 DEF RowTrue, IsPending
  <2> QED  BY <2>4, <2>5, <2>6, <2>7
<1>3. ASSUME NEW j \in Own, meta[j] = "none", Row(j, TRUE, "pending") \in buffer[c]
      PROVE  Row(j, TRUE, "pending") \in Revived(buffer[c], S)
  <2> DEFINE q == Row(j, TRUE, "pending")
  <2>1. q.id = j
    BY DEF Row
  <2> HIDE DEF q
  <2>2. q \in {r \in buffer[c] : ~(meta[r.id] = "acked" /\ r.id \in S)}
    BY <1>3, <2>1 DEF q
  <2>3. Back1(q) = q
    BY <1>3, <2>1
  <2> QED  BY <2>2, <2>3, <1>1 DEF q
<1> QED  BY <1>2, <1>3

LEMMA HistoryKeepsInv ==
  ASSUME ConversationInv, Took, HistoryAnswered(Head(replies)),
         Head(replies).do = "history"
  PROVE  ConversationInv' /\ SightKept
<1> DEFINE answer == Head(replies)
           c == answer.conversation
           H == answer.history
           server == Known(H) \cup Revived(buffer[c], H)
<1>1. ConversationTypes /\ Shown /\ Going
  BY DEF ConversationInv, Took
<1>2. ReplyTakenFacts(answer)
  BY <1>1, ReplyTaken DEF Took
<1>3. H \in SUBSET Messages /\ H \subseteq Present /\ c \in Conversations
  <2>1. answer # Ignored
    BY DEF Ignored, Request
  <2> QED  BY <2>1, <1>2 DEF ReplyTakenFacts, Present, Replies
<1>4. Calm
  BY DEF HistoryAnswered, Calm
<1>5. Present' = Present /\ UNCHANGED <<home, meta>>
  BY <1>4 DEF Took, Present, Typed, Calm
<1>6. \/ /\ messages' = Preserve(messages, server)
         /\ buffer' = [buffer EXCEPT ![c] = {}]
      \/ UNCHANGED <<messages, buffer>>
  BY DEF HistoryAnswered
<1> HIDE DEF answer, c, H
<1>7. CASE UNCHANGED <<messages, buffer>>
  <2>1. RowsTrue' /\ SightKept /\ SettledNotPending'
    BY <1>1, <1>5, <1>7, RowsStay
  <2> QED  BY <2>1, <1>1, <1>4, <1>7, CalmKeeps DEF ConversationTypes
<1>8. CASE /\ messages' = Preserve(messages, server)
           /\ buffer' = [buffer EXCEPT ![c] = {}]
  <2>1. \A r \in Known(H) : r \in Rows /\ RowTrue(r) /\ ~IsPending(r) /\ r.temp = FALSE
    BY <1>3, KnownRows
  <2>2. /\ \A r \in Revived(buffer[c], H) :
             /\ r \in Rows /\ RowTrue(r)
             /\ IsPending(r) => meta[r.id] = "none"
             /\ r.temp /\ meta[r.id] = "none" => r = Row(r.id, TRUE, "pending")
        /\ \A j \in Own : meta[j] = "none" /\ Row(j, TRUE, "pending") \in buffer[c]
             => Row(j, TRUE, "pending") \in Revived(buffer[c], H)
    BY <1>1, <1>3, RevivedRows
  <2>3. \A r \in server :
          /\ r \in Rows /\ RowTrue(r)
          /\ IsPending(r) => meta[r.id] = "none"
          /\ r.temp /\ meta[r.id] = "none" => r = Row(r.id, TRUE, "pending")
    BY <2>1, <2>2
  <2>4. \A j \in Own : meta[j] = "none" /\ Row(j, TRUE, "pending") \in buffer[c]
             => Row(j, TRUE, "pending") \in server
    BY <2>2
  <2> HIDE DEF server
  <2>5. messages' \subseteq messages \cup server /\ server \subseteq messages'
    BY <1>8 DEF Preserve
  <2>6. messages' \in SUBSET Rows /\ buffer' \in [Conversations -> SUBSET Rows]
    BY <1>1, <1>3, <1>8, <2>3, <2>5 DEF ConversationTypes
  <2>7. RowsTrue'
    <3>1. \A d \in Conversations : buffer'[d] \subseteq buffer[d]
      BY <1>1, <1>3, <1>8 DEF ConversationTypes
    <3> QED  BY <3>1, <2>3, <2>5, <1>1, <1>5 DEF Shown, RowsTrue, RowTrue
  <2>8. SettledNotPending'
    BY <2>3, <2>5, <1>1, <1>5 DEF Shown, SettledNotPending
  <2>9. SightKept
    <3> SUFFICES ASSUME NEW j \in Own, InSight(j), meta[j] = "none"
                 PROVE  InSight(j)'
      BY <1>5 DEF SightKept, StaysInSight, Typed
    <3>1. CASE Row(j, TRUE, "pending") \in messages
      <4>1. \A r \in server : r.id = j /\ r.temp => r = Row(j, TRUE, "pending")
        BY <2>3
      <4>2. Row(j, TRUE, "pending") \in Preserve(messages, server)
        BY <3>1, <4>1, PreserveKeepsPending
      <4> QED  BY <4>2, <1>8 DEF InSight
    <3>2. CASE \E d \in Conversations : Row(j, TRUE, "pending") \in buffer[d]
      <4>1. PICK d \in Conversations : Row(j, TRUE, "pending") \in buffer[d]
        BY <3>2
      <4>2. CASE d = c
        BY <4>1, <4>2, <2>4, <2>5 DEF InSight
      <4>3. CASE d # c
        <5>1. buffer'[d] = buffer[d]
          BY <4>3, <1>1, <1>8 DEF ConversationTypes
        <5> QED  BY <4>1, <5>1 DEF InSight
      <4> QED  BY <4>2, <4>3
    <3> QED  BY <3>1, <3>2 DEF InSight
  <2> QED  BY <2>6, <2>7, <2>8, <2>9, <1>4, CalmKeeps
<1> QED  BY <1>6, <1>7, <1>8

LEMMA DeletionKeepsInv ==
  ASSUME ConversationInv, Took, DeleteAnswered(Head(replies)),
         Head(replies).do = "delete"
  PROVE  ConversationInv' /\ SightKept
<1> DEFINE answer == Head(replies)
           i == answer.message
<1>1. ConversationTypes /\ Shown /\ Going
  BY DEF ConversationInv, Took
<1>2. ReplyTakenFacts(answer)
  BY <1>1, ReplyTaken DEF Took
<1>3. i \in Own => meta[i] # "none"
  BY <1>2 DEF ReplyTakenFacts, RequestTrue
<1>4. Calm
  BY DEF DeleteAnswered, Calm
<1>5. Present' = Present /\ UNCHANGED <<home, meta>>
  BY <1>4 DEF Took, Present, Typed, Calm
<1>6. /\ messages' = Without(messages, i) \/ UNCHANGED messages
      /\ \/ buffer' = [d \in Conversations |->
                         IF d = selected THEN Without(buffer[d], i) ELSE buffer[d]]
         \/ UNCHANGED buffer
  BY DEF DeleteAnswered
<1> HIDE DEF answer, i
<1>7. /\ messages' \subseteq messages
      /\ \A r \in messages : r.id # i => r \in messages'
  BY <1>6 DEF Without
<1>8. /\ buffer' \in [Conversations -> SUBSET Rows]
      /\ \A d \in Conversations :
           /\ buffer'[d] \subseteq buffer[d]
           /\ \A r \in buffer[d] : r.id # i => r \in buffer'[d]
  <2>1. CASE UNCHANGED buffer
    BY <2>1, <1>1 DEF ConversationTypes
  <2>2. CASE buffer' = [d \in Conversations |->
                         IF d = selected THEN Without(buffer[d], i) ELSE buffer[d]]
    BY <2>2, <1>1 DEF ConversationTypes, Without
  <2> QED  BY <1>6, <2>1, <2>2
<1>9. messages' \in SUBSET Rows
  BY <1>1, <1>7 DEF ConversationTypes
<1>10. RowsTrue'
  BY <1>1, <1>5, <1>7, <1>8 DEF Shown, RowsTrue, RowTrue
<1>11. SettledNotPending'
  BY <1>1, <1>5, <1>7 DEF Shown, SettledNotPending
<1>12. SightKept
  <2> SUFFICES ASSUME NEW j \in Own, InSight(j), meta[j] = "none"
               PROVE  InSight(j)'
    BY <1>5 DEF SightKept, StaysInSight, Typed
  <2>1. j # i /\ Row(j, TRUE, "pending").id = j
    BY <1>3 DEF Row
  <2>2. CASE Row(j, TRUE, "pending") \in messages
    BY <2>1, <2>2, <1>7 DEF InSight
  <2>3. CASE \E d \in Conversations : Row(j, TRUE, "pending") \in buffer[d]
    BY <2>1, <2>3, <1>8 DEF InSight
  <2> QED  BY <2>2, <2>3 DEF InSight
<1> QED  BY <1>4, <1>8, <1>9, <1>10, <1>11, <1>12, CalmKeeps

(* The rows when a send has settled. *)
LEMMA SettledRows ==
  ASSUME ConversationTypes, Shown, NEW i \in Own, NEW ok \in BOOLEAN
  PROVE  /\ \A r \in Settled(messages, i, ok) :
              /\ r \in Rows /\ RowTrue(r)
              /\ IsPending(r) => r \in messages /\ r.id # i
         /\ \A r \in messages : r.id # i => r \in Settled(messages, i, ok)
<1> DEFINE New(r) == IF r.id = i /\ r.temp
                     THEN IF ok THEN Row(i, FALSE, "sent") ELSE Row(i, TRUE, "failed")
                     ELSE r
<1>1. Settled(messages, i, ok) = {New(r) : r \in messages}
  BY DEF Settled
<1>2. ASSUME NEW r \in Settled(messages, i, ok)
      PROVE  /\ r \in Rows /\ RowTrue(r)
             /\ IsPending(r) => r \in messages /\ r.id # i
  <2>1. PICK q \in messages : r = New(q)
    BY <1>1, <1>2
  <2>2. q \in Rows /\ RowTrue(q)
    BY DEF ConversationTypes, Shown, RowsTrue
  <2>3. CASE q.id = i /\ q.temp
    <3>1. r = Row(i, FALSE, "sent") \/ r = Row(i, TRUE, "failed")
      BY <2>1, <2>3
    <3>2. i \in Present /\ i \in Messages
      BY <2>2, <2>3, ConversationConstants DEF RowTrue
    <3>3. r \in Rows /\ r.id = i /\ r.state # "pending"
      <4>1. CASE r = Row(i, FALSE, "sent")
        BY <4>1, <3>2 DEF Row, Rows
      <4>2. CASE r = Row(i, TRUE, "failed")
        BY <4>2, <3>2 DEF Row, Rows
      <4> QED  BY <3>1, <4>1, <4>2
    <3> QED  BY <3>2, <3>3 DEF RowTrue, IsPending
  <2>4. CASE ~(q.id = i /\ q.temp)
    <3>1. r = q
      BY <2>1, <2>4
    <3> QED  BY <3>1, <2>2, <2>4 DEF RowTrue
  <2> QED  BY <2>3, <2>4
<1>3. ASSUME NEW r \in messages, r.id # i
      PROVE  r \in Settled(messages, i, ok)
  <2>1. New(r) = r
    BY <1>3
  <2> QED  BY <2>1, <1>1
<1> QED  BY <1>2, <1>3

(* The queue of a conversation without its first message.                  *)
LEMMA QueueAdvances ==
  ASSUME ConversationTypes, QueuesTrue, NEW c \in Conversations, queue[c] # <<>>,
         meta'[Head(queue[c])] # "none",
         \A j \in Own : j # Head(queue[c]) => meta'[j] = meta[j],
         queue' = [queue EXCEPT ![c] = Tail(queue[c])], home' = home
  PROVE  /\ QueuesTrue' /\ queue' \in [Conversations -> Seq(Own)]
         /\ Tail(queue[c]) # <<>> => Head(Tail(queue[c])) \in Own
                                    /\ Head(Tail(queue[c])) # Head(queue[c])
                                    /\ home[Head(Tail(queue[c]))] = c
                                    /\ meta[Head(Tail(queue[c]))] = "none"
<1> DEFINE i == Head(queue[c])
           rest == Tail(queue[c])
<1>1. /\ rest \in Seq(Own) /\ Len(rest) = Len(queue[c]) - 1
      /\ Len(queue[c]) \in Nat /\ Len(queue[c]) > 0
      /\ \A k \in 1..Len(queue[c]) - 1 : rest[k] = queue[c][k + 1]
      /\ i = queue[c][1] /\ i \in Own
  BY QueueServed DEF ConversationTypes
<1>2. \A k \in 1..Len(rest) : k + 1 \in 1..Len(queue[c]) /\ rest[k] = queue[c][k + 1]
                              /\ k + 1 > 1 /\ rest[k] \in Own
  BY <1>1
<1>3. /\ \A k \in 1..Len(queue[c]) :
           home[queue[c][k]] = c /\ meta[queue[c][k]] = "none"
      /\ \A k, l \in 1..Len(queue[c]) : k < l => queue[c][k] < queue[c][l]
      /\ \A j \in Own : home[j] = c /\ meta[j] = "none" =>
           \E k \in 1..Len(queue[c]) : queue[c][k] = j
  BY DEF QueuesTrue
<1>4. Own \subseteq Nat /\ 1 \in 1..Len(queue[c])
  BY <1>1, ConversationConstants
<1>5. \A k \in 1..Len(rest) : rest[k] # i
  <2> TAKE k \in 1..Len(rest)
  <2>1. queue[c][1] < queue[c][k + 1]
    BY <1>2, <1>3, <1>4
  <2>2. i < rest[k] /\ i \in Nat
    BY <2>1, <1>1, <1>2, <1>4
  <2> HIDE DEF i, rest
  <2> QED  BY <2>2
<1>6. queue' = [queue EXCEPT ![c] = rest] /\ i \in Own
      /\ meta'[i] # "none" /\ \A j \in Own : j # i => meta'[j] = meta[j]
  BY <1>1
<1> HIDE DEF i, rest
<1>7. queue' \in [Conversations -> Seq(Own)]
  BY <1>1, <1>6 DEF ConversationTypes
<1>8. queue'[c] = rest /\ \A d \in Conversations : d # c => queue'[d] = queue[d]
  BY <1>6 DEF ConversationTypes
<1>9. ASSUME NEW d \in Conversations
      PROVE  /\ \A k \in 1..Len(queue'[d]) :
                   home[queue'[d][k]] = d /\ meta'[queue'[d][k]] = "none"
             /\ \A k, l \in 1..Len(queue'[d]) :
                   k < l => queue'[d][k] < queue'[d][l]
             /\ \A j \in Own : home[j] = d /\ meta'[j] = "none" =>
                   \E k \in 1..Len(queue'[d]) : queue'[d][k] = j
  <2>1. CASE d # c
    <3>1. queue'[d] = queue[d] /\ home[i] # d
      BY <2>1, <1>8, <1>1, <1>3, <1>4
    <3>2. \A k \in 1..Len(queue[d]) : queue[d][k] \in Own
      BY DEF ConversationTypes
    <3>3. \A k \in 1..Len(queue[d]) : queue[d][k] # i
      BY <3>1 DEF QueuesTrue
    <3>4. \A j \in Own : home[j] = d => meta'[j] = meta[j]
      BY <3>1, <1>6
    <3> QED  BY <3>1, <3>2, <3>3, <3>4, <1>6 DEF QueuesTrue
  <2>2. CASE d = c
    <3>1. \A k \in 1..Len(rest) : home[rest[k]] = c /\ meta'[rest[k]] = "none"
      BY <1>2, <1>3, <1>5, <1>6
    <3>2. \A k, l \in 1..Len(rest) : k < l => rest[k] < rest[l]
      <4> TAKE k, l \in 1..Len(rest)
      <4>1. k < l => k + 1 < l + 1
        BY <1>1
      <4> QED  BY <4>1, <1>2, <1>3
    <3>3. ASSUME NEW j \in Own, home[j] = c, meta'[j] = "none"
          PROVE  \E k \in 1..Len(rest) : rest[k] = j
      <4>1. j # i /\ meta[j] = "none"
        BY <3>3, <1>6
      <4>2. PICK k \in 1..Len(queue[c]) : queue[c][k] = j
        BY <3>3, <4>1, <1>3
      <4>3. k # 1
        BY <4>1, <4>2, <1>1
      <4>4. k - 1 \in 1..Len(rest) /\ rest[k - 1] = j
        BY <4>2, <4>3, <1>1
      <4> QED  BY <4>4
    <3>4. queue'[d] = rest
      BY <2>2, <1>8
    <3> QED  BY <2>2, <3>1, <3>2, <3>3, <3>4
  <2> QED  BY <2>1, <2>2
<1>10. QueuesTrue'
  <2> SUFFICES ASSUME NEW d \in Conversations
               PROVE  /\ \A k \in 1..Len(queue'[d]) :
                           home'[queue'[d][k]] = d /\ meta'[queue'[d][k]] = "none"
                      /\ \A k, l \in 1..Len(queue'[d]) :
                           k < l => queue'[d][k] < queue'[d][l]
                      /\ \A j \in Own : home'[j] = d /\ meta'[j] = "none" =>
                           \E k \in 1..Len(queue'[d]) : queue'[d][k] = j
    BY DEF QueuesTrue
  <2>1. home' = home
    OBVIOUS
  <2> HIDE DEF i, rest
  <2>2. /\ \A k \in 1..Len(queue'[d]) :
             home[queue'[d][k]] = d /\ meta'[queue'[d][k]] = "none"
        /\ \A k, l \in 1..Len(queue'[d]) :
             k < l => queue'[d][k] < queue'[d][l]
        /\ \A j \in Own : home[j] = d /\ meta'[j] = "none" =>
             \E k \in 1..Len(queue'[d]) : queue'[d][k] = j
    BY <1>9
  <2> QED  BY <2>1, <2>2
<1>11. rest # <<>> => Head(rest) \in Own /\ Head(rest) # i
                     /\ home[Head(rest)] = c /\ meta[Head(rest)] = "none"
  <2> HAVE rest # <<>>
  <2>1. Head(rest) = rest[1] /\ 1 \in 1..Len(rest)
    BY <1>1, QueueServed
  <2>2. home[rest[1]] = c /\ meta[rest[1]] = "none"
    BY <2>1, <1>2, <1>3
  <2> QED  BY <2>1, <2>2, <1>2, <1>5
<1> QED  BY <1>7, <1>10, <1>11 DEF i, rest

(* The answer to a send is that of the head of its queue: the next message  *)
(* becomes the head, and its link is decided with the outcomes of all      *)
(* before it.                                                              *)
LEMMA AnswerKeepsInv ==
  ASSUME ConversationInv, Took, SendAnswered(Head(replies)), Head(replies).do = "send"
  PROVE  ConversationInv' /\ SightKept
<1> DEFINE answer == Head(replies)
           rest0 == Tail(queue[answer.conversation])
<1>1. PICK i, c, ok, rest, known :
        /\ i = answer.message /\ c = answer.conversation /\ ok = answer.ok
        /\ rest = rest0
        /\ known = [meta EXCEPT ![i] = IF ok THEN "acked" ELSE "failed"]
        /\ meta' = known
        /\ messages' = Settled(messages, i, ok)
        /\ queue' = [queue EXCEPT ![c] = rest]
        /\ IF rest = <<>>
           THEN UNCHANGED <<requests, link>>
           ELSE /\ requests' = Append(requests, Request("send", c, Head(rest)))
                /\ link' = [link EXCEPT ![Head(rest)] = LinkTo(replyTo[Head(rest)], known)]
        /\ UNCHANGED buffer
  BY DEF SendAnswered
<1>2. ConversationTypes /\ Shown /\ Going
  BY DEF ConversationInv, Took
<1>3. ReplyTakenFacts(answer)
  BY <1>2, ReplyTaken DEF Took
<1>4. c \in Conversations /\ ok \in BOOLEAN /\ rest = Tail(queue[c])
  <2>1. answer # Ignored
    BY DEF Ignored, Request
  <2> QED  BY <2>1, <1>1, <1>3 DEF ReplyTakenFacts, Replies
<1>5. /\ queue[c] # <<>> /\ i = Head(queue[c]) /\ i \in Own
      /\ home[i] = c /\ meta[i] = "none"
  <2>1. queue[c] # <<>> /\ i = Head(queue[c])
    BY <1>1, <1>3 DEF ReplyTakenFacts, RequestTrue
  <2> QED  BY <2>1, <1>2, <1>4, HeadQueued DEF Going
<1>6. /\ \A k \in 1..Len(requests) :
           ~(requests[k].do = "send" /\ requests[k].conversation = c)
      /\ \A k \in 1..Len(Tail(replies)) :
           ~(Tail(replies)[k].do = "send" /\ Tail(replies)[k].conversation = c)
  BY <1>1, <1>3 DEF ReplyTakenFacts, SameSend
<1>7. /\ InFlight(requests, Tail(replies), queue, meta)
      /\ Tail(replies) \in Seq(Replies) /\ requests \in Seq(Requests)
      /\ replies' = Tail(replies)
  BY <1>2, <1>3 DEF ReplyTakenFacts, ConversationTypes, Took
<1> HIDE DEF answer, rest0
<1>8. /\ meta' \in [Own -> {"none", "acked", "failed"}]
      /\ meta'[i] \in {"acked", "failed"}
      /\ \A j \in Own : j # i => meta'[j] = meta[j]
  BY <1>1, <1>2, <1>4, <1>5 DEF ConversationTypes
<1>9. /\ UNCHANGED <<selected, home, replyTo, store, reported, closed, visits, deletes, buffer>>
      /\ ~closed /\ Present' = Present
  BY <1>1 DEF Took, Present, Typed
<1>10. /\ QueuesTrue' /\ queue' \in [Conversations -> Seq(Own)]
       /\ rest # <<>> => /\ Head(rest) \in Own /\ Head(rest) # i
                         /\ home[Head(rest)] = c /\ meta[Head(rest)] = "none"
  <2>1. /\ queue' = [queue EXCEPT ![c] = Tail(queue[c])] /\ home' = home
        /\ meta'[Head(queue[c])] # "none"
        /\ \A j \in Own : j # Head(queue[c]) => meta'[j] = meta[j]
        /\ ConversationTypes /\ QueuesTrue
    BY <1>1, <1>2, <1>4, <1>5, <1>8, <1>9 DEF Going
  <2>2. /\ QueuesTrue' /\ queue' \in [Conversations -> Seq(Own)]
        /\ Tail(queue[c]) # <<>> => Head(Tail(queue[c])) \in Own
                                   /\ Head(Tail(queue[c])) # Head(queue[c])
                                   /\ home[Head(Tail(queue[c]))] = c
                                   /\ meta[Head(Tail(queue[c]))] = "none"
    BY <2>1, <1>4, <1>5, QueueAdvances
  <2> QED  BY <2>2, <1>4, <1>5
<1>11. queue'[c] = rest /\ \A d \in Conversations : d # c => queue'[d] = queue[d]
  BY <1>1, <1>2, <1>4 DEF ConversationTypes
<1>12. /\ \A r \in messages' :
            /\ r \in Rows /\ RowTrue(r)
            /\ IsPending(r) => r \in messages /\ r.id # i
       /\ \A r \in messages : r.id # i => r \in messages'
  BY <1>1, <1>2, <1>4, <1>5, SettledRows
<1>13. RowsTrue'
  BY <1>12, <1>2, <1>9 DEF Shown, RowsTrue, RowTrue
<1>14. SettledNotPending'
  <2> SUFFICES ASSUME NEW r \in messages', IsPending(r)
               PROVE  meta'[r.id] = "none"
    BY DEF SettledNotPending
  <2>1. r \in messages /\ r.id # i /\ r.id \in Own
    BY <1>12, <1>2 DEF Shown, RowsTrue, RowTrue
  <2> QED  BY <2>1, <1>2, <1>8 DEF Shown, SettledNotPending
<1>15. SightKept
  <2> SUFFICES ASSUME NEW j \in Own, InSight(j), meta'[j] = "none"
               PROVE  InSight(j)'
    BY <1>9 DEF SightKept, StaysInSight, Typed
  <2>1. j # i /\ meta[j] = "none" /\ Row(j, TRUE, "pending").id = j
    BY <1>8 DEF Row
  <2>2. CASE Row(j, TRUE, "pending") \in messages
    BY <2>1, <2>2, <1>12 DEF InSight
  <2>3. CASE \E d \in Conversations : Row(j, TRUE, "pending") \in buffer[d]
    BY <2>3, <1>9 DEF InSight
  <2> QED  BY <2>2, <2>3 DEF InSight
<1>16. StoreTrue'
  BY <1>2, <1>3, <1>7, <1>9, <1>1 DEF Shown, StoreTrue, ReplyTakenFacts
<1>17. TypedInOrder'
  BY <1>2, <1>4, <1>5, <1>8, <1>9, ConversationConstants DEF Shown, TypedInOrder, Typed
<1>18. \A r \in Requests \cup Replies :
         RequestTrue(queue, meta, r) /\ ~(r.do = "send" /\ r.conversation = c)
           => RequestTrue(queue', meta', r)
  <2> SUFFICES ASSUME NEW r \in Requests \cup Replies, RequestTrue(queue, meta, r),
                      ~(r.do = "send" /\ r.conversation = c)
               PROVE  RequestTrue(queue', meta', r)
    OBVIOUS
  <2>1. r.do = "send" => r.conversation \in Conversations
    BY DEF Requests, Replies, Ignored, Request
  <2> QED  BY <2>1, <1>8, <1>11 DEF RequestTrue
<1>19. InFlight(requests, Tail(replies), queue', meta')
  <2>1. /\ \A k \in 1..Len(requests) : requests[k] \in Requests
        /\ \A k \in 1..Len(Tail(replies)) : Tail(replies)[k] \in Replies
    BY <1>7
  <2>2. /\ \A k \in 1..Len(requests) : RequestTrue(queue', meta', requests[k])
        /\ \A k \in 1..Len(Tail(replies)) : RequestTrue(queue', meta', Tail(replies)[k])
    BY <2>1, <1>6, <1>7, <1>18 DEF InFlight
  <2> QED  BY <2>2, <1>7, FlightStays
<1>20. RequestsTrue' /\ requests' \in Seq(Requests)
  <2>1. CASE rest = <<>>
    BY <2>1, <1>1, <1>7, <1>19 DEF RequestsTrue
  <2>2. CASE rest # <<>>
    <3> DEFINE new == Request("send", c, Head(rest))
    <3>1. new \in Requests
      BY <2>2, <1>4, <1>10, ConversationConstants DEF Request, Requests, Asked
    <3>2. RequestTrue(queue', meta', new)
      BY <2>2, <1>11 DEF RequestTrue, Request
    <3>3. /\ \A k \in 1..Len(requests) : ~SameSend(requests[k], new)
          /\ \A k \in 1..Len(Tail(replies)) : ~SameSend(Tail(replies)[k], new)
      BY <1>6 DEF SameSend, Request
    <3>4. requests' = Append(requests, new)
      BY <2>2, <1>1
    <3> HIDE DEF new
    <3>5. InFlight(Append(requests, new), Tail(replies), queue', meta')
      BY <1>7, <1>19, <3>1, <3>2, <3>3, FlightAsks
    <3> QED  BY <3>1, <3>4, <3>5, <1>7, QueueAppended DEF RequestsTrue
  <2> QED  BY <2>1, <2>2
<1>21. \A j \in Own : replyTo[j] \in Messages \cup {NoReply}
                     /\ (replyTo[j] \in Own => replyTo[j] # j)
  BY <1>2, ConversationConstants DEF ConversationTypes, Shown, TypedInOrder
<1>22. link' \in [Own -> Messages \cup {NoReply}]
       /\ \A j \in Own : (rest = <<>> \/ j # Head(rest)) => link'[j] = link[j]
  <2>1. CASE rest = <<>>
    BY <2>1, <1>1, <1>2 DEF ConversationTypes
  <2>2. CASE rest # <<>>
    <3>1. link' = [link EXCEPT ![Head(rest)] = LinkTo(replyTo[Head(rest)], known)]
      BY <2>2, <1>1
    <3>2. LinkTo(replyTo[Head(rest)], known) \in Messages \cup {NoReply}
      BY <2>2, <1>10, <1>21 DEF LinkTo
    <3> QED  BY <2>2, <3>1, <3>2, <1>2 DEF ConversationTypes
  <2> QED  BY <2>1, <2>2
<1>23. ConversationTypes'
  <2>1. messages' \in SUBSET Rows
    BY <1>12
  <2> QED
    BY <2>1, <1>2, <1>7, <1>8, <1>9, <1>10, <1>20, <1>22 DEF ConversationTypes
<1>24. LinksDecided'
  <2> SUFFICES ASSUME NEW j \in Own, home[j] # None
               PROVE  /\ meta'[j] # "none" \/ AtHead(j)' => LinkTrue(j)'
                      /\ j \in store[home[j]] => meta'[j] # "none" \/ AtHead(j)'
    BY <1>9 DEF LinksDecided, Typed
  <2>1. home[j] \in Conversations
    BY <1>2, ConversationConstants DEF ConversationTypes
  <2>2. /\ meta[j] # "none" \/ AtHead(j) => LinkTrue(j)
        /\ j \in store[home[j]] => meta[j] # "none" \/ AtHead(j)
    BY <1>2 DEF Going, LinksDecided, Typed
  <2>3. (rest = <<>> \/ j # Head(rest)) /\ LinkTrue(j) => LinkTrue(j)'
    BY <1>5, <1>8, <1>9, <1>22 DEF LinkTrue
  <2>4. AtHead(i)
    BY <1>5 DEF AtHead
  <2>5. CASE j = i
    <3>1. LinkTrue(j)
      BY <2>2, <2>4, <2>5
    <3>2. rest = <<>> \/ j # Head(rest)
      BY <2>5, <1>10
    <3>3. meta'[j] # "none"
      BY <2>5, <1>8
    <3> QED  BY <2>3, <3>1, <3>2, <3>3
  <2>6. CASE rest # <<>> /\ j = Head(rest)
    <3> DEFINE parent == replyTo[j]
    <3>1. /\ home[j] = c /\ meta'[j] = "none" /\ j # i /\ AtHead(j)'
      BY <2>6, <1>8, <1>9, <1>10, <1>11 DEF AtHead
    <3>2. link'[j] = LinkTo(parent, meta')
      BY <2>6, <1>1, <1>2 DEF ConversationTypes
    <3>3. CASE ~(parent \in Own /\ meta'[parent] # "acked")
      <4>1. LinkTrue(j)'
        BY <3>2, <3>3, <1>9 DEF LinkTrue, LinkTo
      <4> QED  BY <3>1, <4>1
    <3>4. CASE parent \in Own /\ meta'[parent] # "acked"
      <4>1. meta'[parent] \in {"none", "failed"}
        BY <3>4, <1>8
      <4>2. meta'[parent] = "none" => home[parent] # c
        <5> SUFFICES ASSUME meta'[parent] = "none", home[parent] = c
                     PROVE  FALSE
          OBVIOUS
        <5>1. PICK k \in 1..Len(queue'[c]) : queue'[c][k] = parent
          BY <3>4, <1>4, <1>9, <1>10 DEF QueuesTrue
        <5>2. rest \in Seq(Own) /\ Head(rest) = rest[1] /\ Len(rest) \in Nat
              /\ 1 \in 1..Len(rest)
          <6>1. rest \in Seq(Own)
            BY <1>4, <1>10, <1>11
          <6> QED  BY <6>1, <2>6, QueueServed
        <5>3. k # 1 => queue'[c][1] < queue'[c][k]
          <6>1. \A k1, l1 \in 1..Len(queue'[c]) :
                  k1 < l1 => queue'[c][k1] < queue'[c][l1]
            BY <1>4, <1>10 DEF QueuesTrue
          <6>2. k # 1 => 1 < k /\ 1 \in 1..Len(queue'[c])
            BY <5>1, <5>2, <1>11
          <6> QED  BY <5>1, <6>1, <6>2
        <5>4. parent < j
          BY <3>4, <1>2 DEF Shown, TypedInOrder
        <5>5. parent \in Nat /\ j \in Nat
          BY <3>4, ConversationConstants
        <5>6. queue'[c][1] = j
          BY <2>6, <5>2, <1>11
        <5> QED  BY <5>1, <5>3, <5>4, <5>5, <5>6
      <4>3. link'[j] = NoReply
        BY <3>2, <3>4 DEF LinkTo
      <4>4. meta'[parent] = "failed" \/ home[parent] # home[j]
        BY <4>1, <4>2, <3>1
      <4>5. LinkTrue(j)'
        BY <4>3, <4>4, <3>4, <1>9 DEF LinkTrue
      <4> QED  BY <3>1, <4>5
    <3> QED  BY <3>3, <3>4
  <2>7. CASE j # i /\ (rest = <<>> \/ j # Head(rest))
    <3>1. meta'[j] = meta[j]
      BY <2>7, <1>8
    <3>2. CASE home[j] = c
      <4>1. ~AtHead(j)
        BY <2>7, <3>2, <1>5 DEF AtHead
      <4>2. ~AtHead(j)'
        BY <2>7, <3>2, <1>9, <1>11 DEF AtHead
      <4> QED  BY <4>1, <4>2, <3>1, <2>2, <2>3, <2>7
    <3>3. CASE home[j] # c
      <4>1. AtHead(j)' <=> AtHead(j)
        BY <3>3, <2>1, <1>9, <1>11 DEF AtHead
      <4> QED  BY <4>1, <3>1, <2>2, <2>3, <2>7
    <3> QED  BY <3>2, <3>3
  <2> QED  BY <2>5, <2>6, <2>7
<1>25. LinksTrue'
  BY <1>24, ConversationConstants DEF LinksDecided, LinkTrue, LinksTrue
<1> QED
  BY <1>10, <1>13, <1>14, <1>15, <1>16, <1>17, <1>20, <1>23, <1>24, <1>25
     DEF ConversationInv, Shown, Going

(* The connection is lost: the sends under way fail, those queued stay     *)
(* pending, and neither is lost from sight.                                *)
LEMMA DisconnectKeepsInv ==
  ASSUME ConversationInv, Disconnect
  PROVE  ConversationInv' /\ SightKept
<1> DEFINE sent == {i \in Own : \E s \in {requests, replies} : \E k \in DOMAIN s :
                       s[k].do = "send" /\ s[k].message = i}
<1>1. PICK lost :
        /\ lost = sent
        /\ meta' = [i \in Own |-> IF i \in lost THEN "failed" ELSE meta[i]]
        /\ messages' = {IF r.id \in lost THEN Row(r.id, TRUE, "failed") ELSE r :
                          r \in messages}
        /\ queue' = [c \in Conversations |->
                       IF queue[c] # <<>> /\ Head(queue[c]) \in lost
                       THEN Tail(queue[c]) ELSE queue[c]]
  BY DEF Disconnect
<1>2. /\ ~closed /\ closed' = TRUE /\ requests' = <<>> /\ replies' = <<>>
      /\ UNCHANGED <<selected, buffer, home, replyTo, store, link, reported, visits,
                     deletes>>
  BY DEF Disconnect
<1>3. ConversationTypes /\ Shown /\ Going
  BY <1>2 DEF ConversationInv
<1>4. lost \subseteq Own /\ \A i \in lost : Typed(i)
  <2> SUFFICES ASSUME NEW i \in Own, i \in sent
               PROVE  Typed(i)
    BY <1>1
  <2>1. PICK s \in {requests, replies} : \E k \in DOMAIN s :
              s[k].do = "send" /\ s[k].message = i
    OBVIOUS
  <2>2. PICK k \in 1..Len(s) : s[k].do = "send" /\ s[k].message = i
    BY <2>1, <1>3 DEF ConversationTypes
  <2>3. s[k] \in Requests \cup Replies /\ RequestTrue(queue, meta, s[k])
    BY <2>1, <2>2, <1>3 DEF ConversationTypes, Going, RequestsTrue, InFlight
  <2>4. s[k].conversation \in Conversations
    BY <2>2, <2>3 DEF Requests, Replies, Ignored, Request
  <2>5. home[i] = s[k].conversation
    BY <2>2, <2>3, <2>4, <1>3, HeadQueued DEF RequestTrue, Going
  <2> QED  BY <2>4, <2>5, ConversationConstants DEF Typed
<1> HIDE DEF sent
<1>5. Present' = Present
  BY <1>2 DEF Present, Typed
<1>6. \A r \in messages' :
        \/ r \in messages /\ r.id \notin lost
        \/ \E i \in lost : i \in Present /\ r = Row(i, TRUE, "failed")
  <2> TAKE r \in messages'
  <2>1. PICK q \in messages : r = IF q.id \in lost THEN Row(q.id, TRUE, "failed") ELSE q
    BY <1>1
  <2>2. q.id \in Present
    BY <1>3 DEF Shown, RowsTrue, RowTrue
  <2> QED  BY <2>1, <2>2
<1>7. \A r \in messages : r.id \notin lost => r \in messages'
  BY <1>1
<1>8. \A i \in lost : i \in Present =>
         LET r == Row(i, TRUE, "failed") IN r \in Rows /\ RowTrue(r) /\ ~IsPending(r)
  BY DEF Present, Row, Rows, RowTrue, IsPending
<1>9. ConversationTypes'
  <2>1. messages' \in SUBSET Rows
    BY <1>3, <1>6, <1>8 DEF ConversationTypes
  <2>2. meta' \in [Own -> {"none", "acked", "failed"}]
    BY <1>1, <1>3 DEF ConversationTypes
  <2>3. queue' \in [Conversations -> Seq(Own)]
    BY <1>1, <1>3, QueueServed DEF ConversationTypes
  <2>4. requests' \in Seq(Requests) /\ replies' \in Seq(Replies)
    BY <1>2
  <2> QED  BY <2>1, <2>2, <2>3, <2>4, <1>2, <1>3 DEF ConversationTypes
<1>10. RowsTrue'
  <2>1. \A r \in messages' : RowTrue(r)
    BY <1>3, <1>6, <1>8 DEF Shown, RowsTrue
  <2> QED  BY <2>1, <1>2, <1>3, <1>5 DEF Shown, RowsTrue, RowTrue
<1>11. StoreTrue'
  BY <1>2, <1>3, <1>5 DEF Shown, StoreTrue
<1>12. TypedInOrder'
  <2>1. \A i \in Own : ~Typed(i) => meta'[i] = meta[i]
    BY <1>1, <1>4
  <2> QED  BY <2>1, <1>2, <1>3 DEF Shown, TypedInOrder, Typed
<1>13. SightKept
  <2> SUFFICES ASSUME NEW j \in Own, InSight(j), meta'[j] = "none"
               PROVE  InSight(j)'
    BY <1>2 DEF SightKept, StaysInSight, Typed
  <2>1. j \notin lost /\ meta[j] = "none" /\ Row(j, TRUE, "pending").id = j
    BY <1>1 DEF Row
  <2>2. CASE Row(j, TRUE, "pending") \in messages
    BY <2>1, <2>2, <1>7 DEF InSight
  <2>3. CASE \E d \in Conversations : Row(j, TRUE, "pending") \in buffer[d]
    BY <2>3, <1>2 DEF InSight
  <2> QED  BY <2>2, <2>3 DEF InSight
<1>14. SettledNotPending'
  <2> SUFFICES ASSUME NEW r \in messages', IsPending(r)
               PROVE  meta'[r.id] = "none"
    BY DEF SettledNotPending
  <2>1. r \in messages /\ r.id \notin lost /\ r.id \in Own
    BY <1>3, <1>6, <1>8 DEF Shown, RowsTrue, RowTrue
  <2> QED  BY <2>1, <1>1, <1>3 DEF Shown, SettledNotPending
<1>15. LinksTrue'
  <2> SUFFICES ASSUME NEW i \in Own, Typed(i), i \in store[home[i]]
               PROVE  \/ link[i] = replyTo[i]
                      \/ link[i] = NoReply /\ \/ meta'[replyTo[i]] = "failed"
                                              \/ home[replyTo[i]] # home[i]
    BY <1>2 DEF LinksTrue, Typed
  <2>1. LinkTrue(i)
    BY <1>3 DEF Going, LinksDecided
  <2> QED  BY <2>1, <1>1 DEF LinkTrue
<1> QED
  BY <1>2, <1>9, <1>10, <1>11, <1>12, <1>13, <1>14, <1>15 DEF ConversationInv, Shown

LEMMA ReceiveKeepsInv ==
  ASSUME ConversationInv, Receive
  PROVE  ConversationInv' /\ SightKept
<1>1. Took
  BY DEF Receive, Took
<1>2. Ignored.do = "cancelled"
  BY DEF Ignored, Request
<1>3. CASE Head(replies).do = "send" /\ SendAnswered(Head(replies))
  BY <1>1, <1>3, AnswerKeepsInv
<1>4. CASE Head(replies).do = "history" /\ HistoryAnswered(Head(replies))
  BY <1>1, <1>4, HistoryKeepsInv
<1>5. CASE Head(replies).do = "refresh" /\ RefreshAnswered(Head(replies))
  BY <1>1, <1>5, RefreshKeepsInv
<1>6. CASE /\ Head(replies).do = "event"
           /\ PeerMessageEvent(Head(replies)) \/ GroupMessageEvent(Head(replies))
  BY <1>1, <1>6, EventKeepsInv
<1>7. CASE Head(replies).do = "status" /\ GroupStatusEvent(Head(replies))
  BY <1>1, <1>7, EventKeepsInv
<1>8. CASE Head(replies).do = "delete" /\ DeleteAnswered(Head(replies))
  BY <1>1, <1>8, DeletionKeepsInv
<1>9. CASE Head(replies) = Ignored
           /\ UNCHANGED <<messages, buffer, meta, queue, requests, link>>
  BY <1>1, <1>2, <1>9, EventKeepsInv
<1> QED  BY <1>3, <1>4, <1>5, <1>6, <1>7, <1>8, <1>9 DEF Receive

LEMMA ConversationInitInv == Init => ConversationInv
<1> SUFFICES ASSUME Init PROVE ConversationInv
  OBVIOUS
<1>2. /\ requests = <<>> /\ requests \in Seq(Requests) /\ Len(requests) = 0
      /\ replies = <<>> /\ replies \in Seq(Replies) /\ Len(replies) = 0
  BY DEF Init
<1>3. ConversationTypes
  <2>1. /\ messages \in SUBSET Rows /\ buffer \in [Conversations -> SUBSET Rows]
        /\ meta \in [Own -> {"none", "acked", "failed"}]
        /\ store \in [Conversations -> SUBSET Messages]
    BY DEF Init
  <2>2. queue \in [Conversations -> Seq(Own)]
    <3>1. <<>> \in Seq(Own)
      OBVIOUS
    <3> QED  BY <3>1 DEF Init
  <2>3. /\ home \in [Messages -> Conversations \cup {None}]
        /\ replyTo \in [Own -> Messages \cup {NoReply}]
        /\ link \in [Own -> Messages \cup {NoReply}]
    BY DEF Init, Messages
  <2>4. /\ selected \in Conversations \cup {None} /\ reported \in SUBSET Own
        /\ closed \in BOOLEAN /\ visits \in Nat /\ deletes \in Nat
    BY DEF Init
  <2> QED  BY <2>1, <2>2, <2>3, <2>4, <1>2 DEF ConversationTypes
<1>4. /\ \A i \in Own : ~Typed(i) /\ meta[i] = "none"
      /\ \A c \in Conversations : queue[c] = <<>> /\ store[c] = {} /\ buffer[c] = {}
      /\ messages = {}
  BY ConversationConstants DEF Init, Typed, Messages
<1>5. RowsTrue /\ StoreTrue
  BY <1>2, <1>4 DEF RowsTrue, StoreTrue
<1>6. TypedInOrder
  <2>1. 0 \in 0..MaxSends /\ \A i \in Own : ~(i <= 0)
    BY ConversationConstants
  <2>2. \A i \in Own : replyTo[i] \notin Own
    BY ConversationConstants DEF Init
  <2> QED  BY <2>1, <2>2, <1>4 DEF TypedInOrder
<1>7. SettledNotPending /\ LinksTrue
  BY <1>4 DEF SettledNotPending, LinksTrue
<1>8. QueuesTrue
  <2>1. \A c \in Conversations : Len(queue[c]) = 0
    BY <1>4
  <2>2. \A c \in Conversations, i \in Own : home[i] # c
    BY <1>4, ConversationConstants DEF Typed
  <2> QED  BY <2>1, <2>2 DEF QueuesTrue
<1>9. RequestsTrue
  BY <1>2 DEF RequestsTrue, InFlight, RequestTrue, SameSend, Request
<1>10. LinksDecided
  BY <1>4 DEF LinksDecided
<1> QED
  BY <1>3, <1>5, <1>6, <1>7, <1>8, <1>9, <1>10 DEF ConversationInv, Shown, Going

LEMMA ConversationNextInv ==
  ConversationInv /\ [Next]_vars =>
    /\ ConversationInv'
    /\ \A i \in Own : StaysInSight(i) \/ LostOnLeaving(i)
<1> SUFFICES ASSUME ConversationInv, [Next]_vars
             PROVE  /\ ConversationInv'
                    /\ \A i \in Own : StaysInSight(i) \/ LostOnLeaving(i)
  OBVIOUS
<1> DEFINE Kept == ConversationInv' /\ \A i \in Own : StaysInSight(i) \/ LostOnLeaving(i)
<1>0. ConversationInv' /\ SightKept => Kept
  BY DEF SightKept
<1> HIDE DEF Kept
<1>1. ASSUME NEW parent \in Own \cup Received \cup {NoReply}, Send(parent)
      PROVE  Kept
  BY <1>1, <1>0, SendKeepsInv
<1>2. ASSUME NEW c \in Conversations, Select(c)
      PROVE  Kept
  BY <1>2, SelectKeepsInv DEF Kept
<1>3. ASSUME NEW c \in Conversations, Incoming(c)
      PROVE  Kept
  BY <1>3, <1>0, IncomingKeepsInv
<1>4. ASSUME NEW i \in Own \cup Received, Delete(i)
      PROVE  Kept
  BY <1>4, <1>0, DeleteKeepsInv DEF Messages
<1>5. ASSUME NEW i \in Own, GroupStatus(i)
      PROVE  Kept
  BY <1>5, <1>0, GroupStatusKeepsInv
<1>6. ASSUME NEW ok \in BOOLEAN, Serve(ok)
      PROVE  Kept
  BY <1>6, <1>0, ServeKeepsInv
<1>7. CASE Receive
  BY <1>7, <1>0, ReceiveKeepsInv DEF Kept
<1>8. CASE Disconnect
  BY <1>8, <1>0, DisconnectKeepsInv DEF Kept
<1>9. CASE Deselect
  BY <1>9, DeselectKeepsInv DEF Kept
<1>10. CASE UNCHANGED vars
  <2> USE <1>10 DEF vars
  <2>1. Present' = Present
    BY DEF Present, Typed
  <2>2. ConversationTypes'
    BY DEF ConversationInv, ConversationTypes
  <2>3. Shown'
    <3>1. RowsTrue' /\ StoreTrue'
      BY <2>1 DEF ConversationInv, Shown, RowsTrue, RowTrue, StoreTrue
    <3>2. TypedInOrder'
      BY DEF ConversationInv, Shown, TypedInOrder, Typed
    <3>3. SettledNotPending' /\ LinksTrue'
      BY DEF ConversationInv, Shown, SettledNotPending, LinksTrue, Typed
    <3> QED  BY <3>1, <3>2, <3>3 DEF Shown
  <2>4. Going => Going'
    BY DEF Going, QueuesTrue, RequestsTrue, LinksDecided, LinkTrue, AtHead, Typed
  <2>5. SightKept
    BY DEF SightKept, StaysInSight, InSight, Typed
  <2> QED  BY <2>2, <2>3, <2>4, <2>5, <1>0 DEF ConversationInv, Kept
<1> QED
  BY <1>1, <1>2, <1>3, <1>4, <1>5, <1>6, <1>7, <1>8, <1>9, <1>10 DEF Next, Kept

LEMMA ConversationAlways == Spec => []ConversationInv
  BY ConversationInitInv, ConversationNextInv, PTL DEF Spec

(* Every row, queue, request and reply has the form the code gives it, for *)
(* any number of conversations and messages (types.ts, ChatApp.tsx).       *)
THEOREM ConversationTyped == Spec => []ConversationTypes
<1>1. ConversationInv => ConversationTypes
  BY DEF ConversationInv
<1> QED  BY <1>1, ConversationAlways, PTL

(* The row of a message whose send has not settled stays in sight, shown   *)
(* or put aside, for any number of conversations, messages and visits and  *)
(* any cap: through every history, deletion and the loss of the connection *)
(* (preservePendingMessages, reviveBufferedPending).  Only leaving the     *)
(* conversation it is shown in loses it, for none or with no room to put   *)
(* it aside (the cleanup of the selection effect, capPendingBuffer).       *)
THEOREM PendingRowsKept == Spec => PendingKept
<1> DEFINE Kept == \A i \in Own : (Typed(i) => InSight(i)) /\ Typed(i)' /\ meta'[i] = "none" =>
                                   InSight(i)' \/ LostOnLeaving(i)
<1>1. ConversationInv /\ [Next]_vars => [Kept]_vars
  BY ConversationNextInv DEF StaysInSight
<1> QED  BY <1>1, ConversationAlways, PTL DEF Spec, PendingKept

(* A row is not shown as still sending when its send has been answered,    *)
(* also when it was put aside meanwhile (reviveBufferedPending and         *)
(* resolvedSendMeta).                                                      *)
THEOREM NoSettledRowPending == Spec => []SettledNotPending
<1>1. ConversationInv => SettledNotPending
  BY DEF ConversationInv, Shown
<1> QED  BY <1>1, ConversationAlways, PTL

(* What the backend has of a reply carries the link to the message it      *)
(* answers, unless that one failed or is of another conversation: the      *)
(* queue of sends makes the link wait for the message it names             *)
(* (sendQueues, deliverQueuedMessage).                                     *)
THEOREM ReplyLinksTrue == Spec => []LinksTrue
<1>1. ConversationInv => LinksTrue
  BY DEF ConversationInv, Shown
<1> QED  BY <1>1, ConversationAlways, PTL
=============================================================================
