------------------------------ MODULE TuiDialogs ------------------------------
(***************************************************************************)
(* The dialogs of the terminal interface (src/tui/src): which screen leads *)
(* to which, and what the asynchronous operations started from a screen do *)
(* to the screen the user sees when they are answered.                     *)
(*                                                                         *)
(* An operation takes a new value of dialogActionRef when it starts and    *)
(* compares it after its waits; every change of screen increments the      *)
(* counter too.  Only the equality of a call's value with the counter is   *)
(* ever looked at, so the counter is kept as `holder', the call whose      *)
(* value is the current one.                                               *)
(***************************************************************************)
EXTENDS Naturals, FiniteSets

CONSTANTS MaxCalls,  \* calls that may wait for an answer at the same time
          MaxTasks   \* tasks, likewise, besides the startup
ASSUME BoundsAssumption == MaxCalls \in Nat \ {0} /\ MaxTasks \in Nat \ {0}

Slots == 1..MaxCalls
NoSlot == 0

NoDialog == "none"        \* no dialog
Same == "same"        \* the dialog stays as it is
Again == "blocked again"  \* unblockPeer: the list is loaded once more

VARIABLES dialog,     \* the screen shown: a kind, with its variant
          busy,       \* dialogBusyRef
          holder,     \* the call whose value dialogActionRef still has
          calls,      \* the calls waiting for an answer
          tasks,      \* the startup, its update check, a file confirmation being
                      \* staged, the system's file picker (filePickerOpenRef)
          leaving     \* the user only goes back from now on

dialogVars == <<dialog, busy, holder, calls, tasks, leaving>>

-----------------------------------------------------------------------------
(* What each operation waits for.  Ask(n, C, E): n answers, the counter    *)
(* compared after those in C, and one of E shown at the end.               *)

Ask(n, C, E) == [waits |-> n, checks |-> C, ends |-> E, answered |-> 0]
Plain(d) == Ask(1, {1}, {d})
First(from) == from \in {"rename/first", "control/first", "control-custom/first",
                         "notification-enable/first", "notification-confirm/first",
                         "notification-fallback/first"}
AfterSetup(from, d) == IF First(from) THEN NoDialog ELSE d
AfterTest(from) ==
  IF First(from) THEN {"notification-confirm/first", "notification-fallback/first"}
                 ELSE {"notification-confirm", "notification-fallback"}

UpdateCalls(from) ==
  [installUpdate |-> Ask(1, {1}, {"update/installed", "update-token/release"}),
   checkForUpdatesFromAbout |-> Ask(1, {1}, {"update", "about", "update-token"})]

ControlCalls(from) ==
  [loadControlStatus |-> Plain("control-status"),
   configureControl |-> Plain("control-status"),
   dismissControlSetup |-> Plain(NoDialog),
   loadAdvancedConfig |-> Plain("advanced"),
   saveAdvancedConfig |->
     Plain(IF from = "customisation-splash" THEN from ELSE "advanced")]

(* Mutant of RoomCalls: leaveRoom compares before the list is asked for.   *)
RoomCallsEarly(from) ==
  [loadRooms |-> Plain("rooms"),
   createRoom |-> Ask(2, {2}, {"room-created"}),
   joinRoom |-> Ask(2, {2}, {"rooms"}),
   leaveRoom |-> Ask(2, {1}, {"rooms"}),
   loadRoomInvite |-> Ask(2, {2}, {"room-created"}),
   loadGroupDetails |-> Plain("group-detail"),
   leaveGroup |-> Ask(1, {}, {NoDialog})]

RoomCalls(from) ==
  [loadRooms |-> Plain("rooms"),
   createRoom |-> Ask(2, {2}, {"room-created"}),
   joinRoom |-> Ask(2, {2}, {"rooms"}),
   leaveRoom |-> Ask(2, {2}, {"rooms"}),
   loadRoomInvite |-> Ask(2, {2}, {"room-created"}),
   loadGroupDetails |-> Plain("group-detail"),
   leaveGroup |-> Ask(1, {}, {NoDialog})]

(* The refresh that follows the first answer is not followed by a check. *)
MuteCalls(from) ==
  [op \in {"mutePeer", "unmutePeer", "muteGroup", "unmuteGroup"} |->
     Ask(2, {1}, {NoDialog})]

FriendCalls(from) ==
  [op \in {"sendFriendRequest", "respondToFriendRequest", "cancelFriendRequest",
           "unfriendPeer", "blockPeer", "blockSenderFromRequest"} |->
     Ask(3, {1}, {NoDialog})]

FriendLists(from) ==
  [loadFriendRequests |-> Plain("friend-requests"),
   loadBlockedPeers |-> Plain("blocked"),
   unblockPeer |-> Ask(3, {1}, {Again})]

DebugCalls(from) ==
  [reStun |-> Plain(Same), loadDebugInfo |-> Plain(Same),
   loadFiles |-> Plain("file-list")]

FileCalls(from) ==
  [confirmPendingFileSend |-> Ask(1, {1}, {NoDialog, "file-confirm", Same}),
   sendFile |-> Plain(NoDialog),
   downloadFile |-> Plain(NoDialog)]

(* No screen offers loadFilesDir and loadStorageDir, so that the screens   *)
(* files-dir and storage-dir are never shown.                              *)
StorageCalls(from) ==
  [loadFilesDir |-> Plain("files-dir"),
   loadFilesSettings |-> Plain("files-settings"),
   loadStorageDir |-> Plain("storage-dir"),
   setFilesDir |->
     Plain(IF from \in {"storage-dir", "files-settings"} THEN from ELSE "files-dir"),
   setStorageDir |->
     Plain(IF from \in {"files-settings", "files-dir"} THEN from ELSE "storage-dir"),
   clearFilesDir |->
     Plain(IF from \in {"storage-dir", "files-settings"} THEN from ELSE "files-dir"),
   clearStorageDir |->
     Plain(IF from \in {"files-settings", "files-dir"} THEN from ELSE "storage-dir")]

ProfileCalls(from) ==
  [saveDisplayName |->
     IF First(from) THEN Ask(2, {1, 2}, {"control-status", "control/first", NoDialog})
                    ELSE Plain(NoDialog),
   setAccessibilityFlashing |-> Plain(Same),
   saveDndEnabled |->
     Plain(IF from \in {"notifications", "notification-settings"}
           THEN "notifications" ELSE Same)]

NotificationCalls(from) ==
  [testNotificationDelivery |-> Ask(1, {1}, AfterTest(from)),
   confirmNotificationDelivery |-> Plain(AfterSetup(from, "notifications")),
   disableNotifications |-> Plain(AfterSetup(from, "notifications")),
   toggleNotificationEvent |-> Plain("notification-settings")]

CallTables(from) ==
  {UpdateCalls(from), ControlCalls(from), RoomCalls(from), MuteCalls(from),
   FriendCalls(from), FriendLists(from), DebugCalls(from), FileCalls(from),
   StorageCalls(from), ProfileCalls(from), NotificationCalls(from)}

CallsFrom(from) ==
  [op \in UNION {DOMAIN table : table \in CallTables(from)} |->
     (CHOOSE table \in CallTables(from) : op \in DOMAIN table)[op]]

-----------------------------------------------------------------------------
(* What each screen offers: a link shows a screen, runs an operation, or   *)
(* shows a screen and then runs an operation.                              *)

NoCall == "no call"
Link(from, show, run) == [from |-> from, show |-> show, run |-> run]
Show(from, D) == {Link(from, d, NoCall) : d \in D}
Run(from, O) == {Link(from, Same, op) : op \in O}

Categories ==
  Show("category", {"rename", "customisation", "notifications", "accessibility",
                    "control", "friends", "about"})
  \cup Run("category", {"loadFilesSettings", "loadAdvancedConfig"})
  \cup {Link("category", "rooms", "loadRooms"), Link("category", "debug", "loadDebugInfo")}

UpdateLinks ==
  Run("about", {"checkForUpdatesFromAbout"})
  \cup Show("update", {"update-directory", NoDialog}) \cup Run("update", {"installUpdate"})
  \cup Show("update/installed", {NoDialog})
  \cup Run("update-directory", {"installUpdate"})
  \cup {Link("update-token", "about", "checkForUpdatesFromAbout")}
  \cup {Link("update-token/release", "update", "installUpdate")}

ControlLinks ==
  Run("control", {"configureControl", "loadControlStatus"})
  \cup Run("control/first", {"configureControl", "loadControlStatus",
                             "dismissControlSetup"})
  \cup Show("control", {"control-custom"})
  \cup Show("control/first", {"control-custom/first"})
  \cup Run("control-custom", {"configureControl"})
  \cup Run("control-custom/first", {"configureControl"})
  \cup Show("control-status", {"control"})

AdvancedLinks ==
  Show("advanced", {"advanced-image-protocol", "advanced-ip-pinning"})
  \cup Show("advanced-ip-pinning", {"advanced-control", "advanced-stun"})
  \cup Show("advanced-control", {"advanced-control-ip"})
  \cup Show("advanced-stun", {"advanced-stun-ip"})
  \cup Show("customisation", {"customisation-splash"})
  \cup UNION {Run(d, {"saveAdvancedConfig"}) :
                d \in {"customisation-splash", "advanced-image-protocol",
                       "advanced-control", "advanced-stun",
                       "advanced-control-ip", "advanced-stun-ip"}}

RoomLinks ==
  Show("rooms", {"room-create", "room-join", "room-detail"})
  \cup Run("room-create", {"createRoom"}) \cup Run("room-join", {"joinRoom"})
  \cup Run("room-detail", {"leaveGroup", "leaveRoom", "loadRoomInvite", "loadRooms"})
  \cup Show("group-detail", {NoDialog}) \cup Run("group-detail", {"leaveGroup"})

ProfileLinks ==
  Run("rename", {"saveDisplayName"}) \cup Run("rename/first", {"saveDisplayName"})
  \cup Run("mute-timeout", {"mutePeer", "muteGroup"})
  \cup Run("unmute-confirm", {"unmutePeer", "unmuteGroup"})
  \cup Show("unmute-confirm", {"notifications"})
  \cup Run("accessibility", {"setAccessibilityFlashing"})

FriendLinks ==
  Run("add-friend", {"sendFriendRequest"})
  \cup Run("remove-friend", {"unfriendPeer"}) \cup Show("remove-friend", {"friends"})
  \cup Show("friend-requests", {"friend-request-incoming", "cancel-friend-confirm"})
  \cup Run("friend-request-incoming",
           {"blockSenderFromRequest", "respondToFriendRequest"})
  \cup Show("friends", {"friend-request-incoming", "cancel-friend-confirm",
                        "add-friend", "remove-friend", "block-peer-pick"})
  \cup Run("friends", {"loadBlockedPeers", "unblockPeer"})

BlockLinks ==
  Show("blocked", {"block-peer-pick"}) \cup Run("blocked", {"unblockPeer"})
  \cup Show("block-peer-pick", {"block-peer"})
  \cup Run("block-peer", {"blockPeer"})
  \cup {Link("block-peer", "blocked", "loadBlockedPeers")}
  \cup Run("cancel-friend-confirm", {"cancelFriendRequest"})
  \cup Show("cancel-friend-confirm", {"friends"})

DebugLinks ==
  Run("debug", {"reStun", "loadDebugInfo"})
  \cup {Link("debug", "debug-endpoints", "loadDebugInfo")}
  \cup Show("debug-endpoints", {"debug-peer"})

DeliveryLinks(enable, confirm, fallback) ==
  Run(enable, {"testNotificationDelivery", "disableNotifications"})
  \cup Run(fallback, {"testNotificationDelivery", "disableNotifications"})
  \cup Run(confirm, {"confirmNotificationDelivery", "disableNotifications"})
  \cup Show(confirm, {fallback})

NotificationLinks ==
  DeliveryLinks("notification-enable", "notification-confirm", "notification-fallback")
  \cup DeliveryLinks("notification-enable/first", "notification-confirm/first",
                     "notification-fallback/first")
  \cup Show("notifications", {"notification-settings", "notification-peer"})
  \cup Run("notifications", {"saveDndEnabled"})
  \cup Show("notification-settings", {"notification-enable"})
  \cup Run("notification-settings", {"testNotificationDelivery",
                                     "toggleNotificationEvent"})
  \cup Show("notification-peer", {"mute-timeout", "unmute-confirm"})

FileConfirmLinks ==
  Show("file-confirm", {"image-view/file-confirm", NoDialog})
  \cup Run("file-confirm", {"confirmPendingFileSend"})

FileSendLinks == Run("file-send", {"sendFile"})

(* The file manager: a search, a filter or a deletion being asked for      *)
(* takes the keys first, and none of them changes the screen.              *)
FileListLinks ==
  Show("file-list", {"file-download", "image-view/files"})
  \cup Run("file-list", {"loadFiles"})

DownloadLinks == Run("file-download", {"downloadFile", "loadFiles"})

LocationLinks ==
  UNION {Run(d, {"setFilesDir", "setStorageDir", "loadFiles"}) :
           d \in {"files-dir", "storage-dir"}}

FileLinks == FileConfirmLinks \cup FileSendLinks \cup FileListLinks
             \cup DownloadLinks \cup LocationLinks

StorageLinks ==
  Run("files-settings", {"loadFiles", "setFilesDir", "setStorageDir",
                         "clearFilesDir", "clearStorageDir"})

(* Without a dialog: what the conversation offers for a peer who is not a  *)
(* friend, and the other buttons and keys of the main screen.              *)
InlineFriendAction ==
  Show(NoDialog, {"add-friend", "friends", "block-peer", "cancel-friend-confirm"})
  \cup Run(NoDialog, {"respondToFriendRequest"})

MainLinks ==
  Show(NoDialog, {"settings", "control", "room-create", "room-join", "image-view",
              "delivery-details", "friends", "file-send", "mute-timeout",
              "unmute-confirm"})
  \cup {Link(NoDialog, "debug", "loadDebugInfo")}
  \cup Run(NoDialog, {"loadGroupDetails"})
  \cup InlineFriendAction

(* Of these, the ones a key offers once a conversation is selected: the    *)
(* inline friend keys, and Ctrl+U where the system has no file picker.     *)
KeyLinks == InlineFriendAction \cup Show(NoDialog, {"file-send"})

Links == UpdateLinks \cup ControlLinks \cup AdvancedLinks \cup RoomLinks
         \cup ProfileLinks \cup FriendLinks \cup BlockLinks \cup DebugLinks
         \cup NotificationLinks \cup FileLinks \cup StorageLinks \cup MainLinks

(* navigation.ts, goBack *)
FirstLevel == {"settings", "rename", "customisation", "notifications",
               "accessibility", "control", "friends", "rooms", "files-settings",
               "advanced", "debug", "about", "file-list", "file-send"}

(* Esc and Backspace on the file manager go to its settings. *)
GoBack(d) ==
  CASE d \in {"update", "update/installed"} -> Link(d, Same, NoCall)
    [] d = "file-list" -> Link(d, Same, "loadFilesSettings")
    [] d = "image-view/files" -> Link(d, "file-list", NoCall)
    [] d = "image-view/file-confirm" -> Link(d, "file-confirm", NoCall)
    [] d = "control-custom" -> Link(d, "control", NoCall)
    [] d = "control-custom/first" -> Link(d, "control/first", NoCall)
    [] d = "control-status" -> Link(d, "control", NoCall)
    [] d \in {"advanced-control-ip", "advanced-stun-ip", "advanced-control",
              "advanced-stun", "advanced-ip-pinning", "advanced-image-protocol"} ->
         Link(d, Same, "loadAdvancedConfig")
    [] d \in {"update-directory", "update-token/release"} -> Link(d, "update", NoCall)
    [] d = "update-token" -> Link(d, "about", NoCall)
    [] d = "customisation-splash" -> Link(d, "customisation", NoCall)
    [] d \in {"room-create", "room-join", "room-created", "room-detail"} ->
         Link(d, "rooms", "loadRooms")
    [] d \in {"mute-timeout", "unmute-confirm", "notification-settings",
              "notification-peer"} -> Link(d, "notifications", NoCall)
    [] d \in {"friend-request-incoming", "friend-requests", "add-friend",
              "remove-friend", "blocked", "cancel-friend-confirm"} ->
         Link(d, "friends", NoCall)
    [] d \in {"notification-enable", "notification-confirm",
              "notification-fallback"} -> Link(d, "notification-settings", NoCall)
    [] d \in {"block-peer-pick", "block-peer"} -> Link(d, "blocked", "loadBlockedPeers")
    [] d = "debug-peer" -> Link(d, "debug-endpoints", NoCall)
    [] d = "debug-endpoints" -> Link(d, "debug", NoCall)
    [] d \in {"file-download", "files-dir", "storage-dir"} -> Link(d, "file-list", NoCall)
    [] OTHER -> Link(d, NoDialog, NoCall)

Updater == {"update", "update/installed", "update-directory", "update-token",
            "update-token/release"}
(* Screens outside the settings panel: their mouse handlers do not look    *)
(* at SettingsBusyContext, and neither does the list of endpoints.         *)
NoPanel == {"file-send", "file-confirm", "file-list", "image-view",
            "image-view/files", "image-view/file-confirm", "delivery-details",
            "group-detail"}
Clickable == NoPanel \cup {"debug-endpoints"}

(* The kinds of Dialog, with the variants that lead elsewhere.             *)
Screens ==
  {NoDialog, "settings", "control", "control/first", "control-custom",
   "control-custom/first", "control-status", "advanced", "advanced-image-protocol",
   "advanced-ip-pinning", "advanced-control", "advanced-stun", "advanced-control-ip",
   "advanced-stun-ip", "customisation", "customisation-splash", "rooms", "room-create",
   "room-join", "room-created", "room-detail", "group-detail", "rename", "rename/first",
   "mute-timeout", "unmute-confirm", "add-friend", "remove-friend", "friend-requests",
   "friend-request-incoming", "friends", "blocked", "block-peer-pick", "block-peer",
   "cancel-friend-confirm", "notifications", "notification-enable",
   "notification-enable/first", "notification-confirm", "notification-confirm/first",
   "notification-fallback", "notification-fallback/first", "notification-settings",
   "notification-peer", "accessibility", "debug", "debug-endpoints", "debug-peer",
   "file-send", "file-confirm", "file-list", "file-download", "image-view",
   "image-view/files", "image-view/file-confirm", "delivery-details", "files-dir",
   "storage-dir", "files-settings", "group-file-send", "about"} \cup Updater
LinksOf == [d \in Screens |-> {link \in Links : link.from = d}]
CallOf == [d \in Screens |-> CallsFrom(d)]
-----------------------------------------------------------------------------
Idle == Ask(0, {}, {})
Free == {s \in Slots : calls[s].waits = 0}
Waiting == Slots \ Free

DialogInit ==
  /\ dialog = NoDialog
  /\ busy = FALSE /\ holder = NoSlot
  /\ calls = [s \in Slots |-> Idle]
  /\ tasks = {"startup"}
  /\ leaving = FALSE

(* Until the startup has ended the splash is drawn: the dialog is there and *)
(* listens to keys, but neither entries nor mouse handlers are.  The       *)
(* startup selects a conversation while it is drawn (refreshPeers), so the *)
(* keys that need one are live.                                            *)
Drawn == "startup" \notin tasks

(* showDialog and closeDialog *)
ShowDialog(d) == dialog' = d /\ busy' = FALSE /\ holder' = NoSlot

(* beginDialogAction and the request that follows; nothing when busy.     *)
(* The bound: no more calls wait than there are slots.                    *)
Begin(op, from, d, isBusy, held) ==
  /\ dialog' = d
  /\ IF isBusy
     THEN busy' = isBusy /\ holder' = held /\ UNCHANGED calls
     ELSE /\ Free # {}
          /\ LET s == CHOOSE free \in Free : TRUE IN
               /\ busy' = TRUE /\ holder' = s
               /\ calls' = [calls EXCEPT ![s] = CallOf[from][op]]

Follow(link) ==
  IF link.run = NoCall
  THEN (IF link.show = Same THEN UNCHANGED <<dialog, busy, holder>>
                            ELSE ShowDialog(link.show)) /\ UNCHANGED calls
  ELSE IF link.show = Same THEN Begin(link.run, dialog, dialog, busy, holder)
                           ELSE Begin(link.run, dialog, link.show, FALSE, NoSlot)

quiet == UNCHANGED <<tasks, leaving>>

(* The user picks an entry of the screen.                                  *)
Pick(link) ==
  /\ ~leaving /\ (Drawn \/ link \in KeyLinks)
  /\ busy => dialog \in Clickable \cup {NoDialog}
  /\ Follow(link)
  /\ quiet

(* The rail of the settings panel. *)
PickCategory(link) ==
  /\ ~leaving /\ ~busy /\ Drawn
  /\ dialog \notin NoPanel \cup Updater \cup {NoDialog} /\ ~First(dialog)
  /\ Follow(link)
  /\ quiet

(* Ctrl+P *)
ToggleSettings ==
  /\ ~leaving
  /\ dialog \notin Updater /\ (busy => dialog = NoDialog)
  /\ ShowDialog(IF dialog = "settings" THEN NoDialog ELSE "settings")
  /\ UNCHANGED calls /\ quiet

(* Ctrl+F, handled apart from the other keys: on any screen, also while an *)
(* operation runs.                                                         *)
OpenFriendsInbox ==
  /\ ~leaving
  /\ ShowDialog("friends") /\ UNCHANGED calls /\ quiet

(* Mutant of Back: the file manager reloads itself.                        *)
BackReloads ==
  /\ dialog # NoDialog
  /\ busy => dialog = "file-list"
  /\ IF dialog \in {"files-settings", "file-list"}
     THEN Follow(Link(dialog, Same, "loadFiles")) ELSE Follow(GoBack(dialog))
  /\ quiet

(* Esc, Backspace and the link at the top of the panel; the file manager  *)
(* handles its own keys and does not ask whether an operation runs.       *)
Back ==
  /\ dialog # NoDialog
  /\ busy => dialog = "file-list"
  /\ Follow(GoBack(dialog))
  /\ quiet

(* A click beside the panel. *)
DismissOnOverlay ==
  /\ Drawn
  /\ dialog \notin Updater \cup {NoDialog} /\ ~First(dialog)
  /\ ~busy \/ dialog \in {"image-view", "image-view/files", "image-view/file-confirm"}
  /\ ShowDialog(NoDialog) /\ UNCHANGED calls
  /\ quiet

(* "Ignore" and "Dismiss", the ways out of the updater. *)
DismissUpdate ==
  /\ dialog \in {"update", "update/installed"} /\ ~busy
  /\ ShowDialog(NoDialog) /\ UNCHANGED calls
  /\ quiet

Leave == ~leaving /\ leaving' = TRUE
         /\ UNCHANGED <<dialog, busy, holder, calls, tasks>>
-----------------------------------------------------------------------------
(* finishDialogAction *)
Finish(s) == IF holder = s THEN busy' = FALSE /\ holder' = NoSlot
                           ELSE UNCHANGED <<busy, holder>>
Hang(s) == calls' = [calls EXCEPT ![s] = Idle]

(* After an answer: was the call overtaken by another screen or another   *)
(* call, and does the code compare?                                       *)
Overtaken(s, n) == n \in calls[s].checks /\ holder # s

(* The end of a call: showDialog or closeDialog whatever the counter is;  *)
(* unblockPeer finishes and loads the list.                               *)
End(s, d) ==
  CASE d = Same -> UNCHANGED dialog /\ Finish(s) /\ Hang(s)
    [] d = Again ->
         /\ UNCHANGED dialog
         /\ IF holder = s \/ ~busy
            THEN /\ busy' = TRUE /\ holder' = s
                 /\ calls' = [calls EXCEPT ![s] = CallOf[dialog]["loadBlockedPeers"]]
            ELSE UNCHANGED <<busy, holder>> /\ Hang(s)
    [] OTHER -> ShowDialog(d) /\ Hang(s)

Answer(s) ==
  /\ s \in Waiting
  /\ LET n == calls[s].answered + 1 IN
       IF Overtaken(s, n)
       THEN Hang(s) /\ UNCHANGED <<dialog, busy, holder>>
       ELSE IF n < calls[s].waits
       THEN calls' = [calls EXCEPT ![s].answered = n] /\ UNCHANGED <<dialog, busy, holder>>
       ELSE \E d \in calls[s].ends : End(s, d)
  /\ quiet

(* Mutant of Fail: the early return of an error forgets finishDialogAction. *)
FailUnfinished(s) ==
  /\ s \in Waiting
  /\ Hang(s)
  /\ UNCHANGED <<dialog, busy, holder, tasks, leaving>>

(* failDialogAction and the finally clause *)
Fail(s) ==
  /\ s \in Waiting
  /\ Hang(s) /\ Finish(s)
  /\ UNCHANGED <<dialog, tasks, leaving>>
-----------------------------------------------------------------------------
(* The event friend_request: the screen is set without the counter. *)
FriendRequest ==
  /\ dialog' = IF dialog = NoDialog THEN "friend-request-incoming" ELSE dialog
  /\ UNCHANGED <<busy, holder, calls, tasks, leaving>>

(* Sending a file, by a key or a paste: also while the splash is drawn.    *)
MoreTasks == Cardinality(tasks \ {"startup"}) < MaxTasks
Begun(task) == MoreTasks /\ task \notin tasks /\ tasks' = tasks \cup {task}
Ended(task) == task \in tasks /\ tasks' = tasks \ {task}

(* runStartup has its answers, the splash its time, and the setup that is  *)
(* still missing is shown, over whatever the keys have opened meanwhile    *)
(* and without the counter.  A startup that fails leaves the splash drawn: *)
(* nothing says that it ends.                                              *)
FinishStartup ==
  /\ "startup" \in tasks /\ MoreTasks
  /\ \/ /\ dialog' \in {"rename/first", "control/first"}
        /\ tasks' = (tasks \ {"startup"}) \cup {"first update check"}
     \/ /\ dialog' \in {"notification-enable/first", dialog}
        /\ tasks' = (tasks \ {"startup"}) \cup {"update check"}
  /\ UNCHANGED <<busy, holder, calls, leaving>>

(* The update check of finishStartup answers; an update is offered only    *)
(* when the setup was finished before.                                     *)
UpdateChecked ==
  /\ \/ Ended("update check") /\ ShowDialog("update")
     \/ \E task \in {"update check", "first update check"} :
          Ended(task) /\ (ShowDialog("update-token") \/ UNCHANGED <<dialog, busy, holder>>)
  /\ UNCHANGED <<calls, leaving>>

(* A pasted or dropped file is staged, then the confirmation is shown. *)
PasteFile ==
  /\ ~leaving /\ dialog = NoDialog /\ Begun("staging")
  /\ UNCHANGED <<dialog, busy, holder, calls, leaving>>

FileStaged ==
  /\ Ended("staging")
  /\ ShowDialog("file-confirm") \/ UNCHANGED <<dialog, busy, holder>>
  /\ UNCHANGED <<calls, leaving>>

(* openFilePicker: the system's picker, then sendFile. *)
OpenFilePicker ==
  /\ ~leaving /\ dialog = NoDialog /\ Begun("picker")
  /\ UNCHANGED <<dialog, busy, holder, calls, leaving>>

FilePicked ==
  /\ Ended("picker")
  /\ \/ Begin("sendFile", dialog, dialog, busy, holder)
     \/ UNCHANGED <<dialog, busy, holder, calls>>
  /\ UNCHANGED leaving

DialogNext ==
  \/ \E link \in LinksOf[dialog] : Pick(link)
  \/ \E link \in Categories : PickCategory(link)
  \/ ToggleSettings \/ OpenFriendsInbox \/ Back \/ DismissOnOverlay \/ DismissUpdate \/ Leave
  \/ \E s \in Slots : Answer(s) \/ Fail(s)
  \/ FriendRequest \/ FinishStartup \/ UpdateChecked \/ PasteFile \/ FileStaged
  \/ OpenFilePicker \/ FilePicked

DialogSpec == DialogInit /\ [][DialogNext]_dialogVars

(* Calls are answered, and the backend does not refuse a screen every time *)
(* it is asked; a user who wants to leave keeps pressing Esc, or the       *)
(* updater's buttons.                                                      *)
FairDialogs == DialogSpec /\ SF_dialogVars(\E s \in Slots : Answer(s))
                 /\ WF_dialogVars(leaving /\ (Back \/ DismissUpdate))
-----------------------------------------------------------------------------
(* "Working..." is shown, and keys and menus are refused, only while an    *)
(* operation is under way that will end it: no early return, failure or    *)
(* overtaken answer leaves the interface refusing input for ever           *)
(* (beginDialogAction, finishDialogAction, and every operation's ends).    *)
BusyTrue == busy => holder # NoSlot /\ holder \in Waiting

(* An answer the user no longer waits for, because another screen or       *)
(* operation came since, never shows the screen it was asked for           *)
(* (the comparisons with dialogActionRef).  It may still close the screen  *)
(* shown now: the operations that refresh the lists after their answer do  *)
(* not compare again.                                                      *)
StaleNeverShows ==
  [][\A s \in Slots : (s \in Waiting /\ holder # s /\ Answer(s))
       => dialog' \in {dialog, NoDialog}]_dialogVars

(* Whatever screen the user is in and whatever is under way, Esc and the   *)
(* updater's buttons lead out: the chain of goBack has no cycle, and no    *)
(* screen it starts an operation on keeps the user there.                  *)
WayOut == leaving ~> (dialog = NoDialog)

=============================================================================
