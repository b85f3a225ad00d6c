------------------------------- MODULE Shell -------------------------------
(* The main window after launch (ui/main_window.py): the one dialog slot, the *)
(* content it shows, the lock and the idle timer of AuthService, the recovery *)
(* code's one display (ui/recovery_key.py), and the updater that works beside *)
(* them on threads of its own (ui/_update_worker.py, services/update.py,      *)
(* services/update_installer.py).                                             *)
(*                                                                            *)
(* Qt runs one handler at a time on the window's thread, so a handler is one  *)
(* step - unless it asks a question with exec() or a static QMessageBox,      *)
(* QFileDialog or QInputDialog call.  Such a call runs a nested event loop:   *)
(* timers and the workers' signals are served inside it, and the rest of the  *)
(* handler runs when the question is answered.  `w.nest' is the stack of      *)
(* handlers waiting in that way, innermost last.                              *)
EXTENDS Integers, Sequences, FiniteSets, SequencesExt

CONSTANTS
    MaxNest,        \* nested event loops at once
    MaxDownloads    \* download workers at once

ASSUME MaxNestAssumption == MaxNest \in Nat \ {0}
ASSUME MaxDownloadsAssumption == MaxDownloads \in Nat \ {0}

VARIABLES
    w,          \* MainWindow and AuthService: one record, see TypeOK
    vault,      \* the vault: is there one, has it an envelope, its recovery slot
    clip,       \* what the system clipboard holds
    dl,         \* the download workers
    disk,       \* the program file and the updates staged beside it
    proc        \* "up", "closed", "aborted", "replaced" or "powerless"

vars == <<w, vault, clip, dl, disk, proc>>

Workers == 1..MaxDownloads

\* Dialogs of the slot.  "entry" is manual entry, "form" any other that only
\* reads and writes the vault: alerts, the hint, verify backup.
PreLogin == {"firstrun", "unlock", "restore"}
Plain == {"settings", "export", "entry", "form"}
Dialogs == PreLogin \cup Plain \cup {"newmaster", "offer", "update", "busy"}

\* What a nested loop is waiting for: a file picker, the master-password gate of
\* Add / Replace and of Remove, the failed-upgrade notice of an unlock, the
\* could-not-store notice of Keep, or a box that nothing follows.
Questions == {"picker", "gate", "remove", "upgrade", "unstored", "note"}

TypeOK ==
    /\ w \in [key : BOOLEAN, unlocked : BOOLEAN, minutes : {"some", "never"},
              timer : {"off", "on"}, suspended : BOOLEAN,
              live : {"none", "workspace", "wizard"},
              slot : Dialogs \cup {"none"}, at : 0..MaxNest, busy : 0..MaxDownloads,
              nest : BoundedSeq([what : Questions, own : BOOLEAN], MaxNest),
              code : BOOLEAN, regen : BOOLEAN, notice : BOOLEAN, failed : BOOLEAN,
              launch : {"armed", "running", "done"},
              manual : {"idle", "running"}, asked : BOOLEAN, \* asked while unlocked
              pending : BOOLEAN, tracked : 0..MaxDownloads]
    /\ vault \in [exists : BOOLEAN, legacy : BOOLEAN, slot : BOOLEAN]
    /\ clip \in {"code", "other"}
    /\ dl \in [Workers -> {"unused", "running", "ready", "failed"}]
    /\ disk \in [skipped : BOOLEAN, program : {"old", "new", "torn"}, flushed : BOOLEAN,
                 step : {"idle", "staged", "swapped", "helper"}, applied : 0..MaxDownloads,
                 staged : SUBSET Workers]
    /\ proc \in {"up", "closed", "aborted", "replaced", "powerless"}

\* A window just built, before it routes to its first dialog.
Fresh == [key |-> FALSE, unlocked |-> FALSE, minutes |-> "some", timer |-> "off",
          suspended |-> FALSE, live |-> "none", slot |-> "none", at |-> 0, busy |-> 0,
          nest |-> <<>>, code |-> FALSE, regen |-> FALSE, notice |-> FALSE,
          failed |-> FALSE, launch |-> "armed", manual |-> "idle",
          asked |-> FALSE, pending |-> FALSE, tracked |-> 0]

Init ==
    /\ \E exists, legacy, slot \in BOOLEAN :
        /\ legacy => exists
        /\ slot => exists /\ ~legacy
        /\ vault = [exists |-> exists, legacy |-> legacy, slot |-> slot]
        /\ w = [Fresh EXCEPT !.slot = IF exists THEN "unlock" ELSE "firstrun"]
    /\ clip = "other"
    /\ dl = [i \in Workers |-> "unused"]
    /\ disk = [skipped |-> FALSE, program |-> "old", flushed |-> FALSE, step |-> "idle",
               applied |-> 0, staged |-> {}]
    /\ proc = "up"

-----------------------------------------------------------------------------
\* The slot and the nested loops.

\* A handler runs: the process is up and the window's thread is not inside
\* Installer.apply.
Turn == proc = "up" /\ disk.step = "idle"

\* The slot's dialog is the newest modal, so the one the owner can reach.
OnTop(kind) == w.slot = kind /\ w.at = Len(w.nest)
AtWindow == w.slot = "none" /\ w.nest = <<>>
\* The innermost question can be answered.  A picker is the desktop's own
\* window, so a dialog opened over it does not block it.
Asking(what) ==
    /\ w.nest # <<>> /\ Last(w.nest).what = what
    /\ \/ w.slot = "none"
       \/ w.at < Len(w.nest)
       \/ what = "picker"

teardown_dialog(s) ==
    [s EXCEPT !.slot = "none", !.at = 0, !.busy = 0,
              !.nest = [i \in DOMAIN @ |-> [@[i] EXCEPT !.own = FALSE]]]
open_dialog(s, kind) ==
    LET free == teardown_dialog(s) IN [free EXCEPT !.slot = kind, !.at = Len(s.nest)]

CanAsk == Len(w.nest) < MaxNest
Ask(s, what) == [s EXCEPT !.nest = Append(@, [what |-> what, own |-> TRUE])]
Answered(s) ==
    [s EXCEPT !.nest = Front(@), !.at = IF @ < Len(s.nest) THEN @ ELSE Len(s.nest) - 1]

-----------------------------------------------------------------------------
\* AuthService: the key and the idle timer.

arm_timer(s) == [s EXCEPT !.timer = IF s.minutes = "never" THEN "off" ELSE "on"]
open_with(s) == arm_timer([s EXCEPT !.key = TRUE])
service_lock(s) == [s EXCEPT !.key = FALSE, !.timer = "off"]
suspend_idle_lock(s) == [s EXCEPT !.suspended = TRUE, !.timer = "off"]
NeverResumed(s) == s
resume_idle_lock(s) ==
    LET on == [s EXCEPT !.suspended = FALSE] IN IF s.key THEN arm_timer(on) ELSE on

-----------------------------------------------------------------------------
\* Entering and leaving the unlocked shell.

\* The one content widget.  Its tabs only read and write the vault.
build_workspace(s) == [s EXCEPT !.live = "workspace"]
clear_live(s) == [s EXCEPT !.live = "none"]

\* A found update is shown only unlocked and with the slot free.
maybe_show_pending_offer(s) ==
    IF s.pending /\ s.unlocked /\ s.slot = "none"
    THEN open_dialog([s EXCEPT !.pending = FALSE], "update") ELSE s

show_code(s) == open_dialog(suspend_idle_lock(s), "offer")

\* What an unlock owes: first-run's code, a converted vault's or, after a
\* recovery unlock, a replacement.  Consumed on read.
enter_unlocked_rest(s) ==
    LET read == [s EXCEPT !.code = FALSE, !.regen = FALSE,
                          !.notice = IF s.code THEN @ ELSE FALSE]
    IN  IF s.code \/ s.notice \/ s.regen THEN show_code(read)
        ELSE maybe_show_pending_offer(read)

enter_unlocked(s) ==
    LET inside == build_workspace(teardown_dialog([s EXCEPT !.unlocked = TRUE]))
    IN  IF s.failed THEN Ask([inside EXCEPT !.failed = FALSE], "upgrade")
        ELSE enter_unlocked_rest(inside)

lock(s) ==
    LET shut == service_lock(teardown_dialog([s EXCEPT !.unlocked = FALSE]))
    IN  open_dialog(clear_live(shut), "unlock")

\* A running countdown may run out at any moment; input only restarts it.  Its
\* slot does nothing when the vault is already locked.
on_idle_timeout ==
    /\ Turn /\ w.timer = "on" /\ w.key
    /\ w' = lock(service_lock(w))
    /\ UNCHANGED <<vault, clip, dl, disk, proc>>
LockNow ==
    /\ Turn /\ AtWindow /\ w.unlocked
    /\ w' = lock(w)
    /\ UNCHANGED <<vault, clip, dl, disk, proc>>

\* The window creates the vault; the dialog hands over the code, then completes.
CompleteFirstRun ==
    /\ Turn /\ OnTop("firstrun")
    /\ vault' = [exists |-> TRUE, legacy |-> FALSE, slot |-> FALSE]
    /\ w' = enter_unlocked([open_with(w) EXCEPT !.code = TRUE])
    /\ UNCHANGED <<clip, dl, disk, proc>>

\* The right password.  A vault without an envelope is converted on the way, or
\* is opened as it was and the failure is kept for the window to tell.
UnlockWithPassword ==
    /\ Turn /\ OnTop("unlock") /\ CanAsk
    /\ \E converts \in IF vault.legacy THEN BOOLEAN ELSE {FALSE} :
        /\ vault' = [vault EXCEPT !.legacy = @ /\ ~converts]
        /\ w' = enter_unlocked([open_with(w) EXCEPT
                    !.notice = @ \/ converts, !.failed = vault.legacy /\ ~converts])
    /\ UNCHANGED <<clip, dl, disk, proc>>

\* The recovery code: the vault is open and the workspace is withheld until a
\* new master password is set.
on_recovery_unlocked ==
    /\ Turn /\ OnTop("unlock") /\ vault.slot
    /\ w' = open_dialog([open_with(w) EXCEPT !.regen = TRUE], "newmaster")
    /\ UNCHANGED <<vault, clip, dl, disk, proc>>
SetMasterPassword ==
    /\ Turn /\ OnTop("newmaster")
    /\ w' = enter_unlocked(w)
    /\ UNCHANGED <<vault, clip, dl, disk, proc>>

\* The failed-upgrade notice was read: the rest of _enter_unlocked, whatever
\* happened meanwhile.
AfterUpgradeNotice ==
    /\ Turn /\ Asking("upgrade")
    /\ w' = enter_unlocked_rest(Answered(w))
    /\ UNCHANGED <<vault, clip, dl, disk, proc>>

\* Cancel leaves the locked window, whose button opens the dialog again.
CancelUnlock ==
    /\ Turn /\ OnTop("unlock")
    /\ w' = teardown_dialog(w)
    /\ UNCHANGED <<vault, clip, dl, disk, proc>>
show_unlock ==
    /\ Turn /\ AtWindow /\ ~w.unlocked
    /\ w' = open_dialog(clear_live(w), "unlock")
    /\ UNCHANGED <<vault, clip, dl, disk, proc>>

\* Restore and start over, which replace the vault (VaultInstall).
open_restore ==
    /\ Turn
    /\ OnTop("unlock") \/ OnTop("firstrun")
    /\ w' = open_dialog(w, "restore")
    /\ UNCHANGED <<vault, clip, dl, disk, proc>>
route_pre_login(s, exists) == open_dialog(s, IF exists THEN "unlock" ELSE "firstrun")
CancelRestore ==
    /\ Turn /\ OnTop("restore")
    /\ w' = route_pre_login(w, vault.exists)
    /\ UNCHANGED <<vault, clip, dl, disk, proc>>
on_restore_requested ==
    /\ Turn /\ OnTop("restore")
    /\ vault' = [exists |-> TRUE, legacy |-> FALSE, slot |-> FALSE]
    /\ w' = enter_unlocked(open_with(w))
    /\ UNCHANGED <<clip, dl, disk, proc>>
on_start_over ==
    /\ Turn /\ OnTop("unlock")
    /\ vault' = [exists |-> FALSE, legacy |-> FALSE, slot |-> FALSE]
    /\ w' = route_pre_login(w, FALSE)
    /\ UNCHANGED <<clip, dl, disk, proc>>

-----------------------------------------------------------------------------
\* The recovery code: one display, and the gates of Add, Replace and Remove.

\* `finished': resume the idle lock, then free the slot.
OfferFinished(s) == teardown_dialog(resume_idle_lock(s))

\* Keep.  A locked vault refuses the write and nothing is said; another failure
\* is told, and the display ends once the owner has read it.
KeepCode ==
    /\ Turn /\ OnTop("offer")
    /\ vault' = [vault EXCEPT !.slot = @ \/ w.key]
    /\ w' = OfferFinished(w)
    /\ UNCHANGED <<clip, dl, disk, proc>>
KeepFails ==
    /\ Turn /\ OnTop("offer") /\ w.key /\ CanAsk
    /\ w' = Ask(w, "unstored")
    /\ UNCHANGED <<vault, clip, dl, disk, proc>>
AfterKeepFailed ==
    /\ Turn /\ Asking("unstored")
    /\ w' = OfferFinished(Answered(w))
    /\ UNCHANGED <<vault, clip, dl, disk, proc>>
Decline ==
    /\ Turn /\ OnTop("offer")
    /\ w' = OfferFinished(w)
    /\ UNCHANGED <<vault, clip, dl, disk, proc>>

\* Copy.  The guard and its timer belong to the window, not to the display.
CopyCode ==
    /\ Turn /\ OnTop("offer") /\ clip # "code"
    /\ clip' = "code"
    /\ UNCHANGED <<w, vault, dl, disk, proc>>
CopyRow ==
    /\ Turn /\ AtWindow /\ w.live = "workspace" /\ clip = "code"
    /\ clip' = "other"
    /\ UNCHANGED <<w, vault, dl, disk, proc>>
OnlyWhileShown == w.slot = "offer" /\ clip = "code" /\ clip' = "other"
clear_if_ours == clip = "code" /\ clip' = "other"
ClipboardTimeout ==
    /\ Turn /\ clear_if_ours
    /\ UNCHANGED <<w, vault, dl, disk, proc>>

\* Settings' Add / Replace.  A right password at the gate shows a new code; a
\* refusal, a cancel or a vault locked meanwhile puts Settings back if it can.
reopen_settings_if_idle(s) ==
    IF s.unlocked /\ s.slot = "none" THEN open_dialog(s, "settings") ELSE s
on_change_recovery_key ==
    /\ Turn /\ OnTop("settings") /\ CanAsk
    /\ w' = Ask(teardown_dialog(w), "gate")
    /\ UNCHANGED <<vault, clip, dl, disk, proc>>
AnswerGate(right) ==
    /\ Turn /\ Asking("gate")
    /\ w' = IF right /\ w.key THEN show_code(Answered(w))
            ELSE reopen_settings_if_idle(Answered(w))
    /\ UNCHANGED <<vault, clip, dl, disk, proc>>
on_remove_recovery_key ==
    /\ Turn /\ OnTop("settings") /\ CanAsk /\ vault.slot
    /\ w' = Ask(teardown_dialog(w), "remove")
    /\ UNCHANGED <<vault, clip, dl, disk, proc>>
AnswerRemove(agreed) ==
    /\ Turn /\ Asking("remove")
    /\ IF agreed /\ w.key THEN vault' = [vault EXCEPT !.slot = FALSE]
       ELSE UNCHANGED vault
    /\ w' = reopen_settings_if_idle(Answered(w))
    /\ UNCHANGED <<clip, dl, disk, proc>>

-----------------------------------------------------------------------------
\* The content and the plain dialogs.

\* Settings and manual entry open over the wizard too; an export asks Home what
\* to export, and the alerts' button is Home's.
OpenFromWindow(kind) ==
    /\ Turn /\ AtWindow /\ w.unlocked
    /\ kind \in {"export", "form"} => w.live = "workspace"
    /\ w' = open_dialog(w, kind)
    /\ UNCHANGED <<vault, clip, dl, disk, proc>>
\* Settings' buttons replace Settings.
OpenFromSettings(kind) ==
    /\ Turn /\ OnTop("settings")
    /\ w' = open_dialog(w, kind)
    /\ UNCHANGED <<vault, clip, dl, disk, proc>>
CloseDialog ==
    /\ Turn /\ \E kind \in Plain : OnTop(kind)
    /\ w' = teardown_dialog(w)
    /\ UNCHANGED <<vault, clip, dl, disk, proc>>
\* A row added by hand is shown in Transactions: a wizard underneath gives way.
on_manual_committed ==
    /\ Turn /\ OnTop("entry")
    /\ w' = build_workspace(teardown_dialog(w))
    /\ UNCHANGED <<vault, clip, dl, disk, proc>>
SaveSettings(minutes) ==
    /\ Turn /\ OnTop("settings")
    /\ w' = teardown_dialog(arm_timer([w EXCEPT !.minutes = minutes]))
    /\ UNCHANGED <<vault, clip, dl, disk, proc>>

open_import ==
    /\ Turn /\ AtWindow /\ w.live = "workspace"
    /\ w' = [w EXCEPT !.live = "wizard"]
    /\ UNCHANGED <<vault, clip, dl, disk, proc>>
on_import_done ==
    /\ Turn /\ AtWindow /\ w.live = "wizard"
    /\ w' = build_workspace(w)
    /\ UNCHANGED <<vault, clip, dl, disk, proc>>

\* An export, of a report or a backup, asks where to save.
on_export_requested ==
    /\ Turn /\ OnTop("export") /\ CanAsk
    /\ w' = Ask(w, "picker")
    /\ UNCHANGED <<vault, clip, dl, disk, proc>>
NeverLockedDuringPicker(s) == FALSE
locked_during_picker(s) == ~s.unlocked \/ ~Last(s.nest).own
\* The picker returns: cancelled, or a place to write, which works or does not.
AnswerPicker(outcome) ==
    /\ Turn /\ Asking("picker")
    /\ w' = IF outcome = "cancelled" \/ locked_during_picker(w) THEN Answered(w)
            ELSE IF outcome = "written" /\ w.key THEN teardown_dialog(Answered(w))
            ELSE Ask(Answered(w), "note")
    /\ UNCHANGED <<vault, clip, dl, disk, proc>>
AnswerNote ==
    /\ Turn /\ Asking("note")
    /\ w' = Answered(w)
    /\ UNCHANGED <<vault, clip, dl, disk, proc>>

-----------------------------------------------------------------------------
\* The updater: two checks, the prompt, the download, the installer.

\* A check finds a newer release unless it was skipped.
Finds == IF disk.skipped THEN {FALSE} ELSE BOOLEAN
on_update_found(s) == maybe_show_pending_offer([s EXCEPT !.pending = TRUE])

\* Once per launch, when the owner opted in and the package can update itself.
maybe_check_for_update(enabled) ==
    /\ Turn /\ w.launch = "armed"
    /\ w' = [w EXCEPT !.launch = IF enabled THEN "running" ELSE "done"]
    /\ UNCHANGED <<vault, clip, dl, disk, proc>>
LaunchCheckAnswers(found) ==
    /\ Turn /\ w.launch = "running" /\ found \in Finds
    /\ LET s == [w EXCEPT !.launch = "done"]
       IN  w' = IF found THEN on_update_found(s) ELSE s
    /\ UNCHANGED <<vault, clip, dl, disk, proc>>

\* Help's check answers on every outcome, but not over a lock screen that came
\* up after the click.
check_for_updates_now ==
    /\ Turn /\ AtWindow /\ w.manual = "idle"
    /\ w' = [w EXCEPT !.manual = "running", !.asked = w.unlocked]
    /\ UNCHANGED <<vault, clip, dl, disk, proc>>
locked_since_manual_check(s) == s.asked /\ ~s.unlocked
ManualCheckAnswers(found) ==
    /\ Turn /\ w.manual = "running" /\ found \in Finds /\ CanAsk
    /\ LET s == [w EXCEPT !.manual = "idle", !.asked = FALSE]
       IN  w' = CASE found -> on_update_found(s)
                  [] ~found /\ locked_since_manual_check(w) -> s
                  [] OTHER -> Ask(s, "note")
    /\ UNCHANGED <<vault, clip, dl, disk, proc>>

on_update_later ==
    /\ Turn /\ OnTop("update")
    /\ w' = teardown_dialog(w)
    /\ UNCHANGED <<vault, clip, dl, disk, proc>>
on_update_skip ==
    /\ Turn /\ OnTop("update")
    /\ disk' = [disk EXCEPT !.skipped = TRUE]
    /\ w' = teardown_dialog(w)
    /\ UNCHANGED <<vault, clip, dl, proc>>
\* The prompt turns busy and stays; the new worker is the one the window tracks.
on_update_now(i) ==
    /\ Turn /\ OnTop("update")
    /\ dl[i] = "unused" /\ \A j \in 1..(i - 1) : dl[j] # "unused"
    /\ dl' = [dl EXCEPT ![i] = "running"]
    /\ w' = [w EXCEPT !.slot = "busy", !.busy = i, !.tracked = i]
    /\ UNCHANGED <<vault, clip, disk, proc>>

\* The worker's thread: a verified file is left beside the program, or nothing is.
download_and_verify(i, ok) ==
    /\ proc = "up" /\ dl[i] = "running"
    /\ dl' = [dl EXCEPT ![i] = IF ok THEN "ready" ELSE "failed"]
    /\ disk' = IF ok THEN [disk EXCEPT !.staged = @ \cup {i}] ELSE disk
    /\ UNCHANGED <<w, vault, clip, proc>>

prompt_live(i) == w.slot = "busy" /\ w.busy = i
Unstage(d, i) == [d EXCEPT !.staged = @ \ {i}]
LeftStaged(d, i) == d
Release(i) == dl' = [dl EXCEPT ![i] = "unused"]
\* The download's result reaches the window.
DropStale(d, i) == Unstage(d, i)
on_download_ready(i) ==
    /\ Turn /\ dl[i] = "ready"
    /\ Release(i)
    /\ disk' = IF prompt_live(i) THEN [disk EXCEPT !.step = "staged", !.applied = i]
              ELSE DropStale(disk, i)
    /\ UNCHANGED <<w, vault, clip, proc>>
on_download_failed(i) ==
    /\ Turn /\ dl[i] = "failed" /\ CanAsk
    /\ Release(i)
    /\ w' = IF prompt_live(i) THEN Ask(teardown_dialog(w), "note") ELSE w
    /\ UNCHANGED <<vault, clip, disk, proc>>

\* The process is gone, and what it held in memory with it.
Ended(how) ==
    /\ proc' = how
    /\ w' = Fresh
    /\ dl' = [i \in Workers |-> "unused"]

\* Installer.apply, on the window's thread.  AppImage: flush the staged bytes,
\* rename them over the program, flush the directory.
fsync_staged(d) == [d EXCEPT !.flushed = TRUE]
ReplaceProgram ==
    /\ proc = "up" /\ disk.step = "staged"
    /\ disk' = [Unstage(fsync_staged(disk), disk.applied) EXCEPT !.step = "swapped",
                                                          !.program = "new"]
    /\ UNCHANGED <<w, vault, clip, dl, proc>>
\* Windows: a helper is started, which swaps once this process is gone.
SpawnHelper ==
    /\ proc = "up" /\ disk.step = "staged"
    /\ disk' = [disk EXCEPT !.step = "helper"]
    /\ UNCHANGED <<w, vault, clip, dl, proc>>
\* Either fails before anything is swapped: the file is dropped, the owner told.
ApplyFails ==
    /\ proc = "up" /\ disk.step = "staged" /\ CanAsk
    /\ disk' = [Unstage(disk, disk.applied) EXCEPT !.step = "idle", !.applied = 0]
    /\ w' = Ask(w, "note")
    /\ UNCHANGED <<vault, clip, dl, proc>>
\* Committed: free the socket, wipe the key, start the waiter, end.
Relaunch ==
    /\ proc = "up" /\ disk.step \in {"swapped", "helper"}
    /\ Ended("replaced")
    /\ UNCHANGED <<vault, clip, disk>>
\* The helper moves the file, or gives up after a minute and removes it.
HelperSwaps(moves) ==
    /\ proc = "replaced" /\ disk.step = "helper"
    /\ disk' = [Unstage(disk, disk.applied) EXCEPT !.step = "swapped",
                                             !.program = IF moves THEN "new" ELSE @]
    /\ UNCHANGED <<w, vault, clip, dl, proc>>

\* The power goes.  An AppImage swapped and not yet flushed may be either file
\* or, when its bytes were not flushed before the rename, neither.
PowerLoss ==
    /\ proc = "up"
    /\ \E left \in IF disk.step = "swapped"
                   THEN {"old", "new"} \cup (IF disk.flushed THEN {} ELSE {"torn"})
                   ELSE {disk.program} :
        disk' = [disk EXCEPT !.program = left]
    /\ Ended("powerless")
    /\ UNCHANGED <<vault, clip>>

-----------------------------------------------------------------------------
\* The window closes: the worker it tracks is interrupted, waited for and, if it
\* outlasts the wait, detached; a running one it does not track is destroyed.
drain_update_workers == {i \in Workers : dl[i] = "running" /\ i # w.tracked}
Close ==
    /\ Turn
    /\ AtWindow \/ OnTop("unlock") \/ OnTop("firstrun") \/ OnTop("newmaster")
    /\ Ended(IF drain_update_workers = {} THEN "closed" ELSE "aborted")
    /\ UNCHANGED <<vault, clip, disk>>

-----------------------------------------------------------------------------
Session ==
    \/ CompleteFirstRun \/ UnlockWithPassword \/ on_recovery_unlocked
    \/ SetMasterPassword \/ AfterUpgradeNotice \/ CancelUnlock \/ show_unlock
    \/ open_restore \/ CancelRestore \/ on_restore_requested \/ on_start_over
    \/ LockNow \/ on_idle_timeout
Recovery ==
    \/ KeepCode \/ KeepFails \/ AfterKeepFailed \/ Decline
    \/ CopyCode \/ CopyRow \/ ClipboardTimeout
    \/ on_change_recovery_key \/ on_remove_recovery_key
    \/ \E yes \in BOOLEAN : AnswerGate(yes) \/ AnswerRemove(yes)
Content ==
    \/ \E kind \in Plain : OpenFromWindow(kind)
    \/ \E kind \in {"export", "form"} : OpenFromSettings(kind)
    \/ \E minutes \in {"some", "never"} : SaveSettings(minutes)
    \/ \E outcome \in {"cancelled", "written", "failed"} : AnswerPicker(outcome)
    \/ CloseDialog \/ on_manual_committed \/ open_import \/ on_import_done \/ on_export_requested \/ AnswerNote
Update ==
    \/ check_for_updates_now
    \/ \E yes \in BOOLEAN :
        maybe_check_for_update(yes) \/ LaunchCheckAnswers(yes) \/ ManualCheckAnswers(yes)
    \/ on_update_later \/ on_update_skip
    \/ \E i \in Workers : on_update_now(i) \/ on_download_ready(i) \/ on_download_failed(i)
    \/ \E i \in Workers, ok \in BOOLEAN : download_and_verify(i, ok)
    \/ ReplaceProgram \/ SpawnHelper \/ ApplyFails \/ Relaunch \/ PowerLoss
    \/ \E yes \in BOOLEAN : HelperSwaps(yes)
    \/ Close

Next == Session \/ Recovery \/ Content \/ Update

Spec == Init /\ [][Next]_vars

\* An expired timer is served when the event loop next turns, and apply, which
\* holds the loop, does not block.
Fairness ==
    /\ SF_vars(ClipboardTimeout)
    /\ WF_vars(ReplaceProgram \/ SpawnHelper \/ ApplyFails) /\ WF_vars(Relaunch)
FairSpec == Spec /\ Fairness

-----------------------------------------------------------------------------
(* Properties. *)

\* Without the key no content is on screen and none of the Plain dialogs, which
\* read and write the vault, holds the slot, whichever handler was waiting in a
\* nested loop when the vault locked and however late it resumes; and a recovery
\* unlock shows no content before the new master password is set.  The display
\* of a recovery code, whose Keep also writes, is not among them: it may open
\* over a locked window (OfferNeedsTheKey).
NothingShown ==
    proc = "up" =>
        /\ ~w.key => w.live = "none" /\ ~w.unlocked /\ w.slot \notin Plain
        /\ w.key /\ ~w.unlocked => w.slot = "newmaster" /\ w.live = "none"

\* _show_recovery_offer: a replacement is owed when "a recovery unlock has just
\* completed", so a code is displayed only while the vault is open to store it in.
OfferNeedsTheKey == proc = "up" /\ w.slot = "offer" => w.key

\* main_window.py, "so it cannot fire on a later ordinary unlock": an unlock with
\* the password is followed by a code only when it converted the vault.
OfferIsOfThisUnlock ==
    [][OnTop("unlock") /\ w'.slot = "offer" => vault.legacy /\ ~vault'.legacy]_vars

\* With the key held the countdown runs, unless the owner chose Never, and stops
\* exactly while a code is displayed: the display is never torn down under the
\* owner's pen, and no way of closing it leaves the vault open for good.
Displaying == w.slot = "offer" \/ \E i \in DOMAIN w.nest : w.nest[i].what = "unstored"
IdleLockArmed ==
    proc = "up" /\ w.key /\ w.minutes = "some" => (w.timer = "on" <=> ~Displaying)

\* No box is raised over a lock screen by a handler that was waiting, or by a
\* thread that answers late; a check asked for on the locked window may answer.
LockScreenIsQuiet ==
    proc = "up" /\ Len(w'.nest) > Len(w.nest) =>
        w'.unlocked \/ (w.manual = "running" /\ w'.manual = "idle" /\ ~w.asked)

\* Locked is locked, but for the display of a recovery code: no step leaves
\* content or a Plain dialog shown, and none raises a box.
LockedMeansLocked == [][NothingShown' /\ LockScreenIsQuiet]_vars

\* A downloaded file lies beside the program only while its result is on its way
\* to the window or is being installed: a prompt torn down by a lock, a failed
\* install and a second download leave nothing behind.
StagedIsAccounted ==
    proc = "up" => \A i \in disk.staged :
        dl[i] = "ready" \/ (disk.step # "idle" /\ disk.applied = i)

\* A power loss around the swap leaves the old program or the new one.
ProgramIsWhole == disk.program # "torn"

\* An update is installed whole or leaves nothing of itself behind.
UpdateIsClean == StagedIsAccounted /\ ProgramIsWhole

\* A copied code leaves the clipboard while the program runs, also when the vault
\* locks or the display closes first.
ClipboardCleared == (clip = "code") ~> (clip # "code" \/ proc # "up")
=============================================================================
