------------------------------ MODULE ShellProofs ------------------------------
(***************************************************************************)
(* What the locked window promises, for any depth of nested event loops and *)
(* any number of downloads.  A handler is a function of the record w, so    *)
(* the invariant is stated of a record, and proved of each function the     *)
(* handlers are composed of; an action then only composes.                  *)
(***************************************************************************)
EXTENDS Shell, SequenceTheorems, TLAPS

(* The frames of a nested loop, and the window's record.                     *)
Frame == [what : Questions, own : BOOLEAN]
Frames == BoundedSeq(Frame, MaxNest)
Window == [key : BOOLEAN, unlocked : BOOLEAN, minutes : {"some", "never"},
           timer : {"off", "on"}, suspended : BOOLEAN,
           live : {"none", "workspace", "wizard"},
           slot : Dialogs \cup {"none"}, at : 0..MaxNest, busy : 0..MaxDownloads,
           nest : Frames,
           code : BOOLEAN, regen : BOOLEAN, notice : BOOLEAN, failed : BOOLEAN,
           launch : {"armed", "running", "done"},
           manual : {"idle", "running"}, asked : BOOLEAN,
           pending : BOOLEAN, tracked : 0..MaxDownloads]

-----------------------------------------------------------------------------
(* The inductive invariant, of a record s.                                   *)

(* No handler waits above the slot's dialog but one that shows a notice.     *)
OnlyNotesAbove(s) == \A i \in DOMAIN s.nest : i > s.at => s.nest[i].what = "note"

(* Content and dialogs that read the vault are up only while it is unlocked, *)
(* and the only other use of the key is to set a new master password.        *)
UnlockedHasKey(s) == s.unlocked => s.key
LockedShowsNothing(s) == ~s.unlocked => s.live = "none" /\ s.slot \notin Plain \cup {"update", "busy"}
KeyWithheld(s) == s.key /\ ~s.unlocked => s.slot = "newmaster"
NewMasterIsLast(s) == s.slot = "newmaster" => s.key /\ OnlyNotesAbove(s)

(* The handler of a refused Keep waits directly above the code's display,    *)
(* which is still up.                                                        *)
KeepWaits(s) ==
    \A i \in DOMAIN s.nest : s.nest[i].what = "unstored" =>
        /\ s.slot = "offer" /\ s.at = i - 1
        /\ \A j \in DOMAIN s.nest : j > i => s.nest[j].what = "note"

(* The countdown is stopped by the code's display and by nothing else.       *)
CodeStopsTimer(s) == s.slot = "offer" => s.timer = "off"
TimerRuns(s) == s.key /\ s.minutes = "some" /\ s.slot # "offer" => s.timer = "on"

(* A picker that has its dialog still has the export's.                      *)
PickersExport(s) ==
    \A i \in DOMAIN s.nest : s.nest[i].what = "picker" /\ s.nest[i].own => s.slot = "export"

WInv(s) == /\ s.at <= Len(s.nest) /\ ~s.failed /\ PickersExport(s)
           /\ UnlockedHasKey(s) /\ LockedShowsNothing(s) /\ KeyWithheld(s)
           /\ NewMasterIsLast(s) /\ KeepWaits(s) /\ CodeStopsTimer(s) /\ TimerRuns(s)

(* Installer.apply runs in an unlocked window, on flushed bytes.             *)
ApplyIsUnlocked == proc = "up" /\ disk.step # "idle" => w.unlocked
SwapIsFlushed == proc = "up" /\ disk.step = "swapped" => disk.flushed

IInv == TypeOK /\ WInv(w) /\ ApplyIsUnlocked /\ SwapIsFlushed /\ UpdateIsClean

(* What lets the slot's dialog be replaced: no handler of a refused Keep is  *)
(* waiting, and no new master password is being asked for.                   *)
NoKeepWaits(s) == \A i \in DOMAIN s.nest : s.nest[i].what # "unstored"
Settled(s) == /\ ~s.failed /\ NoKeepWaits(s)
              /\ (s.unlocked <=> s.key) /\ (~s.unlocked => s.live = "none")
Counting(s) == s.key /\ s.minutes = "some" => s.timer = "on"

-----------------------------------------------------------------------------
(* Types.                                                                    *)

(* The bounds are numbers.                                                   *)
LEMMA Bounds == MaxNest \in Nat /\ MaxDownloads \in Nat
BY MaxNestAssumption, MaxDownloadsAssumption

(* A stack of frames is a short enough sequence.                             *)
LEMMA Stack ==
    ASSUME NEW q PROVE q \in Frames <=> \E m \in 0..MaxNest : q \in [1..m -> Frame]
BY DEF Frames, BoundedSeq, SeqOf
(* So a stack has a length, and a frame at every place up to it.             *)
LEMMA StackIsSeq ==
    ASSUME NEW q \in Frames
    PROVE  /\ Len(q) \in 0..MaxNest /\ DOMAIN q = 1..Len(q)
           /\ q \in [1..Len(q) -> Frame] /\ q \in Seq(Frame)
<1>1. PICK m \in 0..MaxNest : q \in [1..m -> Frame] BY Stack
<1>2. m \in Nat BY Bounds
<1>3. q \in Seq(Frame) BY <1>1, <1>2
<1>4. Len(q) = m BY <1>1, <1>2, <1>3
<1> QED BY <1>1, <1>2, <1>3, <1>4

(* Asking pushes a frame, answering pops it.                                 *)
LEMMA Pushed ==
    ASSUME NEW q \in Frames, NEW f \in Frame, Len(q) < MaxNest
    PROVE  /\ Append(q, f) \in Frames
           /\ Len(Append(q, f)) = Len(q) + 1
           /\ \A i \in 1..Len(q) : Append(q, f)[i] = q[i]
           /\ Append(q, f)[Len(q) + 1] = f
<1>1. q \in Seq(Frame) /\ Len(q) \in 0..MaxNest BY StackIsSeq
<1>2. Append(q, f) \in Seq(Frame) /\ Len(Append(q, f)) = Len(q) + 1
    BY <1>1, AppendProperties
<1>3. Append(q, f) \in [1..(Len(q) + 1) -> Frame] BY <1>2, LenProperties
<1>4. Len(q) + 1 \in 0..MaxNest BY <1>1, Bounds
<1>5. Append(q, f) \in Frames BY <1>3, <1>4, Stack
<1>6. /\ \A i \in 1..Len(q) : Append(q, f)[i] = q[i]
      /\ Append(q, f)[Len(q) + 1] = f
    BY <1>1, AppendProperties
<1> QED BY <1>2, <1>5, <1>6
(* Answering drops the innermost frame and leaves the others.                *)
LEMMA Popped ==
    ASSUME NEW q \in Frames, q # <<>>
    PROVE  /\ Front(q) \in Frames
           /\ Len(q) > 0 /\ Len(Front(q)) = Len(q) - 1
           /\ \A i \in 1..(Len(q) - 1) : Front(q)[i] = q[i]
           /\ Last(q) = q[Len(q)]
<1>1. q \in Seq(Frame) /\ Len(q) \in 0..MaxNest /\ q \in [1..Len(q) -> Frame] BY StackIsSeq
<1>2. Len(q) > 0 BY <1>1, EmptySeq
<1>3. /\ Front(q) \in Seq(Frame) /\ Len(Front(q)) = Len(q) - 1
      /\ \A i \in 1..(Len(q) - 1) : Front(q)[i] = q[i]
  <2>1. \A i \in 1..(Len(q) - 1) : q[i] \in Frame BY <1>1
  <2>2. Len(q) - 1 \in Int /\ 1 \in Int BY <1>1
  <2>3. /\ SubSeq(q, 1, Len(q) - 1) \in Seq(Frame)
        /\ Len(SubSeq(q, 1, Len(q) - 1)) = IF 1 <= Len(q) - 1 THEN Len(q) - 1 - 1 + 1 ELSE 0
        /\ \A i \in 1..(Len(q) - 1 - 1 + 1) : SubSeq(q, 1, Len(q) - 1)[i] = q[1 + i - 1]
      BY <2>1, <2>2, SubSeqProperties
  <2> QED BY <1>1, <1>2, <2>3 DEF Front
<1>4. Front(q) \in [1..(Len(q) - 1) -> Frame] BY <1>3, LenProperties
<1>5. Len(q) - 1 \in 0..MaxNest BY <1>1, <1>2, Bounds
<1> QED BY <1>2, <1>3, <1>4, <1>5, Stack DEF Last

(* Losing their dialog changes nothing else of the waiting handlers.         *)
Disowned(q) == [i \in DOMAIN q |-> [q[i] EXCEPT !.own = FALSE]]
(* It is a stack still, of the same questions, none with its dialog.         *)
LEMMA DisownedTyped ==
    ASSUME NEW q \in Frames
    PROVE  /\ Disowned(q) \in Frames /\ Len(Disowned(q)) = Len(q)
           /\ \A i \in 1..Len(q) : Disowned(q)[i].what = q[i].what /\ ~Disowned(q)[i].own
<1>1. Len(q) \in 0..MaxNest /\ DOMAIN q = 1..Len(q) /\ q \in [1..Len(q) -> Frame]
    BY StackIsSeq
<1>2. Disowned(q) \in [1..Len(q) -> Frame] BY <1>1 DEF Disowned, Frame
<1>3. Disowned(q) \in Frames BY <1>1, <1>2, Stack
<1>4. Len(Disowned(q)) = Len(q) BY <1>1, <1>2, <1>3, StackIsSeq
<1>5. \A i \in 1..Len(q) : Disowned(q)[i].what = q[i].what /\ ~Disowned(q)[i].own
    BY <1>1 DEF Disowned, Frame
<1> QED BY <1>3, <1>4, <1>5

(* A field of the window may be replaced by a value of its type.             *)
LEMMA Fields ==
    ASSUME NEW s \in Window
    PROVE  /\ s.key \in BOOLEAN /\ s.unlocked \in BOOLEAN /\ s.minutes \in {"some", "never"}
           /\ s.timer \in {"off", "on"} /\ s.live \in {"none", "workspace", "wizard"}
           /\ s.slot \in Dialogs \cup {"none"} /\ s.at \in 0..MaxNest /\ s.nest \in Frames
           /\ s.code \in BOOLEAN /\ s.regen \in BOOLEAN /\ s.notice \in BOOLEAN
           /\ s.failed \in BOOLEAN /\ s.asked \in BOOLEAN /\ s.pending \in BOOLEAN
           /\ s.manual \in {"idle", "running"}
BY DEF Window
(* _teardown_dialog and its like assign one field after another.             *)
LEMMA Setters ==
    ASSUME NEW s \in Window
    PROVE  /\ \A x \in BOOLEAN : /\ [s EXCEPT !.key = x] \in Window
                                 /\ [s EXCEPT !.unlocked = x] \in Window
                                 /\ [s EXCEPT !.suspended = x] \in Window
                                 /\ [s EXCEPT !.code = x] \in Window
                                 /\ [s EXCEPT !.regen = x] \in Window
                                 /\ [s EXCEPT !.notice = x] \in Window
                                 /\ [s EXCEPT !.failed = x] \in Window
                                 /\ [s EXCEPT !.asked = x] \in Window
                                 /\ [s EXCEPT !.pending = x] \in Window
           /\ \A x \in {"some", "never"} : [s EXCEPT !.minutes = x] \in Window
           /\ \A x \in {"off", "on"} : [s EXCEPT !.timer = x] \in Window
           /\ \A x \in {"none", "workspace", "wizard"} : [s EXCEPT !.live = x] \in Window
           /\ \A x \in Dialogs \cup {"none"} : [s EXCEPT !.slot = x] \in Window
           /\ \A x \in 0..MaxNest : [s EXCEPT !.at = x] \in Window
           /\ \A x \in 0..MaxDownloads : /\ [s EXCEPT !.busy = x] \in Window
                                         /\ [s EXCEPT !.tracked = x] \in Window
           /\ \A x \in Frames : [s EXCEPT !.nest = x] \in Window
           /\ \A x \in {"armed", "running", "done"} : [s EXCEPT !.launch = x] \in Window
           /\ \A x \in {"idle", "running"} : [s EXCEPT !.manual = x] \in Window
<1>1. \A x \in BOOLEAN : /\ [s EXCEPT !.key = x] \in Window
                         /\ [s EXCEPT !.unlocked = x] \in Window
                         /\ [s EXCEPT !.suspended = x] \in Window
    BY DEF Window
<1>2. \A x \in BOOLEAN : /\ [s EXCEPT !.code = x] \in Window
                         /\ [s EXCEPT !.regen = x] \in Window
                         /\ [s EXCEPT !.notice = x] \in Window
    BY DEF Window
<1>3. \A x \in BOOLEAN : /\ [s EXCEPT !.failed = x] \in Window
                         /\ [s EXCEPT !.asked = x] \in Window
                         /\ [s EXCEPT !.pending = x] \in Window
    BY DEF Window
<1>4. \A x \in {"some", "never"} : [s EXCEPT !.minutes = x] \in Window BY DEF Window
<1>5. \A x \in {"off", "on"} : [s EXCEPT !.timer = x] \in Window BY DEF Window
<1>6. \A x \in {"none", "workspace", "wizard"} : [s EXCEPT !.live = x] \in Window BY DEF Window
<1>7. \A x \in Dialogs \cup {"none"} : [s EXCEPT !.slot = x] \in Window BY DEF Window
<1>8. \A x \in 0..MaxNest : [s EXCEPT !.at = x] \in Window BY DEF Window
<1>9. \A x \in 0..MaxDownloads : /\ [s EXCEPT !.busy = x] \in Window
                                 /\ [s EXCEPT !.tracked = x] \in Window
    BY DEF Window
<1>10. \A x \in Frames : [s EXCEPT !.nest = x] \in Window BY DEF Window
<1>11. \A x \in {"armed", "running", "done"} : [s EXCEPT !.launch = x] \in Window BY DEF Window
<1>12. \A x \in {"idle", "running"} : [s EXCEPT !.manual = x] \in Window BY DEF Window
<1> QED BY <1>1, <1>2, <1>3, <1>4, <1>5, <1>6, <1>7, <1>8, <1>9, <1>10, <1>11, <1>12

-----------------------------------------------------------------------------
(* The functions handlers are composed of.                                   *)

(* _teardown_dialog frees the slot and disowns every waiting handler.        *)
LEMMA Teardown ==
    ASSUME NEW s \in Window
    PROVE  LET t == teardown_dialog(s) IN
           /\ t \in Window
           /\ t.slot = "none" /\ t.at = 0
           /\ t.key = s.key /\ t.unlocked = s.unlocked /\ t.minutes = s.minutes
           /\ t.timer = s.timer /\ t.live = s.live /\ t.failed = s.failed
           /\ t.nest = Disowned(s.nest)
<1>1. PICK n \in Frames : n = Disowned(s.nest) BY Fields, DisownedTyped
<1>2. PICK t : t = [s EXCEPT !.slot = "none", !.at = 0, !.busy = 0, !.nest = n] OBVIOUS
<1>3. t = teardown_dialog(s) BY <1>1, <1>2 DEF teardown_dialog, Disowned
<1>4. "none" \in Dialogs \cup {"none"} /\ 0 \in 0..MaxNest /\ 0 \in 0..MaxDownloads BY Bounds
<1>5. t \in Window BY <1>2, <1>4, Setters, Zenon
<1>6. /\ t.slot = "none" /\ t.at = 0 /\ t.nest = n
      /\ t.key = s.key /\ t.unlocked = s.unlocked /\ t.minutes = s.minutes
      /\ t.timer = s.timer /\ t.live = s.live /\ t.failed = s.failed
    BY <1>2 DEF Window
<1> QED BY <1>1, <1>3, <1>5, <1>6

(* _open_dialog does the same, then shows its dialog over what is waiting.   *)
LEMMA Opened ==
    ASSUME NEW s \in Window, NEW kind \in Dialogs
    PROVE  LET t == open_dialog(s, kind) IN
           /\ t \in Window
           /\ t.slot = kind /\ t.at = Len(s.nest)
           /\ t.key = s.key /\ t.unlocked = s.unlocked /\ t.minutes = s.minutes
           /\ t.timer = s.timer /\ t.live = s.live /\ t.failed = s.failed
           /\ t.nest = Disowned(s.nest)
<1>1. PICK f \in Window : f = teardown_dialog(s) BY Teardown
<1>2. PICK n \in 0..MaxNest : n = Len(s.nest) BY Fields, StackIsSeq
<1>3. PICK t : t = [f EXCEPT !.slot = kind, !.at = n] OBVIOUS
<1>4. t = open_dialog(s, kind) BY <1>1, <1>2, <1>3 DEF open_dialog
<1>5. t \in Window BY <1>3, Setters, Zenon
<1>6. /\ t.slot = kind /\ t.at = n /\ t.nest = f.nest
      /\ t.key = f.key /\ t.unlocked = f.unlocked /\ t.minutes = f.minutes
      /\ t.timer = f.timer /\ t.live = f.live /\ t.failed = f.failed
    BY <1>3 DEF Window
<1> QED BY <1>1, <1>2, <1>4, <1>5, <1>6, Teardown

(* The invariant reads nine fields of the window.                           *)
SameCore(s, t) ==
    /\ t.key = s.key /\ t.unlocked = s.unlocked /\ t.minutes = s.minutes
    /\ t.timer = s.timer /\ t.live = s.live /\ t.slot = s.slot /\ t.at = s.at /\ t.nest = s.nest
    /\ t.failed = s.failed
(* A change of any other field keeps it.                                     *)
LEMMA CoreDecides ==
    ASSUME NEW s, NEW t, SameCore(s, t)
    PROVE  /\ WInv(s) => WInv(t)
           /\ Settled(s) => Settled(t)
           /\ Counting(s) => Counting(t)
           /\ NoKeepWaits(s) => NoKeepWaits(t)
BY DEF SameCore, WInv, UnlockedHasKey, LockedShowsNothing, KeyWithheld, NewMasterIsLast, KeepWaits,
       CodeStopsTimer, PickersExport, TimerRuns, OnlyNotesAbove, Settled, Counting, NoKeepWaits

(* Unless a code is displayed or a new master password asked for, the slot   *)
(* is free to be replaced.                                                   *)
LEMMA Settles ==
    ASSUME NEW s \in Window, WInv(s)
    PROVE  /\ s.slot # "newmaster" => (s.unlocked <=> s.key)
           /\ ~s.unlocked => s.live = "none"
           /\ s.slot # "offer" => NoKeepWaits(s) /\ Counting(s)
           /\ s.slot \notin {"offer", "newmaster"} => Settled(s)
BY Fields DEF WInv, UnlockedHasKey, LockedShowsNothing, KeyWithheld, KeepWaits, TimerRuns,
              Settled, Counting, NoKeepWaits

(* Disowned handlers wait for what they waited for.                          *)
LEMMA StillWaits ==
    ASSUME NEW s \in Window, NEW t \in Window, t.nest = Disowned(s.nest)
    PROVE  /\ Len(t.nest) = Len(s.nest) /\ (NoKeepWaits(s) => NoKeepWaits(t))
           /\ PickersExport(t)
<1>1. s.nest \in Frames /\ t.nest \in Frames BY Fields
<1>2. DOMAIN s.nest = 1..Len(s.nest) /\ DOMAIN t.nest = 1..Len(t.nest) BY <1>1, StackIsSeq
<1> QED BY <1>1, <1>2, DisownedTyped DEF NoKeepWaits, PickersExport

(* Freeing the slot of a settled window.                                     *)
LEMMA Freed ==
    ASSUME NEW s \in Window, Settled(s), Counting(s)
    PROVE  WInv(teardown_dialog(s))
<1>1. PICK t \in Window : t = teardown_dialog(s) BY Teardown
<1>2. /\ t.slot = "none" /\ t.at = 0 /\ t.nest = Disowned(s.nest)
      /\ t.key = s.key /\ t.unlocked = s.unlocked /\ t.minutes = s.minutes
      /\ t.timer = s.timer /\ t.live = s.live /\ t.failed = s.failed
    BY <1>1, Teardown
<1>3. NoKeepWaits(t) /\ PickersExport(t) BY <1>2, StillWaits DEF Settled
<1>4. t.at <= Len(t.nest) BY <1>2, Fields, StackIsSeq
<1> QED BY <1>1, <1>2, <1>3, <1>4
        DEF WInv, UnlockedHasKey, LockedShowsNothing, KeyWithheld, NewMasterIsLast, KeepWaits,
            CodeStopsTimer, PickersExport, TimerRuns, Settled, Counting, NoKeepWaits, Plain

(* Showing another dialog in it, which locked may only be a pre-login one.   *)
LEMMA Replaced ==
    ASSUME NEW s \in Window, Settled(s), Counting(s),
           NEW kind \in Dialogs \ {"offer", "newmaster"}, s.unlocked \/ kind \in PreLogin
    PROVE  WInv(open_dialog(s, kind))
<1>1. PICK t \in Window : t = open_dialog(s, kind) BY Opened
<1>2. /\ t.slot = kind /\ t.at = Len(s.nest) /\ t.nest = Disowned(s.nest)
      /\ t.key = s.key /\ t.unlocked = s.unlocked /\ t.minutes = s.minutes
      /\ t.timer = s.timer /\ t.live = s.live /\ t.failed = s.failed
    BY <1>1, Opened
<1>3. NoKeepWaits(t) /\ PickersExport(t) /\ Len(t.nest) = Len(s.nest)
    BY <1>2, StillWaits DEF Settled
<1>4. t.at <= Len(t.nest) BY <1>2, <1>3, Fields, StackIsSeq
<1> QED BY <1>1, <1>2, <1>3, <1>4
        DEF WInv, UnlockedHasKey, LockedShowsNothing, KeyWithheld, NewMasterIsLast, KeepWaits,
            CodeStopsTimer, PickersExport, TimerRuns, Settled, Counting, NoKeepWaits, Plain, PreLogin

(* The code's display stops the countdown.                                   *)
LEMMA CodeShown ==
    ASSUME NEW s \in Window, Settled(s)
    PROVE  LET t == show_code(s) IN
           t \in Window /\ WInv(t) /\ t.unlocked = s.unlocked /\ Len(t.nest) = Len(s.nest)
<1>1. PICK f : f = [s EXCEPT !.suspended = TRUE, !.timer = "off"] OBVIOUS
<1>2. f \in Window
  <2>1. TRUE \in BOOLEAN /\ "off" \in {"off", "on"} OBVIOUS
  <2> QED BY <1>1, <2>1, Setters, Zenon
<1>3. /\ f.key = s.key /\ f.unlocked = s.unlocked /\ f.live = s.live /\ f.failed = s.failed
      /\ f.nest = s.nest /\ f.timer = "off"
    BY <1>1 DEF Window
<1>4. show_code(s) = open_dialog(f, "offer") BY <1>1 DEF show_code, suspend_idle_lock
<1>5. "offer" \in Dialogs BY DEF Dialogs
<1>6. PICK t \in Window : t = open_dialog(f, "offer") BY <1>2, <1>5, Opened
<1>7. /\ t.slot = "offer" /\ t.at = Len(f.nest) /\ t.nest = Disowned(f.nest)
      /\ t.key = s.key /\ t.unlocked = s.unlocked /\ t.timer = "off" /\ t.live = s.live
      /\ t.failed = s.failed
    BY <1>2, <1>3, <1>5, <1>6, Opened
<1>8. NoKeepWaits(f) BY <1>3 DEF Settled, NoKeepWaits
<1>9. NoKeepWaits(t) /\ PickersExport(t) /\ Len(t.nest) = Len(f.nest)
    BY <1>2, <1>7, <1>8, StillWaits
<1>10. t.at <= Len(t.nest) BY <1>2, <1>7, <1>9, Fields, StackIsSeq
<1>11. WInv(t)
    BY <1>7, <1>9, <1>10
       DEF WInv, UnlockedHasKey, LockedShowsNothing, KeyWithheld, NewMasterIsLast, KeepWaits,
           CodeStopsTimer, PickersExport, TimerRuns, Settled, NoKeepWaits, Plain
<1> QED BY <1>3, <1>4, <1>6, <1>7, <1>9, <1>11

(* lock: whatever was open, the unlock dialog alone is left.                 *)
LEMMA Locked ==
    ASSUME NEW s \in Window, NoKeepWaits(s), ~s.failed
    PROVE  LET t == lock(s) IN
           t \in Window /\ WInv(t) /\ Len(t.nest) = Len(s.nest)
<1>1. PICK u : u = [s EXCEPT !.unlocked = FALSE] OBVIOUS
<1>2. u \in Window BY <1>1, Setters
<1>3. u.nest = s.nest /\ u.unlocked = FALSE /\ u.failed = s.failed BY <1>1 DEF Window
<1>4. PICK f \in Window : f = teardown_dialog(u) BY <1>2, Teardown
<1>5. f.nest = Disowned(u.nest) /\ f.unlocked = FALSE /\ f.failed = s.failed
    BY <1>2, <1>3, <1>4, Teardown
<1>6. NoKeepWaits(u) BY <1>3 DEF NoKeepWaits
<1>7. NoKeepWaits(f) /\ Len(f.nest) = Len(s.nest) BY <1>2, <1>3, <1>5, <1>6, StillWaits
<1>8. PICK c : c = [[f EXCEPT !.key = FALSE, !.timer = "off"] EXCEPT !.live = "none"] OBVIOUS
<1>9. c \in Window
  <2>1. FALSE \in BOOLEAN /\ "off" \in {"off", "on"} /\ "none" \in {"none", "workspace", "wizard"}
      OBVIOUS
  <2> QED BY <1>8, <2>1, Setters, Zenon
<1>10. c.key = FALSE /\ c.unlocked = FALSE /\ c.live = "none" /\ c.nest = f.nest /\ ~c.failed
    BY <1>5, <1>8 DEF Window
<1>11. NoKeepWaits(c) BY <1>7, <1>10 DEF NoKeepWaits
<1>12. Settled(c) /\ Counting(c) BY <1>10, <1>11 DEF Settled, Counting
<1>13. lock(s) = open_dialog(c, "unlock")
    BY <1>1, <1>4, <1>8 DEF lock, service_lock, clear_live
<1>14. "unlock" \in Dialogs \ {"offer", "newmaster"} /\ "unlock" \in PreLogin
    BY DEF Dialogs, PreLogin
<1>15. lock(s) \in Window /\ lock(s).nest = Disowned(c.nest) BY <1>9, <1>13, <1>14, Opened
<1>16. WInv(lock(s)) BY <1>9, <1>12, <1>13, <1>14, Replaced
<1>17. Len(lock(s).nest) = Len(c.nest) BY <1>9, <1>15, StillWaits
<1> QED BY <1>7, <1>10, <1>15, <1>16, <1>17

(* A found update waits for an unlocked window and a free slot.              *)
LEMMA UpdateShown ==
    ASSUME NEW s \in Window, WInv(s)
    PROVE  LET t == maybe_show_pending_offer(s) IN
           t \in Window /\ WInv(t) /\ t.unlocked = s.unlocked /\ Len(t.nest) = Len(s.nest)
<1>1. CASE ~(s.pending /\ s.unlocked /\ s.slot = "none")
    BY <1>1, Zenon DEF maybe_show_pending_offer
<1>2. CASE s.pending /\ s.unlocked /\ s.slot = "none"
  <2>1. PICK f : f = [s EXCEPT !.pending = FALSE] OBVIOUS
  <2>2. f \in Window BY <2>1, Setters
  <2>3. SameCore(s, f) BY <2>1 DEF SameCore, Window
  <2>4. Settled(f) /\ Counting(f) BY <1>2, <2>3, Settles, CoreDecides
  <2>5. "update" \in Dialogs \ {"offer", "newmaster"} BY DEF Dialogs, PreLogin, Plain
  <2>6. maybe_show_pending_offer(s) = open_dialog(f, "update")
      BY <1>2, <2>1 DEF maybe_show_pending_offer
  <2>7. f.unlocked BY <1>2, <2>3 DEF SameCore
  <2>8. WInv(open_dialog(f, "update")) BY <2>2, <2>4, <2>5, <2>7, Replaced
  <2>9. PICK t \in Window : /\ t = open_dialog(f, "update")
                            /\ t.nest = Disowned(f.nest) /\ t.unlocked = f.unlocked
      BY <2>2, <2>5, Opened
  <2>10. Len(t.nest) = Len(f.nest) BY <2>2, <2>9, StillWaits
  <2> QED BY <2>3, <2>6, <2>8, <2>9, <2>10 DEF SameCore
<1> QED BY <1>1, <1>2

(* The end of _enter_unlocked, also when the vault locked before it.         *)
LEMMA RestEntered ==
    ASSUME NEW s \in Window, WInv(s), NoKeepWaits(s), s.slot # "newmaster"
    PROVE  LET t == enter_unlocked_rest(s) IN
           t \in Window /\ WInv(t) /\ t.unlocked = s.unlocked /\ Len(t.nest) = Len(s.nest)
<1>1. PICK n \in BOOLEAN : n = IF s.code THEN s.notice ELSE FALSE
  <2>1. s.code \in BOOLEAN /\ s.notice \in BOOLEAN BY Fields
  <2> QED BY <2>1, Zenon
<1>2. PICK r : r = [s EXCEPT !.code = FALSE, !.regen = FALSE, !.notice = n] OBVIOUS
<1>3. r \in Window
  <2>1. FALSE \in BOOLEAN OBVIOUS
  <2> QED BY <1>2, <2>1, Setters, Zenon
<1>4. SameCore(s, r) BY <1>2 DEF SameCore, Window
<1>5. WInv(r) BY <1>4, CoreDecides
<1>6. Settled(s)
  <2>1. ~s.failed /\ (s.unlocked <=> s.key) /\ (~s.unlocked => s.live = "none")
      BY Settles DEF WInv
  <2> QED BY <2>1, Zenon DEF Settled
<1>7. Settled(r) BY <1>4, <1>6, CoreDecides
<1>8. enter_unlocked_rest(s) = IF s.code \/ s.notice \/ s.regen THEN show_code(r)
                               ELSE maybe_show_pending_offer(r)
    BY <1>1, <1>2 DEF enter_unlocked_rest
<1>9. r.unlocked = s.unlocked /\ r.nest = s.nest BY <1>4 DEF SameCore
<1>10. LET t == show_code(r) IN
       t \in Window /\ WInv(t) /\ t.unlocked = s.unlocked /\ Len(t.nest) = Len(s.nest)
    BY <1>3, <1>7, <1>9, CodeShown
<1>11. LET t == maybe_show_pending_offer(r) IN
       t \in Window /\ WInv(t) /\ t.unlocked = s.unlocked /\ Len(t.nest) = Len(s.nest)
    BY <1>3, <1>5, <1>9, UpdateShown
<1> QED BY <1>8, <1>10, <1>11, Zenon

(* _enter_unlocked, of a window whose key is there and whose timer is right. *)
LEMMA Entered ==
    ASSUME NEW s \in Window, s.key, NoKeepWaits(s), Counting(s),
           s.failed => Len(s.nest) < MaxNest
    PROVE  LET t == enter_unlocked(s) IN t \in Window /\ WInv(t) /\ t.unlocked
<1>1. PICK u : u = [s EXCEPT !.unlocked = TRUE] OBVIOUS
<1>2. u \in Window BY <1>1, Setters
<1>3. /\ u.nest = s.nest /\ u.unlocked = TRUE /\ u.key = s.key /\ u.failed = s.failed
      /\ u.minutes = s.minutes /\ u.timer = s.timer
    BY <1>1 DEF Window
<1>4. PICK f \in Window : f = teardown_dialog(u) BY <1>2, Teardown
<1>5. /\ f.nest = Disowned(u.nest) /\ f.unlocked = TRUE /\ f.slot = "none" /\ f.at = 0
      /\ f.key = s.key /\ f.failed = s.failed /\ f.minutes = s.minutes /\ f.timer = s.timer
    BY <1>2, <1>3, <1>4, Teardown
<1>6. NoKeepWaits(u) BY <1>3 DEF NoKeepWaits
<1>7. NoKeepWaits(f) /\ PickersExport(f) /\ Len(f.nest) = Len(s.nest)
    BY <1>2, <1>3, <1>5, <1>6, StillWaits
<1>8. PICK b : b = [f EXCEPT !.live = "workspace"] OBVIOUS
<1>9. b \in Window BY <1>8, Setters
<1>10. /\ b.nest = f.nest /\ b.unlocked = TRUE /\ b.slot = "none" /\ b.at = 0
       /\ b.key = s.key /\ b.failed = s.failed /\ b.minutes = s.minutes /\ b.timer = s.timer
    BY <1>5, <1>8 DEF Window
<1>11. NoKeepWaits(b) /\ \A i \in DOMAIN b.nest : ~(b.nest[i].what = "picker" /\ b.nest[i].own)
    BY <1>5, <1>7, <1>10 DEF NoKeepWaits, PickersExport
<1>12. Len(b.nest) \in 0..MaxNest BY <1>9, Fields, StackIsSeq
<1>13. ASSUME ~s.failed PROVE WInv(b)
    BY <1>13, <1>10, <1>11, <1>12
       DEF WInv, UnlockedHasKey, LockedShowsNothing, KeyWithheld, NewMasterIsLast, KeepWaits,
           CodeStopsTimer, PickersExport, TimerRuns, NoKeepWaits, Counting
<1>14. CASE ~s.failed
  <2>1. enter_unlocked(s) = enter_unlocked_rest(b)
      BY <1>1, <1>4, <1>8, <1>14, Zenon DEF enter_unlocked, build_workspace
  <2> QED BY <2>1, <1>9, <1>10, <1>11, <1>13, <1>14, RestEntered
<1>15. CASE s.failed
  <2>1. PICK q \in Frames : q = Append(b.nest, [what |-> "upgrade", own |-> TRUE])
    <3>1. [what |-> "upgrade", own |-> TRUE] \in Frame BY DEF Frame, Questions
    <3>2. b.nest \in Frames BY <1>9, Fields
    <3>3. Len(b.nest) < MaxNest BY <1>7, <1>10, <1>15
    <3> QED BY <3>1, <3>2, <3>3, Pushed
  <2>2. PICK t : t = [[b EXCEPT !.failed = FALSE] EXCEPT !.nest = q] OBVIOUS
  <2>3. t = enter_unlocked(s)
    <3>1. [b EXCEPT !.failed = FALSE].nest = b.nest BY <1>9 DEF Window
    <3>2. enter_unlocked(s) = Ask([b EXCEPT !.failed = FALSE], "upgrade")
      BY <1>1, <1>4, <1>8, <1>15 DEF enter_unlocked, build_workspace
    <3>3. Ask([b EXCEPT !.failed = FALSE], "upgrade") = t BY <2>1, <2>2, <3>1 DEF Ask
    <3> QED BY <3>2, <3>3
  <2>4. t \in Window
    <3>1. FALSE \in BOOLEAN OBVIOUS
    <3> QED BY <1>9, <2>2, <3>1, Setters, Zenon
  <2>5. /\ t.nest = q /\ t.unlocked = TRUE /\ t.slot = "none" /\ t.at = 0 /\ t.failed = FALSE
        /\ t.key = b.key /\ t.minutes = b.minutes /\ t.timer = b.timer
      BY <1>9, <1>10, <2>2 DEF Window
  <2>6. /\ DOMAIN b.nest = 1..Len(b.nest) /\ DOMAIN q = 1..Len(q) /\ Len(q) = Len(b.nest) + 1
        /\ \A i \in 1..Len(b.nest) : q[i] = b.nest[i]
        /\ q[Len(b.nest) + 1].what = "upgrade"
    <3>1. [what |-> "upgrade", own |-> TRUE] \in Frame BY DEF Frame, Questions
    <3> QED BY <1>7, <1>9, <1>10, <1>15, <2>1, <3>1, Fields, Pushed, StackIsSeq
  <2>7. NoKeepWaits(t) BY <1>11, <1>12, <2>5, <2>6 DEF NoKeepWaits
  <2>8. PickersExport(t) BY <1>11, <1>12, <2>5, <2>6 DEF PickersExport
  <2>9. WInv(t)
      BY <1>10, <1>12, <2>5, <2>6, <2>7, <2>8
         DEF WInv, UnlockedHasKey, LockedShowsNothing, KeyWithheld, NewMasterIsLast, KeepWaits,
             CodeStopsTimer, TimerRuns, NoKeepWaits, Counting
  <2> QED BY <2>3, <2>4, <2>5, <2>9, Zenon
<1> QED BY <1>14, <1>15, Zenon

(* Asking: a notice may be raised over anything; the questions are asked     *)
(* where their dialogs are.                                                  *)
Askable(s, what) ==
    what # "note" => /\ NoKeepWaits(s) /\ s.slot # "newmaster"
                     /\ what = "unstored" => s.slot = "offer" /\ s.at = Len(s.nest)
                     /\ what = "picker" => s.slot = "export"
(* Whatever may be asked keeps the invariant.                                *)
LEMMA Asked ==
    ASSUME NEW s \in Window, WInv(s), NEW what \in Questions, Askable(s, what),
           Len(s.nest) < MaxNest
    PROVE  LET t == Ask(s, what) IN
           t \in Window /\ WInv(t) /\ t.unlocked = s.unlocked
<1>1. [what |-> what, own |-> TRUE] \in Frame BY DEF Frame
<1>2. s.nest \in Frames BY Fields
<1>3. PICK q \in Frames : q = Append(s.nest, [what |-> what, own |-> TRUE])
    BY <1>1, <1>2, Pushed
<1>4. /\ DOMAIN s.nest = 1..Len(s.nest) /\ DOMAIN q = 1..Len(q) /\ Len(q) = Len(s.nest) + 1
      /\ \A i \in 1..Len(s.nest) : q[i] = s.nest[i]
      /\ q[Len(s.nest) + 1].what = what
    BY <1>1, <1>2, <1>3, Pushed, StackIsSeq
<1>5. PICK t : t = [s EXCEPT !.nest = q] OBVIOUS
<1>6. t = Ask(s, what) BY <1>3, <1>5 DEF Ask
<1>7. t \in Window BY <1>5, Setters
<1>8. /\ t.key = s.key /\ t.unlocked = s.unlocked /\ t.minutes = s.minutes
      /\ t.timer = s.timer /\ t.live = s.live /\ t.slot = s.slot /\ t.at = s.at
      /\ t.nest = q /\ t.failed = s.failed
    BY <1>5 DEF Window
<1>9. s.at \in Nat /\ Len(s.nest) \in Nat /\ s.at <= Len(s.nest)
    BY <1>2, Bounds, Fields, StackIsSeq DEF WInv
<1>10. KeepWaits(t)
  <2>1. CASE what = "note"
    <3>1. KeepWaits(s) BY DEF WInv
    <3> SUFFICES ASSUME NEW i \in DOMAIN t.nest, t.nest[i].what = "unstored"
                 PROVE  /\ t.slot = "offer" /\ t.at = i - 1
                        /\ \A j \in DOMAIN t.nest : j > i => t.nest[j].what = "note"
      BY DEF KeepWaits
    <3>2. i \in 1..Len(s.nest) /\ s.nest[i].what = "unstored" BY <1>4, <1>8, <1>9, <2>1
    <3>3. /\ s.slot = "offer" /\ s.at = i - 1
          /\ \A j \in 1..Len(s.nest) : j > i => s.nest[j].what = "note"
      BY <1>4, <3>1, <3>2 DEF KeepWaits
    <3>4. \A j \in DOMAIN t.nest : j > i => t.nest[j].what = "note"
      BY <1>4, <1>8, <1>9, <2>1, <3>3
    <3> QED BY <1>8, <3>3, <3>4
  <2>2. CASE what = "unstored"
      BY <1>4, <1>8, <1>9, <2>2 DEF KeepWaits, Askable, NoKeepWaits
  <2>3. CASE what \notin {"note", "unstored"}
      BY <1>4, <1>8, <1>9, <2>3 DEF KeepWaits, Askable, NoKeepWaits
  <2> QED BY <2>1, <2>2, <2>3
<1>11. NewMasterIsLast(t)
    BY <1>4, <1>8, <1>9 DEF WInv, NewMasterIsLast, OnlyNotesAbove, Askable
<1>12. PickersExport(t)
    BY <1>4, <1>8, <1>9 DEF WInv, PickersExport, Askable
<1>13. WInv(t)
    BY <1>4, <1>8, <1>9, <1>10, <1>11, <1>12
       DEF WInv, UnlockedHasKey, LockedShowsNothing, KeyWithheld, CodeStopsTimer, TimerRuns
<1> QED BY <1>6, <1>7, <1>8, <1>13

(* Answering the innermost question, which is not that of a refused Keep.    *)
Unasked(s, t) ==
    /\ t \in Window /\ Len(s.nest) > 0 /\ Len(t.nest) = Len(s.nest) - 1
    /\ \A i \in 1..Len(t.nest) : t.nest[i] = s.nest[i]
    /\ t.key = s.key /\ t.unlocked = s.unlocked /\ t.minutes = s.minutes
    /\ t.timer = s.timer /\ t.live = s.live /\ t.slot = s.slot /\ t.failed = s.failed
    /\ t.at = IF s.at < Len(s.nest) THEN s.at ELSE Len(s.nest) - 1
(* QDialog.exec returns, and the handler goes on in the loop below.          *)
LEMMA AnsweredIs ==
    ASSUME NEW s \in Window, s.nest # <<>>
    PROVE  Unasked(s, Answered(s))
<1>1. s.nest \in Frames /\ s.at \in 0..MaxNest BY Fields
<1>2. Len(s.nest) \in 0..MaxNest BY <1>1, StackIsSeq
<1>3. PICK q \in Frames : q = Front(s.nest) BY <1>1, Popped
<1>4. /\ Len(s.nest) > 0 /\ Len(q) = Len(s.nest) - 1
      /\ \A i \in 1..Len(q) : q[i] = s.nest[i]
  <2>1. PICK n \in Frames : n = s.nest /\ n # <<>> BY <1>1
  <2>2. /\ Len(n) > 0 /\ Len(Front(n)) = Len(n) - 1
        /\ \A i \in 1..Len(Front(n)) : Front(n)[i] = n[i]
    BY <2>1, Popped
  <2> QED BY <1>3, <2>1, <2>2
<1>5. PICK a \in 0..MaxNest : a = IF s.at < Len(s.nest) THEN s.at ELSE Len(s.nest) - 1
  <2>1. Len(s.nest) - 1 \in 0..MaxNest BY <1>2, <1>4, Bounds
  <2> QED BY <1>1, <2>1
<1>6. PICK t : t = [s EXCEPT !.nest = q, !.at = a] OBVIOUS
<1>7. t = Answered(s) BY <1>3, <1>5, <1>6 DEF Answered
<1>8. t \in Window BY <1>6, Setters, Zenon
<1>9. /\ t.nest = q /\ t.at = a /\ t.key = s.key /\ t.unlocked = s.unlocked
      /\ t.minutes = s.minutes /\ t.timer = s.timer /\ t.live = s.live /\ t.slot = s.slot
      /\ t.failed = s.failed
    BY <1>6 DEF Window
<1>10. Unasked(s, t) BY <1>4, <1>5, <1>8, <1>9 DEF Unasked
<1> QED BY <1>7, <1>10

(* An answered notice, gate or picker keeps the invariant.                   *)
LEMMA AnsweredKeeps ==
    ASSUME NEW s \in Window, WInv(s), s.nest # <<>>, Last(s.nest).what # "unstored",
           NEW t, Unasked(s, t)
    PROVE  WInv(t)
<1>1. s.nest \in Frames /\ t.nest \in Frames /\ s.at \in 0..MaxNest BY Fields DEF Unasked
<1>2. /\ DOMAIN s.nest = 1..Len(s.nest) /\ DOMAIN t.nest = 1..Len(t.nest)
      /\ Len(s.nest) \in Nat /\ s.at \in Nat /\ s.at <= Len(s.nest)
    BY <1>1, Bounds, StackIsSeq DEF WInv
<1>3. s.nest[Len(s.nest)].what # "unstored"
  <2>1. Last(s.nest) = s.nest[Len(s.nest)] BY <1>1, Popped
  <2> QED BY <2>1
<1>4. KeepWaits(t)
  <2>1. SUFFICES ASSUME NEW i \in DOMAIN t.nest, t.nest[i].what = "unstored"
                 PROVE  /\ t.slot = "offer" /\ t.at = i - 1
                        /\ \A j \in DOMAIN t.nest : j > i => t.nest[j].what = "note"
      BY DEF KeepWaits
  <2>2. i \in DOMAIN s.nest /\ s.nest[i].what = "unstored" BY <1>2, <2>1 DEF Unasked
  <2>3. /\ s.slot = "offer" /\ s.at = i - 1
        /\ \A j \in DOMAIN s.nest : j > i => s.nest[j].what = "note"
      BY <2>2 DEF WInv, KeepWaits
  <2>4. Len(t.nest) = Len(s.nest) - 1 /\ i \in 1..Len(t.nest) BY <1>2 DEF Unasked
  <2>5. t.slot = "offer" /\ t.at = i - 1 BY <1>2, <2>3, <2>4 DEF Unasked
  <2>6. ASSUME NEW j \in DOMAIN t.nest, j > i PROVE t.nest[j].what = "note"
    <3>1. j \in DOMAIN s.nest /\ t.nest[j] = s.nest[j] BY <1>2, <2>4 DEF Unasked
    <3> QED BY <2>3, <2>6, <3>1
  <2> QED BY <2>5, <2>6
<1>5. NewMasterIsLast(t) BY <1>2 DEF WInv, NewMasterIsLast, OnlyNotesAbove, Unasked
<1>6. PickersExport(t) BY <1>2 DEF WInv, PickersExport, Unasked
<1>7. t.at <= Len(t.nest) BY <1>2 DEF Unasked
<1> QED BY <1>4, <1>5, <1>6, <1>7
        DEF WInv, Unasked, UnlockedHasKey, LockedShowsNothing, KeyWithheld, CodeStopsTimer, TimerRuns

(* Which handlers can be the innermost beside which dialogs.                 *)
LEMMA Innermost ==
    ASSUME NEW s \in Window, WInv(s), s.nest # <<>>, NEW what \in Questions,
           Last(s.nest).what = what
    PROVE  /\ what \notin {"note", "unstored"} => NoKeepWaits(s)
           /\ what = "unstored" => s.slot = "offer" /\ s.at = Len(s.nest) - 1
           /\ what # "note" /\ s.slot = "newmaster" => s.at = Len(s.nest)
           /\ what = "picker" /\ Last(s.nest).own => s.slot = "export"
<1>1. s.nest \in Frames /\ s.at \in 0..MaxNest BY Fields
<1>2. /\ DOMAIN s.nest = 1..Len(s.nest) /\ Len(s.nest) \in Nat /\ Len(s.nest) > 0
      /\ s.at \in Nat /\ s.at <= Len(s.nest)
    BY <1>1, Bounds, StackIsSeq, Popped DEF WInv
<1>3. Last(s.nest) = s.nest[Len(s.nest)] BY <1>1, Popped
<1>4. what \notin {"note", "unstored"} => NoKeepWaits(s)
    BY <1>2, <1>3 DEF WInv, KeepWaits, NoKeepWaits
<1>5. what = "unstored" => s.slot = "offer" /\ s.at = Len(s.nest) - 1
    BY <1>2, <1>3 DEF WInv, KeepWaits
<1>6. what # "note" /\ s.slot = "newmaster" => s.at = Len(s.nest)
    BY <1>2, <1>3 DEF WInv, NewMasterIsLast, OnlyNotesAbove
<1>7. what = "picker" /\ Last(s.nest).own => s.slot = "export"
    BY <1>2, <1>3 DEF WInv, PickersExport
<1> QED BY <1>4, <1>5, <1>6, <1>7

(* Once the handler of a refused Keep has run, none is waiting.              *)
LEMMA KeepAnswered ==
    ASSUME NEW s \in Window, WInv(s), s.nest # <<>>, Last(s.nest).what = "unstored",
           NEW t, Unasked(s, t)
    PROVE  Settled(t)
<1>1. s.nest \in Frames /\ t.nest \in Frames BY Fields DEF Unasked
<1>2. DOMAIN s.nest = 1..Len(s.nest) /\ DOMAIN t.nest = 1..Len(t.nest) /\ Len(s.nest) \in Nat
    BY <1>1, StackIsSeq
<1>3. s.slot = "offer" /\ s.at = Len(s.nest) - 1
  <2>1. "unstored" \in Questions BY DEF Questions
  <2> QED BY <2>1, Innermost
<1>4. NoKeepWaits(t) BY <1>2, <1>3 DEF WInv, KeepWaits, NoKeepWaits, Unasked
<1>5. (s.unlocked <=> s.key) /\ (~s.unlocked => s.live = "none") BY <1>3, Settles
<1> QED BY <1>4, <1>5 DEF Settled, Unasked, WInv

(* A dialog with nothing waiting above it.                                   *)
LEMMA OnTopSettled ==
    ASSUME NEW s \in Window, WInv(s), s.at = Len(s.nest)
    PROVE  NoKeepWaits(s) /\ (s.slot # "newmaster" => Settled(s))
<1>1. DOMAIN s.nest = 1..Len(s.nest) /\ Len(s.nest) \in Nat BY Fields, StackIsSeq
<1>2. NoKeepWaits(s) BY <1>1 DEF WInv, KeepWaits, NoKeepWaits
<1> QED BY <1>2, Settles DEF Settled, WInv

-----------------------------------------------------------------------------
(* The timer's functions.                                                    *)

(* Arming the timer, which opening the vault does.                           *)
LEMMA Armed ==
    ASSUME NEW s \in Window
    PROVE  LET t == arm_timer(s) IN
           /\ t \in Window /\ Counting(t)
           /\ t.key = s.key /\ t.unlocked = s.unlocked /\ t.live = s.live /\ t.slot = s.slot
           /\ t.at = s.at /\ t.nest = s.nest /\ t.failed = s.failed
           /\ t.minutes = s.minutes
<1>1. PICK on \in {"off", "on"} : on = IF s.minutes = "never" THEN "off" ELSE "on" OBVIOUS
<1>2. PICK t : t = [s EXCEPT !.timer = on] OBVIOUS
<1>3. t = arm_timer(s) BY <1>1, <1>2 DEF arm_timer
<1>4. t \in Window BY <1>2, Setters
<1>5. /\ t.key = s.key /\ t.unlocked = s.unlocked /\ t.live = s.live /\ t.slot = s.slot
      /\ t.at = s.at /\ t.nest = s.nest /\ t.failed = s.failed
      /\ t.minutes = s.minutes /\ t.timer = on
    BY <1>2 DEF Window
<1>6. Counting(t) BY <1>1, <1>5 DEF Counting
<1> QED BY <1>3, <1>4, <1>5, <1>6
(* AuthService holds the key and arms the timer in one go.                   *)
LEMMA OpenedWith ==
    ASSUME NEW s \in Window
    PROVE  LET t == open_with(s) IN
           /\ t \in Window /\ Counting(t) /\ t.key
           /\ t.unlocked = s.unlocked /\ t.live = s.live /\ t.slot = s.slot
           /\ t.at = s.at /\ t.nest = s.nest /\ t.failed = s.failed
<1>1. PICK u : u = [s EXCEPT !.key = TRUE] OBVIOUS
<1>2. u \in Window BY <1>1, Setters
<1>3. /\ u.key = TRUE /\ u.unlocked = s.unlocked /\ u.live = s.live /\ u.slot = s.slot
      /\ u.at = s.at /\ u.nest = s.nest /\ u.failed = s.failed
    BY <1>1 DEF Window
<1>4. open_with(s) = arm_timer(u) BY <1>1 DEF open_with
<1> QED BY <1>2, <1>3, <1>4, Armed
(* `finished': however the display of a code ends, the countdown runs again. *)
LEMMA Finished ==
    ASSUME NEW s \in Window, Settled(s)
    PROVE  LET t == OfferFinished(s) IN
           t \in Window /\ WInv(t) /\ Len(t.nest) = Len(s.nest)
<1>1. PICK u : u = [s EXCEPT !.suspended = FALSE] OBVIOUS
<1>2. u \in Window BY <1>1, Setters
<1>3. /\ u.key = s.key /\ u.unlocked = s.unlocked /\ u.live = s.live
      /\ u.nest = s.nest /\ u.failed = s.failed
    BY <1>1 DEF Window
<1>4. PICK r \in Window : r = IF s.key THEN arm_timer(u) ELSE u BY <1>2, Armed
<1>5. /\ r.key = s.key /\ r.unlocked = s.unlocked /\ r.live = s.live
      /\ r.nest = s.nest /\ r.failed = s.failed
    BY <1>2, <1>3, <1>4, Armed
<1>6. Counting(r) BY <1>2, <1>4, <1>5, Armed DEF Counting
<1>7. Settled(r) BY <1>5 DEF Settled, NoKeepWaits
<1>8. OfferFinished(s) = teardown_dialog(r)
    BY <1>1, <1>4, Zenon DEF OfferFinished, resume_idle_lock
<1>9. PICK t \in Window : t = teardown_dialog(r) /\ t.nest = Disowned(r.nest) BY Teardown
<1>10. Len(t.nest) = Len(s.nest) BY <1>5, <1>9, StillWaits
<1> QED BY <1>6, <1>7, <1>8, <1>9, <1>10, Freed

-----------------------------------------------------------------------------
(* Every handler keeps the window's invariant, and raises nothing over a     *)
(* lock screen.                                                              *)
Calm == w' \in Window /\ WInv(w') /\ LockScreenIsQuiet

(* What the invariant says of the window before a handler runs.              *)
LEMMA Here ==
    ASSUME IInv
    PROVE  /\ w \in Window /\ WInv(w) /\ Len(w.nest) \in 0..MaxNest
           /\ \A kind \in Dialogs : OnTop(kind) => w.slot = kind /\ w.at = Len(w.nest)
           /\ AtWindow => w.slot = "none" /\ w.at = Len(w.nest)
<1>1. w \in Window /\ WInv(w) BY DEF IInv, TypeOK, Window, Frames, Frame
<1>2. Len(w.nest) \in 0..MaxNest /\ w.at \in Nat BY <1>1, Bounds, Fields, StackIsSeq
<1>3. AtWindow => w.slot = "none" /\ w.at = Len(w.nest)
  <2>1. AtWindow => w.slot = "none" /\ Len(w.nest) = 0 BY EmptySeq DEF AtWindow
  <2> QED BY <1>1, <1>2, <2>1 DEF WInv
<1> QED BY <1>1, <1>2, <1>3 DEF OnTop

(* A handler that leaves an unlocked window or asks nothing new is calm.     *)
LEMMA Quiet ==
    ASSUME IInv, w' \in Window, WInv(w'), w'.unlocked \/ Len(w'.nest) <= Len(w.nest)
    PROVE  Calm
<1>1. Len(w.nest) \in 0..MaxNest BY Here
<1>2. Len(w'.nest) \in 0..MaxNest BY Fields, StackIsSeq
<1>3. w'.unlocked \/ ~(Len(w'.nest) > Len(w.nest)) BY <1>1, <1>2, Bounds
<1> QED BY <1>3 DEF Calm, LockScreenIsQuiet

(* Steps that leave what the invariant reads of the window.                  *)
LEMMA SameWindow ==
    ASSUME IInv, w' \in Window, SameCore(w, w')
    PROVE  Calm
<1>1. w \in Window /\ WInv(w) /\ Len(w.nest) \in 0..MaxNest BY Here
<1>2. WInv(w') BY <1>1, CoreDecides
<1>3. Len(w'.nest) <= Len(w.nest) BY <1>1, Bounds DEF SameCore
<1> QED BY <1>2, <1>3, Quiet

(* The slot's dialog is replaced by another, or the slot freed.              *)
LEMMA SlotReplaced ==
    ASSUME IInv, NEW s \in Window, Settled(s), Counting(s), s.nest = w.nest,
           \/ w' = teardown_dialog(s)
           \/ \E kind \in Dialogs \ {"offer", "newmaster"} :
                (s.unlocked \/ kind \in PreLogin) /\ w' = open_dialog(s, kind)
    PROVE  Calm
<1>1. Len(w.nest) \in 0..MaxNest BY Here
<1>2. CASE w' = teardown_dialog(s)
  <2>1. w' \in Window /\ WInv(w') /\ w'.nest = Disowned(s.nest) BY <1>2, Teardown, Freed
  <2>2. Len(w'.nest) = Len(w.nest) BY <2>1, StillWaits
  <2> QED BY <1>1, <2>1, <2>2, Bounds, Quiet
<1>3. ASSUME NEW kind \in Dialogs \ {"offer", "newmaster"}, s.unlocked \/ kind \in PreLogin,
             w' = open_dialog(s, kind)
      PROVE  Calm
  <2>1. w' \in Window /\ WInv(w') /\ w'.nest = Disowned(s.nest) BY <1>3, Opened, Replaced
  <2>2. Len(w'.nest) = Len(w.nest) BY <2>1, StillWaits
  <2> QED BY <1>1, <2>1, <2>2, Bounds, Quiet
<1> QED BY <1>2, <1>3

(* First run, unlocking, the recovery unlock, restore and the lock.          *)
LEMMA SessionCalm ==
    ASSUME IInv, Session PROVE Calm
<1>1. /\ w \in Window /\ WInv(w) /\ Len(w.nest) \in 0..MaxNest
      /\ \A kind \in Dialogs : OnTop(kind) => w.slot = kind /\ w.at = Len(w.nest)
      /\ AtWindow => w.slot = "none" /\ w.at = Len(w.nest)
    BY Here
<1>2. /\ w.at = Len(w.nest) => NoKeepWaits(w)
      /\ w.at = Len(w.nest) /\ w.slot # "newmaster" => Settled(w)
      /\ w.slot # "offer" => Counting(w) /\ NoKeepWaits(w)
      /\ ~w.failed
    BY <1>1, OnTopSettled, Settles DEF WInv
<1>3. ASSUME NEW s \in Window, s.key, NoKeepWaits(s), Counting(s),
             s.failed => Len(s.nest) < MaxNest, w' = enter_unlocked(s)
      PROVE  Calm
    BY <1>3, Entered, Quiet
<1>4. PICK o \in Window : /\ o = open_with(w) /\ Counting(o) /\ o.key
                          /\ o.unlocked = w.unlocked /\ o.live = w.live /\ o.slot = w.slot
                          /\ o.at = w.at /\ o.nest = w.nest /\ o.failed = w.failed
    BY <1>1, OpenedWith
<1>5. ASSUME CompleteFirstRun PROVE Calm
  <2>1. "firstrun" \in Dialogs BY DEF Dialogs, PreLogin
  <2>2. NoKeepWaits(w) BY <1>1, <1>2, <1>5, <2>1 DEF CompleteFirstRun
  <2>3. PICK s : s = [o EXCEPT !.code = TRUE] OBVIOUS
  <2>4. s \in Window BY <2>3, Setters
  <2>5. SameCore(o, s) BY <2>3 DEF SameCore, Window
  <2>6. s.key /\ ~s.failed /\ Counting(s) /\ NoKeepWaits(s)
      BY <1>2, <1>4, <2>2, <2>5 DEF SameCore, Counting, NoKeepWaits
  <2>7. w' = enter_unlocked(s) BY <1>4, <1>5, <2>3 DEF CompleteFirstRun
  <2> QED BY <1>3, <2>4, <2>6, <2>7
<1>6. ASSUME UnlockWithPassword PROVE Calm
  <2>1. "unlock" \in Dialogs BY DEF Dialogs, PreLogin
  <2>2. NoKeepWaits(w) /\ Len(w.nest) < MaxNest
      BY <1>1, <1>2, <1>6, <2>1 DEF UnlockWithPassword, CanAsk
  <2>3. PICK converts \in BOOLEAN :
            w' = enter_unlocked([o EXCEPT !.notice = o.notice \/ converts,
                                          !.failed = vault.legacy /\ ~converts])
    <3>1. PICK converts \in IF vault.legacy THEN BOOLEAN ELSE {FALSE} :
              w' = enter_unlocked([open_with(w) EXCEPT !.notice = @ \/ converts,
                                      !.failed = vault.legacy /\ ~converts])
        BY <1>6, Zenon DEF UnlockWithPassword
    <3> QED BY <1>4, <3>1
  <2>4. PICK n \in BOOLEAN : n = (o.notice \/ converts)
    <3>1. o.notice \in BOOLEAN BY Fields
    <3> QED BY <3>1, Zenon
  <2>5. PICK f \in BOOLEAN : f = (vault.legacy /\ ~converts)
    <3>1. (vault.legacy /\ ~converts) \in BOOLEAN OBVIOUS
    <3> QED BY <3>1, Zenon
  <2>6. PICK s : s = [o EXCEPT !.notice = n, !.failed = f] OBVIOUS
  <2>7. s \in Window BY <2>6, Setters, Zenon
  <2>8. /\ s.key = o.key /\ s.nest = o.nest /\ s.minutes = o.minutes /\ s.timer = o.timer
      BY <2>6 DEF Window
  <2>9. s.key /\ Counting(s) /\ NoKeepWaits(s) /\ Len(s.nest) < MaxNest
      BY <1>4, <2>2, <2>8 DEF Counting, NoKeepWaits
  <2>10. w' = enter_unlocked(s) BY <2>3, <2>4, <2>5, <2>6
  <2> QED BY <1>3, <2>7, <2>9, <2>10
<1>7. ASSUME on_recovery_unlocked PROVE Calm
  <2>1. "unlock" \in Dialogs /\ "newmaster" \in Dialogs BY DEF Dialogs, PreLogin
  <2>2. w.slot = "unlock" /\ w.at = Len(w.nest) BY <1>1, <1>7, <2>1 DEF on_recovery_unlocked
  <2>3. PICK s : s = [o EXCEPT !.regen = TRUE] OBVIOUS
  <2>4. s \in Window BY <2>3, Setters
  <2>5. SameCore(o, s) BY <2>3 DEF SameCore, Window
  <2>6. PICK t \in Window : t = open_dialog(s, "newmaster") BY <2>1, <2>4, Opened
  <2>7. w' = t BY <1>4, <1>7, <2>3, <2>6 DEF on_recovery_unlocked
  <2>8. /\ t.slot = "newmaster" /\ t.at = Len(s.nest) /\ t.nest = Disowned(s.nest)
        /\ t.key = s.key /\ t.unlocked = s.unlocked /\ t.minutes = s.minutes
        /\ t.timer = s.timer /\ t.live = s.live /\ t.failed = s.failed
      BY <2>1, <2>4, <2>6, Opened
  <2>9. Settled(w) BY <1>2, <2>2
  <2>10. NoKeepWaits(s) /\ Counting(s) /\ s.key /\ ~s.failed
      BY <1>2, <1>4, <2>5, <2>9 DEF SameCore, NoKeepWaits, Settled, Counting
  <2>11. s.unlocked = w.unlocked /\ s.live = w.live /\ s.nest = w.nest
      BY <1>4, <2>5 DEF SameCore
  <2>12. NoKeepWaits(t) /\ PickersExport(t) /\ Len(t.nest) = Len(w.nest)
      BY <2>4, <2>8, <2>10, <2>11, StillWaits
  <2>13. \A i \in DOMAIN t.nest : ~(i > t.at)
    <3>1. DOMAIN t.nest = 1..Len(t.nest) BY Fields, StackIsSeq
    <3> QED BY <1>1, <2>8, <2>11, <2>12, <3>1, Bounds
  <2>14. WInv(t)
      BY <1>1, <2>8, <2>9, <2>10, <2>11, <2>12, <2>13, Bounds
         DEF WInv, UnlockedHasKey, LockedShowsNothing, KeyWithheld, NewMasterIsLast, KeepWaits,
             CodeStopsTimer, TimerRuns, NoKeepWaits, Settled, Counting, OnlyNotesAbove, Plain
  <2> QED BY <1>1, <2>7, <2>12, <2>14, Bounds, Quiet
<1>8. ASSUME SetMasterPassword PROVE Calm
  <2>1. "newmaster" \in Dialogs BY DEF Dialogs
  <2>2. w.slot = "newmaster" /\ w.at = Len(w.nest) BY <1>1, <1>8, <2>1 DEF SetMasterPassword
  <2>3. w.key BY <1>1, <2>2 DEF WInv, NewMasterIsLast
  <2> QED BY <1>1, <1>2, <1>3, <1>8, <2>2, <2>3 DEF SetMasterPassword
<1>9. ASSUME AfterUpgradeNotice PROVE Calm
  <2>1. /\ w.nest # <<>> /\ Last(w.nest).what = "upgrade"
        /\ w.slot = "none" \/ w.at < Len(w.nest)
      BY <1>9 DEF AfterUpgradeNotice, Asking
  <2>2. "upgrade" \in Questions BY DEF Questions
  <2>3. NoKeepWaits(w) /\ w.slot # "newmaster" BY <1>1, <2>1, <2>2, Innermost
  <2>4. PICK t \in Window : t = Answered(w) /\ Unasked(w, t)
      BY <1>1, <2>1, AnsweredIs DEF Unasked
  <2>5. WInv(t) BY <1>1, <2>1, <2>4, AnsweredKeeps
  <2>6. NoKeepWaits(t)
    <3>1. DOMAIN t.nest = 1..Len(t.nest) /\ DOMAIN w.nest = 1..Len(w.nest)
        BY <1>1, Fields, StackIsSeq
    <3> QED BY <1>1, <2>3, <2>4, <3>1, Bounds DEF NoKeepWaits, Unasked
  <2>7. t.slot # "newmaster" /\ Len(t.nest) < Len(w.nest) BY <1>1, <2>3, <2>4, Bounds DEF Unasked
  <2>8. w' \in Window /\ WInv(w') /\ Len(w'.nest) = Len(t.nest)
      BY <1>9, <2>4, <2>5, <2>6, <2>7, RestEntered DEF AfterUpgradeNotice
  <2>9. Len(w'.nest) \in 0..MaxNest BY <2>8, Fields, StackIsSeq
  <2>10. Len(w'.nest) <= Len(w.nest) BY <1>1, <2>7, <2>8, <2>9, Bounds
  <2> QED BY <2>8, <2>10, Quiet
<1>10. ASSUME CancelUnlock PROVE Calm
  <2>1. "unlock" \in Dialogs BY DEF Dialogs, PreLogin
  <2> QED BY <1>1, <1>2, <1>10, <2>1, SlotReplaced DEF CancelUnlock
<1>11. ASSUME show_unlock PROVE Calm
  <2>1. Settled(w) /\ Counting(w) /\ ~w.unlocked BY <1>1, <1>2, <1>11 DEF show_unlock
  <2>2. PICK s : s = [w EXCEPT !.live = "none"] OBVIOUS
  <2>3. s \in Window BY <1>1, <2>2, Setters
  <2>4. /\ s.key = w.key /\ s.unlocked = w.unlocked /\ s.live = "none" /\ s.nest = w.nest
        /\ s.failed = w.failed /\ s.minutes = w.minutes /\ s.timer = w.timer
      BY <1>1, <2>2 DEF Window
  <2>5. Settled(s) /\ Counting(s) BY <2>1, <2>4 DEF Settled, Counting, NoKeepWaits
  <2>6. w' = open_dialog(s, "unlock") BY <1>11, <2>2 DEF show_unlock, clear_live
  <2>7. "unlock" \in Dialogs \ {"offer", "newmaster"} /\ "unlock" \in PreLogin
      BY DEF Dialogs, PreLogin
  <2> QED BY <2>3, <2>4, <2>5, <2>6, <2>7, SlotReplaced
<1>12. ASSUME open_restore PROVE Calm
  <2>1. /\ {"unlock", "firstrun"} \subseteq Dialogs
        /\ "restore" \in Dialogs \ {"offer", "newmaster"} /\ "restore" \in PreLogin
      BY DEF Dialogs, PreLogin
  <2> QED BY <1>1, <1>2, <1>12, <2>1, SlotReplaced DEF open_restore
<1>13. ASSUME CancelRestore \/ on_start_over PROVE Calm
  <2>1. {"unlock", "restore"} \subseteq Dialogs BY DEF Dialogs, PreLogin
  <2>2. Settled(w) /\ Counting(w)
      BY <1>1, <1>2, <1>13, <2>1 DEF CancelRestore, on_start_over
  <2>3. PICK kind \in {"unlock", "firstrun"} : w' = open_dialog(w, kind)
      BY <1>13 DEF CancelRestore, on_start_over, route_pre_login
  <2>4. kind \in Dialogs \ {"offer", "newmaster"} /\ kind \in PreLogin BY DEF Dialogs, PreLogin
  <2> QED BY <1>1, <2>2, <2>3, <2>4, SlotReplaced
<1>14. ASSUME on_restore_requested PROVE Calm
  <2>1. "restore" \in Dialogs BY DEF Dialogs, PreLogin
  <2>2. NoKeepWaits(o) /\ ~o.failed
      BY <1>1, <1>2, <1>4, <1>14, <2>1 DEF on_restore_requested, NoKeepWaits
  <2>3. w' = enter_unlocked(o) BY <1>4, <1>14 DEF on_restore_requested
  <2> QED BY <1>3, <1>4, <2>2, <2>3
<1>15. ASSUME NEW s \in Window, NoKeepWaits(s), ~s.failed, s.nest = w.nest, w' = lock(s)
       PROVE  Calm
  <2>1. w' \in Window /\ WInv(w') /\ Len(w'.nest) = Len(w.nest) BY <1>15, Locked
  <2> QED BY <1>1, <2>1, Bounds, Quiet
<1>16. ASSUME LockNow PROVE Calm
    BY <1>1, <1>2, <1>15, <1>16 DEF LockNow
<1>17. ASSUME on_idle_timeout PROVE Calm
  <2>1. PICK s : s = [w EXCEPT !.key = FALSE, !.timer = "off"] OBVIOUS
  <2>2. s \in Window
    <3>1. FALSE \in BOOLEAN /\ "off" \in {"off", "on"} OBVIOUS
    <3> QED BY <1>1, <2>1, <3>1, Setters, Zenon
  <2>3. s.nest = w.nest /\ s.failed = w.failed BY <1>1, <2>1 DEF Window
  <2>4. w.slot # "offer" BY <1>1, <1>17 DEF on_idle_timeout, WInv, CodeStopsTimer
  <2>5. NoKeepWaits(s) BY <1>2, <2>3, <2>4 DEF NoKeepWaits
  <2>6. w' = lock(s) BY <1>17, <2>1 DEF on_idle_timeout, service_lock
  <2> QED BY <1>2, <1>15, <2>2, <2>3, <2>5, <2>6
<1> QED BY <1>5, <1>6, <1>7, <1>8, <1>9, <1>10, <1>11, <1>12, <1>13, <1>14, <1>16, <1>17
        DEF Session

(* The recovery code's display and its gates.                                *)
LEMMA RecoveryCalm ==
    ASSUME IInv, Recovery PROVE Calm
<1>1. /\ w \in Window /\ WInv(w) /\ Len(w.nest) \in 0..MaxNest
      /\ \A kind \in Dialogs : OnTop(kind) => w.slot = kind /\ w.at = Len(w.nest)
    BY Here
<1>2. {"offer", "settings"} \subseteq Dialogs BY DEF Dialogs, Plain
<1>3. w.at = Len(w.nest) /\ w.slot # "newmaster" => Settled(w) BY <1>1, OnTopSettled
<1>4. ASSUME NEW s \in Window, Settled(s), Len(s.nest) <= Len(w.nest), w' = OfferFinished(s)
      PROVE  Calm
    BY <1>4, Finished, Quiet
<1>5. ASSUME KeepCode \/ Decline PROVE Calm
    BY <1>1, <1>2, <1>3, <1>4, <1>5, Bounds DEF KeepCode, Decline
<1>6. ASSUME KeepFails PROVE Calm
  <2>1. w.slot = "offer" /\ w.at = Len(w.nest) /\ Len(w.nest) < MaxNest /\ w.key
      BY <1>1, <1>2, <1>6 DEF KeepFails, CanAsk
  <2>2. "unstored" \in Questions /\ Askable(w, "unstored") /\ w.unlocked
      BY <1>1, <1>3, <2>1, Settles DEF Questions, Askable, Settled
  <2>3. w' \in Window /\ WInv(w') /\ w'.unlocked
      BY <1>1, <1>6, <2>1, <2>2, Asked DEF KeepFails
  <2> QED BY <2>3, Quiet
<1>7. ASSUME w.nest # <<>> PROVE Unasked(w, Answered(w)) BY <1>1, <1>7, AnsweredIs
<1>8. ASSUME AfterKeepFailed PROVE Calm
  <2>1. w.nest # <<>> /\ Last(w.nest).what = "unstored" BY <1>8 DEF AfterKeepFailed, Asking
  <2>2. PICK t \in Window : t = Answered(w) /\ Unasked(w, t) BY <1>7, <2>1 DEF Unasked
  <2>3. Settled(t) BY <1>1, <2>1, <2>2, KeepAnswered
  <2>4. Len(t.nest) <= Len(w.nest) BY <1>1, <2>2, Bounds DEF Unasked
  <2> QED BY <1>4, <1>8, <2>2, <2>3, <2>4 DEF AfterKeepFailed
<1>9. ASSUME CopyCode \/ CopyRow \/ ClipboardTimeout PROVE Calm
  <2>1. w' = w BY <1>9 DEF CopyCode, CopyRow, ClipboardTimeout
  <2> QED BY <1>1, <2>1, SameWindow DEF SameCore
<1>10. ASSUME NEW what \in {"gate", "remove"}, OnTop("settings"), CanAsk,
              w' = Ask(teardown_dialog(w), what)
       PROVE  Calm
  <2>1. w.slot = "settings" /\ w.at = Len(w.nest) /\ Len(w.nest) < MaxNest
      BY <1>1, <1>2, <1>10 DEF CanAsk
  <2>2. Settled(w) /\ Counting(w) /\ w.unlocked
      BY <1>1, <1>3, <2>1, Settles DEF WInv, LockedShowsNothing, Plain
  <2>3. PICK t \in Window : /\ t = teardown_dialog(w) /\ t.slot = "none"
                            /\ t.nest = Disowned(w.nest) /\ t.unlocked = w.unlocked
      BY <1>1, Teardown
  <2>4. WInv(t) BY <1>1, <2>2, <2>3, Freed
  <2>5. NoKeepWaits(t) /\ Len(t.nest) = Len(w.nest) BY <1>1, <2>2, <2>3, StillWaits DEF Settled
  <2>6. what \in Questions /\ Askable(t, what) BY <2>3, <2>5 DEF Questions, Askable
  <2>7. w' \in Window /\ WInv(w') /\ w'.unlocked
      BY <1>10, <2>1, <2>2, <2>3, <2>4, <2>5, <2>6, Asked
  <2> QED BY <2>7, Quiet
<1>11. ASSUME on_change_recovery_key \/ on_remove_recovery_key PROVE Calm
    BY <1>10, <1>11 DEF on_change_recovery_key, on_remove_recovery_key
(* A gate answered late finds the window locked, or the slot free or taken.  *)
<1>12. ASSUME NEW what \in {"gate", "remove"}, Asking(what)
       PROVE  /\ Answered(w) \in Window /\ WInv(Answered(w)) /\ Settled(Answered(w))
              /\ Len(Answered(w).nest) <= Len(w.nest) /\ Answered(w).key = w.key
  <2>1. /\ w.nest # <<>> /\ Last(w.nest).what = what /\ what \in Questions
        /\ w.slot = "none" \/ w.at < Len(w.nest)
      BY <1>12 DEF Asking, Questions
  <2>2. NoKeepWaits(w) /\ w.slot # "newmaster" BY <1>1, <2>1, Innermost
  <2>3. PICK t \in Window : t = Answered(w) /\ Unasked(w, t) BY <1>7, <2>1 DEF Unasked
  <2>4. WInv(t) BY <1>1, <2>1, <2>3, AnsweredKeeps
  <2>5. NoKeepWaits(t)
    <3>1. DOMAIN t.nest = 1..Len(t.nest) /\ DOMAIN w.nest = 1..Len(w.nest)
        BY <1>1, Fields, StackIsSeq
    <3> QED BY <1>1, <2>2, <2>3, <3>1, Bounds DEF NoKeepWaits, Unasked
  <2>6. (t.unlocked <=> t.key) /\ (~t.unlocked => t.live = "none") /\ ~t.failed
      BY <1>1, <2>2, <2>3, Settles DEF Unasked, WInv
  <2>7. Settled(t) BY <2>5, <2>6, Zenon DEF Settled
  <2>8. Len(t.nest) <= Len(w.nest) /\ t.key = w.key BY <1>1, <2>3, Bounds DEF Unasked
  <2> QED BY <2>3, <2>4, <2>7, <2>8
<1>13. ASSUME NEW s \in Window, WInv(s), Settled(s), Len(s.nest) <= Len(w.nest),
              w' = reopen_settings_if_idle(s)
       PROVE  Calm
  <2>1. CASE ~(s.unlocked /\ s.slot = "none")
    <3>1. w' = s BY <1>13, <2>1, Zenon DEF reopen_settings_if_idle
    <3> QED BY <1>13, <3>1, Quiet
  <2>2. CASE s.unlocked /\ s.slot = "none"
    <3>1. "settings" \in Dialogs \ {"offer", "newmaster"} BY DEF Dialogs, Plain
    <3>2. Counting(s) BY <1>13, <2>2, Settles
    <3>3. PICK t \in Window : t = open_dialog(s, "settings") /\ t.nest = Disowned(s.nest)
        BY <3>1, Opened
    <3>4. WInv(t) BY <1>13, <2>2, <3>1, <3>2, <3>3, Replaced
    <3>5. Len(t.nest) = Len(s.nest) BY <3>3, StillWaits
    <3>6. w' = t BY <1>13, <2>2, <3>3 DEF reopen_settings_if_idle
    <3> QED BY <1>13, <3>3, <3>4, <3>5, <3>6, Quiet
  <2> QED BY <2>1, <2>2
<1>14. ASSUME NEW right \in BOOLEAN, AnswerGate(right) PROVE Calm
  <2>1. PICK s \in Window : /\ s = Answered(w) /\ WInv(s) /\ Settled(s)
                            /\ Len(s.nest) <= Len(w.nest)
      BY <1>12, <1>14 DEF AnswerGate
  <2>2. CASE right /\ w.key
    <3>1. w' = show_code(s) BY <1>14, <2>1, <2>2 DEF AnswerGate
    <3>2. w' \in Window /\ WInv(w') /\ Len(w'.nest) = Len(s.nest) BY <2>1, <3>1, CodeShown
    <3> QED BY <2>1, <3>2, Quiet
  <2>3. CASE ~(right /\ w.key)
    <3>1. w' = reopen_settings_if_idle(s) BY <1>14, <2>1, <2>3, Zenon DEF AnswerGate
    <3> QED BY <1>13, <2>1, <3>1
  <2> QED BY <2>2, <2>3
<1>15. ASSUME NEW agreed \in BOOLEAN, AnswerRemove(agreed) PROVE Calm
  <2>1. Asking("remove") /\ w' = reopen_settings_if_idle(Answered(w)) BY <1>15 DEF AnswerRemove
  <2> QED BY <1>12, <1>13, <2>1
<1> QED BY <1>5, <1>6, <1>8, <1>9, <1>11, <1>14, <1>15 DEF Recovery

(* The content and its dialogs.                                              *)
LEMMA ContentCalm ==
    ASSUME IInv, Content PROVE Calm
<1>1. /\ w \in Window /\ WInv(w) /\ Len(w.nest) \in 0..MaxNest
      /\ \A kind \in Dialogs : OnTop(kind) => w.slot = kind /\ w.at = Len(w.nest)
      /\ AtWindow => w.slot = "none" /\ w.at = Len(w.nest)
    BY Here
<1>2. /\ Plain \subseteq Dialogs \ {"offer", "newmaster"}
      /\ {"settings", "export", "entry", "form"} = Plain
    BY DEF Dialogs, Plain
<1>3. /\ w.at = Len(w.nest) /\ w.slot # "newmaster" => Settled(w)
      /\ w.slot # "offer" => Counting(w)
      /\ ~w.unlocked => w.live = "none" /\ w.slot \notin Plain
    BY <1>1, OnTopSettled, Settles DEF WInv, LockedShowsNothing
<1>4. ASSUME NEW kind \in Plain, OpenFromWindow(kind) PROVE Calm
  <2>1. Settled(w) /\ Counting(w) /\ w.unlocked BY <1>1, <1>3, <1>4 DEF OpenFromWindow
  <2> QED BY <1>1, <1>2, <1>4, <2>1, SlotReplaced DEF OpenFromWindow
<1>5. ASSUME NEW kind \in {"export", "form"}, OpenFromSettings(kind) PROVE Calm
  <2>1. Settled(w) /\ Counting(w) /\ w.unlocked
      BY <1>1, <1>2, <1>3, <1>5 DEF OpenFromSettings
  <2> QED BY <1>1, <1>2, <1>5, <2>1, SlotReplaced DEF OpenFromSettings
<1>6. ASSUME CloseDialog PROVE Calm
  <2>1. Settled(w) /\ Counting(w) BY <1>1, <1>2, <1>3, <1>6 DEF CloseDialog
  <2> QED BY <1>1, <1>6, <2>1, SlotReplaced DEF CloseDialog
<1>7. ASSUME NEW minutes \in {"some", "never"}, SaveSettings(minutes) PROVE Calm
  <2>1. Settled(w) BY <1>1, <1>2, <1>3, <1>7 DEF SaveSettings
  <2>2. PICK s : s = [w EXCEPT !.minutes = minutes] OBVIOUS
  <2>3. s \in Window BY <1>1, <2>2, Setters
  <2>4. /\ s.key = w.key /\ s.unlocked = w.unlocked /\ s.live = w.live /\ s.nest = w.nest
        /\ s.failed = w.failed
      BY <1>1, <2>2 DEF Window
  <2>5. PICK t \in Window : /\ t = arm_timer(s) /\ Counting(t)
                            /\ t.key = s.key /\ t.unlocked = s.unlocked /\ t.live = s.live
                            /\ t.nest = s.nest /\ t.failed = s.failed
      BY <2>3, Armed
  <2>6. Settled(t) BY <2>1, <2>4, <2>5 DEF Settled, NoKeepWaits
  <2>7. w' = teardown_dialog(t) BY <1>7, <2>2, <2>5 DEF SaveSettings
  <2> QED BY <2>4, <2>5, <2>6, <2>7, SlotReplaced
(* The content of an unlocked window may be swapped.                         *)
<1>14. ASSUME NEW s \in Window, WInv(s), s.unlocked, NEW live \in {"workspace", "wizard"},
              w' = [s EXCEPT !.live = live]
       PROVE  Calm
  <2>1. w' \in Window BY <1>14, Setters
  <2>2. /\ w'.key = s.key /\ w'.unlocked = s.unlocked /\ w'.minutes = s.minutes
        /\ w'.timer = s.timer /\ w'.slot = s.slot /\ w'.at = s.at /\ w'.nest = s.nest
        /\ w'.failed = s.failed
      BY <1>14 DEF Window
  <2>3. WInv(w')
      BY <1>14, <2>2
         DEF WInv, UnlockedHasKey, LockedShowsNothing, KeyWithheld, NewMasterIsLast, KeepWaits,
             CodeStopsTimer, TimerRuns, PickersExport, OnlyNotesAbove
  <2> QED BY <1>14, <2>1, <2>2, <2>3, Quiet
<1>8. ASSUME open_import \/ on_import_done PROVE Calm
  <2>1. PICK live \in {"workspace", "wizard"} : w' = [w EXCEPT !.live = live]
      BY <1>8 DEF open_import, on_import_done, build_workspace
  <2>2. w.live # "none" BY <1>8 DEF open_import, on_import_done
  <2>3. w.unlocked BY <1>3, <2>2
  <2> QED BY <1>1, <1>14, <2>1, <2>3
<1>15. ASSUME on_manual_committed PROVE Calm
  <2>1. w.slot = "entry" /\ w.unlocked /\ Settled(w) /\ Counting(w)
      BY <1>1, <1>2, <1>3, <1>15 DEF on_manual_committed
  <2>2. PICK t \in Window : t = teardown_dialog(w) /\ t.unlocked = w.unlocked BY <1>1, Teardown
  <2>3. WInv(t) BY <1>1, <2>1, <2>2, Freed
  <2>4. w' = [t EXCEPT !.live = "workspace"]
      BY <1>15, <2>2 DEF on_manual_committed, build_workspace
  <2> QED BY <1>14, <2>1, <2>2, <2>3, <2>4
<1>9. ASSUME on_export_requested PROVE Calm
  <2>1. w.slot = "export" /\ w.at = Len(w.nest) /\ Len(w.nest) < MaxNest
      BY <1>1, <1>2, <1>9 DEF on_export_requested, CanAsk
  <2>2. w.unlocked /\ NoKeepWaits(w) BY <1>2, <1>3, <2>1 DEF Settled
  <2>3. "picker" \in Questions /\ Askable(w, "picker") BY <2>1, <2>2 DEF Questions, Askable
  <2>4. w' \in Window /\ WInv(w') /\ w'.unlocked
      BY <1>1, <1>9, <2>1, <2>2, <2>3, Asked DEF on_export_requested
  <2> QED BY <2>4, Quiet
(* The picker acts only where its dialog is still up and unlocked.           *)
<1>10. ASSUME NEW what \in {"picker", "note"}, Asking(what)
       PROVE  /\ Answered(w) \in Window /\ WInv(Answered(w)) /\ Unasked(w, Answered(w))
              /\ Len(Answered(w).nest) < Len(w.nest)
  <2>1. w.nest # <<>> /\ Last(w.nest).what = what BY <1>10 DEF Asking
  <2>2. Unasked(w, Answered(w)) BY <1>1, <2>1, AnsweredIs
  <2>3. WInv(Answered(w)) BY <1>1, <2>1, <2>2, AnsweredKeeps
  <2> QED BY <1>1, <2>2, <2>3, Bounds DEF Unasked
<1>11. ASSUME NEW what \in {"picker", "note"}, Asking(what), w' = Answered(w) PROVE Calm
  <2>1. w' \in Window /\ WInv(w') /\ Len(w'.nest) < Len(w.nest) BY <1>10, <1>11
  <2>2. Len(w'.nest) \in 0..MaxNest BY <2>1, Fields, StackIsSeq
  <2> QED BY <1>1, <2>1, <2>2, Bounds, Quiet
<1>12. ASSUME NEW outcome \in {"cancelled", "written", "failed"}, AnswerPicker(outcome)
       PROVE  Calm
  <2>1. Asking("picker") BY <1>12 DEF AnswerPicker
  <2>2. CASE outcome = "cancelled" \/ locked_during_picker(w)
    <3>1. w' = Answered(w) BY <1>12, <2>2 DEF AnswerPicker
    <3> QED BY <1>11, <2>1, <3>1
  <2>3. CASE ~(outcome = "cancelled" \/ locked_during_picker(w))
    <3>1. /\ w.nest # <<>> /\ Last(w.nest).what = "picker" /\ "picker" \in Questions
          /\ w.unlocked /\ Last(w.nest).own
        BY <2>1, <2>3 DEF Asking, locked_during_picker, Questions
    <3>2. NoKeepWaits(w) /\ w.slot = "export" BY <1>1, <3>1, Innermost
    <3>3. PICK t \in Window : /\ t = Answered(w) /\ WInv(t) /\ Unasked(w, t)
                              /\ Len(t.nest) < Len(w.nest)
        BY <1>10, <2>1
    <3>4. t.slot = "export" /\ t.unlocked BY <3>1, <3>2, <3>3 DEF Unasked
    <3>5. Settled(t) /\ Counting(t) BY <3>3, <3>4, Settles
    <3>6. w' = teardown_dialog(t) \/ w' = Ask(t, "note")
        BY <1>12, <2>3, <3>3, Zenon DEF AnswerPicker
    <3>7. CASE w' = teardown_dialog(t)
      <4>1. w' \in Window /\ WInv(w') /\ w'.unlocked
          BY <3>3, <3>4, <3>5, <3>7, Teardown, Freed
      <4> QED BY <4>1, Quiet
    <3>8. CASE w' = Ask(t, "note")
      <4>1. "note" \in Questions /\ Askable(t, "note") BY DEF Questions, Askable
      <4>2. Len(t.nest) \in 0..MaxNest BY <3>3, Fields, StackIsSeq
      <4>3. Len(t.nest) < MaxNest BY <1>1, <3>3, <4>2, Bounds
      <4>4. w' \in Window /\ WInv(w') /\ w'.unlocked
          BY <3>3, <3>4, <3>8, <4>1, <4>3, Asked
      <4> QED BY <4>4, Quiet
    <3> QED BY <3>6, <3>7, <3>8
  <2> QED BY <2>2, <2>3
<1>13. ASSUME AnswerNote PROVE Calm BY <1>11, <1>13 DEF AnswerNote
<1> QED BY <1>4, <1>5, <1>6, <1>7, <1>8, <1>9, <1>12, <1>13, <1>15 DEF Content

(* A window just built.                                                      *)
LEMMA FreshWindow == Fresh \in Window /\ WInv(Fresh) /\ Len(Fresh.nest) = 0
<1>1. <<>> \in Frames
  <2>1. <<>> \in [1..0 -> Frame] /\ 0 \in 0..MaxNest BY Bounds
  <2>2. \E m \in 0..MaxNest : <<>> \in [1..m -> Frame] BY <2>1, Zenon
  <2> QED BY <2>2, Stack
<1>2. 0 \in 0..MaxNest /\ 0 \in 0..MaxDownloads BY Bounds
<1>3. Fresh \in Window BY <1>1, <1>2 DEF Fresh, Window, Dialogs
<1>4. WInv(Fresh)
    BY DEF Fresh, WInv, UnlockedHasKey, LockedShowsNothing, KeyWithheld, NewMasterIsLast,
           KeepWaits, CodeStopsTimer, TimerRuns, PickersExport, Plain
<1> QED BY <1>3, <1>4 DEF Fresh

(* The checks, the prompt, the downloads and the installer.                  *)
LEMMA UpdateCalm ==
    ASSUME IInv, Update PROVE Calm
<1>1. /\ w \in Window /\ WInv(w) /\ Len(w.nest) \in 0..MaxNest
      /\ \A kind \in Dialogs : OnTop(kind) => w.slot = kind /\ w.at = Len(w.nest)
    BY Here
<1>2. "update" \in Dialogs /\ "note" \in Questions BY DEF Dialogs, Questions
<1>3. /\ w.at = Len(w.nest) /\ w.slot # "newmaster" => Settled(w)
      /\ w.slot # "offer" => Counting(w)
      /\ w.slot \in {"update", "busy"} => w.unlocked /\ Settled(w)
    BY <1>1, OnTopSettled, Settles DEF WInv, LockedShowsNothing
<1>4. ASSUME NEW s \in Window, SameCore(w, s), w' = on_update_found(s)
      PROVE  Calm
  <2>1. PICK f : f = [s EXCEPT !.pending = TRUE] OBVIOUS
  <2>2. f \in Window BY <2>1, Setters
  <2>3. SameCore(w, f) BY <1>4, <2>1 DEF SameCore, Window
  <2>4. WInv(f) BY <1>1, <2>3, CoreDecides
  <2>5. w' = maybe_show_pending_offer(f) BY <1>4, <2>1 DEF on_update_found
  <2>6. w' \in Window /\ WInv(w') /\ Len(w'.nest) = Len(f.nest) BY <2>2, <2>4, <2>5, UpdateShown
  <2>7. Len(w'.nest) <= Len(w.nest) BY <1>1, <2>3, <2>6, Bounds DEF SameCore
  <2> QED BY <2>6, <2>7, Quiet
<1>5. ASSUME check_for_updates_now PROVE Calm
  <2>1. PICK a \in BOOLEAN : a = w.unlocked BY <1>1, Fields
  <2>2. "running" \in {"idle", "running"} OBVIOUS
  <2>3. w' = [w EXCEPT !.manual = "running", !.asked = a] BY <1>5, <2>1 DEF check_for_updates_now
  <2>4. w' \in Window BY <1>1, <2>2, <2>3, Setters, Zenon
  <2>5. SameCore(w, w') BY <1>1, <2>3 DEF SameCore, Window
  <2> QED BY <2>4, <2>5, SameWindow
<1>6. ASSUME NEW yes \in BOOLEAN, maybe_check_for_update(yes) PROVE Calm
  <2>1. PICK l \in {"running", "done"} : w' = [w EXCEPT !.launch = l]
      BY <1>6 DEF maybe_check_for_update
  <2>2. w' \in Window BY <1>1, <2>1, Setters
  <2>3. SameCore(w, w') BY <1>1, <2>1 DEF SameCore, Window
  <2> QED BY <2>2, <2>3, SameWindow
<1>7. ASSUME NEW found \in BOOLEAN, LaunchCheckAnswers(found) PROVE Calm
  <2>1. PICK s : s = [w EXCEPT !.launch = "done"] OBVIOUS
  <2>2. s \in Window BY <1>1, <2>1, Setters
  <2>3. SameCore(w, s) BY <1>1, <2>1 DEF SameCore, Window
  <2>4. w' = on_update_found(s) \/ w' = s BY <1>7, <2>1, Zenon DEF LaunchCheckAnswers
  <2> QED BY <1>4, <2>2, <2>3, <2>4, SameWindow
<1>8. ASSUME NEW found \in BOOLEAN, ManualCheckAnswers(found) PROVE Calm
  <2>1. PICK s : s = [w EXCEPT !.manual = "idle", !.asked = FALSE] OBVIOUS
  <2>2. s \in Window
    <3>1. "idle" \in {"idle", "running"} /\ FALSE \in BOOLEAN OBVIOUS
    <3> QED BY <1>1, <2>1, <3>1, Setters, Zenon
  <2>3. SameCore(w, s) /\ s.manual = "idle" BY <1>1, <2>1 DEF SameCore, Window
  <2>4. \/ w' = on_update_found(s) \/ w' = s
        \/ w' = Ask(s, "note") /\ ~locked_since_manual_check(w)
      BY <1>8, <2>1 DEF ManualCheckAnswers
  <2>5. ASSUME w' = Ask(s, "note"), ~locked_since_manual_check(w) PROVE Calm
    <3>1. Len(s.nest) < MaxNest BY <1>8, <2>3 DEF ManualCheckAnswers, CanAsk, SameCore
    <3>2. WInv(s) /\ Askable(s, "note") BY <1>1, <2>3, CoreDecides DEF Askable
    <3>3. w' \in Window /\ WInv(w') /\ w'.unlocked = s.unlocked
        BY <1>2, <2>2, <2>5, <3>1, <3>2, Asked
    <3>4. w'.manual = "idle" /\ w.manual = "running"
      <4>1. w'.manual = s.manual BY <2>2, <2>5 DEF Ask, Window
      <4> QED BY <1>8, <2>3, <4>1 DEF ManualCheckAnswers
    <3>5. w'.unlocked \/ ~w.asked
      <4>1. w'.unlocked = w.unlocked BY <2>3, <3>3 DEF SameCore
      <4> QED BY <2>5, <4>1 DEF locked_since_manual_check
    <3> QED BY <3>3, <3>4, <3>5 DEF Calm, LockScreenIsQuiet
  <2> QED BY <1>4, <2>2, <2>3, <2>4, <2>5, SameWindow
<1>9. ASSUME on_update_later \/ on_update_skip PROVE Calm
  <2>1. Settled(w) /\ Counting(w) /\ w' = teardown_dialog(w)
      BY <1>1, <1>2, <1>3, <1>9 DEF on_update_later, on_update_skip
  <2> QED BY <1>1, <2>1, SlotReplaced
<1>10. ASSUME NEW i \in Workers, on_update_now(i) PROVE Calm
  <2>1. /\ w.slot = "update" /\ w.at = Len(w.nest)
        /\ w' = [w EXCEPT !.slot = "busy", !.busy = i, !.tracked = i]
      BY <1>1, <1>2, <1>10 DEF on_update_now
  <2>2. i \in 0..MaxDownloads /\ "busy" \in Dialogs \cup {"none"} BY Bounds DEF Workers, Dialogs
  <2>3. w' \in Window BY <1>1, <2>1, <2>2, Setters, Zenon
  <2>4. /\ w'.key = w.key /\ w'.unlocked = w.unlocked /\ w'.minutes = w.minutes
        /\ w'.timer = w.timer /\ w'.at = w.at /\ w'.nest = w.nest /\ w'.live = w.live
        /\ w'.failed = w.failed /\ w'.slot = "busy"
      BY <1>1, <2>1 DEF Window
  <2>5. w.unlocked /\ Settled(w) /\ Counting(w) BY <1>3, <2>1
  <2>6. PickersExport(w') BY <1>1, <2>1, <2>4 DEF WInv, PickersExport
  <2>7. WInv(w')
      BY <1>1, <2>4, <2>5, <2>6
         DEF WInv, UnlockedHasKey, LockedShowsNothing, KeyWithheld, NewMasterIsLast, KeepWaits,
             CodeStopsTimer, TimerRuns, Settled, NoKeepWaits, Counting
  <2> QED BY <2>3, <2>4, <2>5, <2>7, Quiet
<1>11. ASSUME NEW i \in Workers, on_download_failed(i) PROVE Calm
  <2>1. CASE ~prompt_live(i)
    <3>1. w' = w BY <1>11, <2>1, Zenon DEF on_download_failed
    <3> QED BY <1>1, <3>1, SameWindow DEF SameCore
  <2>2. CASE prompt_live(i)
    <3>1. w.unlocked /\ Settled(w) /\ Counting(w) /\ Len(w.nest) < MaxNest
        BY <1>3, <1>11, <2>2 DEF prompt_live, on_download_failed, CanAsk
    <3>2. PICK t \in Window : /\ t = teardown_dialog(w) /\ t.unlocked = w.unlocked
                              /\ t.nest = Disowned(w.nest)
        BY <1>1, Teardown
    <3>3. WInv(t) /\ Len(t.nest) = Len(w.nest) /\ Askable(t, "note")
        BY <1>1, <3>1, <3>2, Freed, StillWaits DEF Askable
    <3>4. w' = Ask(t, "note") BY <1>11, <2>2, <3>2 DEF on_download_failed
    <3>5. w' \in Window /\ WInv(w') /\ w'.unlocked BY <1>2, <3>1, <3>2, <3>3, <3>4, Asked
    <3> QED BY <3>5, Quiet
  <2> QED BY <2>1, <2>2
<1>12. ASSUME ApplyFails PROVE Calm
  <2>1. /\ w.unlocked /\ Len(w.nest) < MaxNest /\ w' = Ask(w, "note")
      BY <1>12 DEF IInv, ApplyIsUnlocked, ApplyFails, CanAsk
  <2>2. Askable(w, "note") BY DEF Askable
  <2>3. w' \in Window /\ WInv(w') /\ w'.unlocked BY <1>1, <1>2, <2>1, <2>2, Asked
  <2> QED BY <2>3, Quiet
<1>13. ASSUME UNCHANGED w PROVE Calm BY <1>1, <1>13, SameWindow DEF SameCore
<1>14. ASSUME w' = Fresh PROVE Calm
  <2>1. Len(w'.nest) <= Len(w.nest) BY <1>1, <1>14, FreshWindow, Bounds
  <2> QED BY <1>14, <2>1, FreshWindow, Quiet
<1>15. ASSUME NEW i \in Workers, NEW ok \in BOOLEAN,
              on_download_ready(i) \/ download_and_verify(i, ok)
       PROVE  Calm
    BY <1>13, <1>15 DEF on_download_ready, download_and_verify
<1>16. ASSUME NEW yes \in BOOLEAN, ReplaceProgram \/ SpawnHelper \/ HelperSwaps(yes) PROVE Calm
    BY <1>13, <1>16 DEF ReplaceProgram, SpawnHelper, HelperSwaps
<1>17. ASSUME Relaunch \/ PowerLoss \/ Close PROVE Calm
    BY <1>14, <1>17 DEF Relaunch, PowerLoss, Close, Ended
<1> QED BY <1>5, <1>6, <1>7, <1>8, <1>9, <1>10, <1>11, <1>12, <1>15, <1>16, <1>17 DEF Update

-----------------------------------------------------------------------------
(* The vault, the clipboard, the downloads and the program's file.           *)

Beside == /\ vault \in [exists : BOOLEAN, legacy : BOOLEAN, slot : BOOLEAN]
          /\ clip \in {"code", "other"}
          /\ dl \in [Workers -> {"unused", "running", "ready", "failed"}]
          /\ disk \in [skipped : BOOLEAN, program : {"old", "new", "torn"}, flushed : BOOLEAN,
                       step : {"idle", "staged", "swapped", "helper"}, applied : 0..MaxDownloads,
                       staged : SUBSET Workers]
          /\ proc \in {"up", "closed", "aborted", "replaced", "powerless"}
          /\ ApplyIsUnlocked /\ SwapIsFlushed /\ UpdateIsClean
(* The invariant is one of the window and one of what lies beside it.        *)
LEMMA Parts == IInv <=> w \in Window /\ WInv(w) /\ Beside
BY DEF IInv, TypeOK, Beside, Window, Frames, Frame

(* A handler of the window leaves the downloads and the installer alone.     *)
LEMMA BesideWindow ==
    ASSUME IInv, Session \/ Recovery \/ Content
    PROVE  Beside'
<1>1. Beside /\ w \in Window BY Parts
<1>2. Turn /\ UNCHANGED <<dl, disk, proc>>
  <2>1. ASSUME Session PROVE Turn /\ UNCHANGED <<dl, disk, proc>>
      BY <2>1 DEF Session, CompleteFirstRun, UnlockWithPassword, on_recovery_unlocked,
         SetMasterPassword, AfterUpgradeNotice, CancelUnlock, show_unlock, open_restore,
         CancelRestore, on_restore_requested, on_start_over, LockNow, on_idle_timeout
  <2>2. ASSUME Recovery PROVE Turn /\ UNCHANGED <<dl, disk, proc>>
      BY <2>2 DEF Recovery, KeepCode, KeepFails, AfterKeepFailed, Decline, CopyCode, CopyRow,
         ClipboardTimeout, on_change_recovery_key, on_remove_recovery_key, AnswerGate, AnswerRemove
  <2>3. ASSUME Content PROVE Turn /\ UNCHANGED <<dl, disk, proc>>
      BY <2>3 DEF Content, OpenFromWindow, OpenFromSettings, SaveSettings, AnswerPicker,
         CloseDialog, on_manual_committed, open_import, on_import_done, on_export_requested,
         AnswerNote
  <2> QED BY <2>1, <2>2, <2>3
<1>3. vault' \in [exists : BOOLEAN, legacy : BOOLEAN, slot : BOOLEAN]
  <2>1. w.key \in BOOLEAN BY <1>1, Fields
  <2>2. ASSUME Session PROVE vault' \in [exists : BOOLEAN, legacy : BOOLEAN, slot : BOOLEAN]
    <3>1. CASE UnlockWithPassword
      <4>1. PICK converts \in IF vault.legacy THEN BOOLEAN ELSE {FALSE} :
                vault' = [vault EXCEPT !.legacy = @ /\ ~converts]
          BY <3>1, Zenon DEF UnlockWithPassword
      <4>2. PICK b \in BOOLEAN : b = (vault.legacy /\ ~converts)
        <5>1. (vault.legacy /\ ~converts) \in BOOLEAN OBVIOUS
        <5> QED BY <5>1, Zenon
      <4>3. vault' = [vault EXCEPT !.legacy = b] BY <4>1, <4>2, Zenon
      <4>4. vault \in [exists : BOOLEAN, legacy : BOOLEAN, slot : BOOLEAN] BY <1>1 DEF Beside
      <4> QED BY <4>3, <4>4
    <3>2. CASE CompleteFirstRun \/ on_restore_requested \/ on_start_over
      <4>1. \/ vault' = [exists |-> TRUE, legacy |-> FALSE, slot |-> FALSE]
            \/ vault' = [exists |-> FALSE, legacy |-> FALSE, slot |-> FALSE]
        <5>1. ASSUME CompleteFirstRun
              PROVE  vault' = [exists |-> TRUE, legacy |-> FALSE, slot |-> FALSE]
            BY <5>1, Zenon DEF CompleteFirstRun
        <5>2. ASSUME on_restore_requested
              PROVE  vault' = [exists |-> TRUE, legacy |-> FALSE, slot |-> FALSE]
            BY <5>2, Zenon DEF on_restore_requested
        <5>3. ASSUME on_start_over
              PROVE  vault' = [exists |-> FALSE, legacy |-> FALSE, slot |-> FALSE]
            BY <5>3, Zenon DEF on_start_over
        <5> QED BY <3>2, <5>1, <5>2, <5>3
      <4>2. \A e, l, r \in BOOLEAN : [exists |-> e, legacy |-> l, slot |-> r]
                \in [exists : BOOLEAN, legacy : BOOLEAN, slot : BOOLEAN]
          OBVIOUS
      <4>3. TRUE \in BOOLEAN /\ FALSE \in BOOLEAN OBVIOUS
      <4> QED BY <4>1, <4>2, <4>3, Zenon
    <3>3. CASE ~(UnlockWithPassword \/ CompleteFirstRun \/ on_restore_requested \/ on_start_over)
      <4>1. UNCHANGED vault
          BY <2>2, <3>3 DEF Session, on_recovery_unlocked, SetMasterPassword, AfterUpgradeNotice,
             CancelUnlock, show_unlock, open_restore, CancelRestore, LockNow, on_idle_timeout
      <4> QED BY <1>1, <4>1 DEF Beside
    <3> QED BY <3>1, <3>2, <3>3
  <2>3. ASSUME Recovery PROVE vault' \in [exists : BOOLEAN, legacy : BOOLEAN, slot : BOOLEAN]
      BY <1>1, <2>1, <2>3 DEF Beside, Recovery, KeepCode, KeepFails, AfterKeepFailed, Decline,
         CopyCode, CopyRow, ClipboardTimeout, on_change_recovery_key, on_remove_recovery_key,
         AnswerGate, AnswerRemove
  <2>4. ASSUME Content PROVE UNCHANGED vault
      BY <2>4 DEF Content, OpenFromWindow, OpenFromSettings, SaveSettings, AnswerPicker,
         CloseDialog, on_manual_committed, open_import, on_import_done, on_export_requested,
         AnswerNote
  <2> QED BY <1>1, <2>2, <2>3, <2>4 DEF Beside
<1>4. clip' \in {"code", "other"}
  <2>1. ASSUME Recovery PROVE clip' \in {"code", "other"}
      BY <1>1, <2>1 DEF Beside, Recovery, KeepCode, KeepFails, AfterKeepFailed, Decline,
         CopyCode, CopyRow, ClipboardTimeout, clear_if_ours, on_change_recovery_key,
         on_remove_recovery_key, AnswerGate, AnswerRemove
  <2>2. ASSUME Session PROVE UNCHANGED clip
      BY <2>2 DEF Session, CompleteFirstRun, UnlockWithPassword, on_recovery_unlocked,
         SetMasterPassword, AfterUpgradeNotice, CancelUnlock, show_unlock, open_restore,
         CancelRestore, on_restore_requested, on_start_over, LockNow, on_idle_timeout
  <2>3. ASSUME Content PROVE UNCHANGED clip
      BY <2>3 DEF Content, OpenFromWindow, OpenFromSettings, SaveSettings, AnswerPicker,
         CloseDialog, on_manual_committed, open_import, on_import_done, on_export_requested,
         AnswerNote
  <2> QED BY <1>1, <2>1, <2>2, <2>3 DEF Beside
<1> QED BY <1>1, <1>2, <1>3, <1>4
        DEF Beside, Turn, ApplyIsUnlocked, SwapIsFlushed, UpdateIsClean, StagedIsAccounted,
            ProgramIsWhole

(* A staged file is on its way to the window, or in the installer's hands.   *)
LEMMA BesideUpdate ==
    ASSUME IInv, Update
    PROVE  Beside'
<1> USE DEF Beside, ApplyIsUnlocked, SwapIsFlushed, UpdateIsClean, StagedIsAccounted,
            ProgramIsWhole
<1>1. Beside /\ w \in Window BY Parts
<1>2. 0 \in 0..MaxDownloads /\ Workers \subseteq 0..MaxDownloads BY Bounds DEF Workers
<1>3. ASSUME Turn, UNCHANGED <<vault, clip, dl, disk, proc>> PROVE Beside'
    BY <1>1, <1>3 DEF Turn
<1>4. ASSUME \/ check_for_updates_now \/ on_update_later
             \/ \E yes \in BOOLEAN : \/ maybe_check_for_update(yes) \/ LaunchCheckAnswers(yes)
                                     \/ ManualCheckAnswers(yes)
      PROVE  Beside'
    BY <1>3, <1>4 DEF check_for_updates_now, on_update_later, maybe_check_for_update,
                      LaunchCheckAnswers, ManualCheckAnswers
<1>5. ASSUME on_update_skip PROVE Beside' BY <1>1, <1>5 DEF on_update_skip, Turn
<1>6. ASSUME NEW i \in Workers, on_update_now(i) PROVE Beside'
    BY <1>1, <1>6 DEF on_update_now, Turn
<1>7. ASSUME NEW i \in Workers, NEW ok \in BOOLEAN, download_and_verify(i, ok) PROVE Beside'
    BY <1>1, <1>7 DEF download_and_verify
<1>8. ASSUME NEW i \in Workers, on_download_ready(i) PROVE Beside'
  <2>1. CASE prompt_live(i)
    <3>1. w.unlocked
        BY <2>1, <1>1 DEF IInv, WInv, LockedShowsNothing, prompt_live
    <3> QED BY <1>1, <1>2, <1>8, <2>1, <3>1 DEF on_download_ready, Turn, Release
  <2>2. CASE ~prompt_live(i)
      BY <1>1, <1>8, <2>2 DEF on_download_ready, Turn, Release, DropStale, Unstage
  <2> QED BY <2>1, <2>2
<1>9. ASSUME NEW i \in Workers, on_download_failed(i) PROVE Beside'
    BY <1>1, <1>9 DEF on_download_failed, Turn, Release
<1>10. ASSUME ReplaceProgram PROVE Beside'
    BY <1>1, <1>10 DEF ReplaceProgram, Unstage, fsync_staged
<1>11. ASSUME SpawnHelper PROVE Beside' BY <1>1, <1>11 DEF SpawnHelper
<1>12. ASSUME ApplyFails PROVE Beside' BY <1>1, <1>2, <1>12 DEF ApplyFails, Unstage
<1>13. ASSUME Relaunch PROVE Beside' BY <1>1, <1>13 DEF Relaunch, Ended
<1>14. ASSUME PowerLoss PROVE Beside' BY <1>1, <1>14 DEF PowerLoss, Ended
<1>15. ASSUME Close PROVE Beside' BY <1>1, <1>15 DEF Close, Ended
<1>16. ASSUME NEW yes \in BOOLEAN, HelperSwaps(yes) PROVE Beside'
    BY <1>1, <1>16 DEF HelperSwaps, Unstage
<1> QED BY <1>4, <1>5, <1>6, <1>7, <1>8, <1>9, <1>10, <1>11, <1>12, <1>13, <1>14, <1>15, <1>16
        DEF Update

-----------------------------------------------------------------------------
(* The theorems.                                                             *)

(* A program just started.                                                   *)
LEMMA InitIInv == Init => IInv
<1> SUFFICES ASSUME Init PROVE IInv OBVIOUS
<1>1. w \in Window /\ WInv(w)
  <2>1. PICK kind \in {"unlock", "firstrun"} : w = [Fresh EXCEPT !.slot = kind]
      BY DEF Init
  <2>2. kind \in Dialogs /\ kind \in PreLogin BY DEF Dialogs, PreLogin
  <2>3. w \in Window BY <2>1, <2>2, FreshWindow, Setters
  <2>4. WInv(w)
      BY <2>1, <2>2
         DEF Fresh, WInv, UnlockedHasKey, LockedShowsNothing, KeyWithheld, NewMasterIsLast,
             KeepWaits, CodeStopsTimer, TimerRuns, PickersExport, Plain, PreLogin
  <2> QED BY <2>3, <2>4
<1>2. Beside
    BY Bounds DEF Init, Beside, ApplyIsUnlocked, SwapIsFlushed, UpdateIsClean,
                  StagedIsAccounted, ProgramIsWhole
<1> QED BY <1>1, <1>2, Parts

(* Every step, of whichever handler or thread.                               *)
LEMMA NextIInv == IInv /\ [Next]_vars => IInv' /\ (Next => LockScreenIsQuiet)
<1> SUFFICES ASSUME IInv, [Next]_vars PROVE IInv' /\ (Next => LockScreenIsQuiet) OBVIOUS
<1>1. ASSUME Next PROVE IInv' /\ LockScreenIsQuiet
  <2>1. Calm BY <1>1, SessionCalm, RecoveryCalm, ContentCalm, UpdateCalm DEF Next
  <2>2. Beside' BY <1>1, BesideWindow, BesideUpdate DEF Next
  <2>3. IInv' <=> w' \in Window /\ WInv(w') /\ Beside'
      BY DEF IInv, TypeOK, Beside, Window, Frames, Frame, ApplyIsUnlocked, SwapIsFlushed,
             WInv
  <2> QED BY <2>1, <2>2, <2>3 DEF Calm
<1>2. ASSUME UNCHANGED vars PROVE IInv'
    BY <1>2 DEF vars, IInv, TypeOK, ApplyIsUnlocked, SwapIsFlushed, UpdateIsClean,
                StagedIsAccounted, ProgramIsWhole, Workers
<1> QED BY <1>1, <1>2

(* Together the facts above are inductive, whatever the bounds.              *)
THEOREM Invariance == Spec => []IInv
BY InitIInv, NextIInv, PTL DEF Spec

(* Type correctness: in particular no handler nests a loop beyond the stack. *)
THEOREM TypeCorrect == Spec => []TypeOK
<1>1. IInv => TypeOK BY DEF IInv
<1> QED BY <1>1, Invariance, PTL

(* The invariant leaves nothing on screen without the key.                   *)
LEMMA ShownNothing == IInv => NothingShown
<1> SUFFICES ASSUME IInv PROVE NothingShown OBVIOUS
<1>1. w \in Window /\ WInv(w) BY Here
<1> QED BY <1>1, Fields
        DEF NothingShown, WInv, UnlockedHasKey, LockedShowsNothing, KeyWithheld

(* Whatever was waiting when the vault locked and however late it resumes,   *)
(* without the key no content and no Plain dialog is shown; a recovery code  *)
(* may be (NothingShown).                                                    *)
THEOREM ShowsNothing == Spec => []NothingShown
BY ShownNothing, Invariance, PTL

(* The countdown runs exactly while no code is displayed.                    *)
THEOREM IdleLock == Spec => []IdleLockArmed
<1>1. IInv => IdleLockArmed
  <2> SUFFICES ASSUME IInv PROVE IdleLockArmed OBVIOUS
  <2>1. w \in Window /\ WInv(w) BY Here
  <2>2. Displaying <=> w.slot = "offer" BY <2>1 DEF Displaying, WInv, KeepWaits
  <2> QED BY <2>1, <2>2, Fields DEF IdleLockArmed, WInv, CodeStopsTimer, TimerRuns
<1> QED BY <1>1, Invariance, PTL

(* An update is installed whole, whenever the power goes, or leaves nothing. *)
THEOREM UpdatesAreClean == Spec => []UpdateIsClean
<1>1. IInv => UpdateIsClean BY DEF IInv
<1> QED BY <1>1, Invariance, PTL

(* No step of a waiting handler or of a worker shows content or a Plain      *)
(* dialog, or raises a box, over the lock screen.                            *)
THEOREM StaysLocked == Spec => LockedMeansLocked
<1>1. IInv /\ IInv' /\ [Next]_vars => [NothingShown' /\ LockScreenIsQuiet]_vars
  <2>1. IInv' => NothingShown' BY ShownNothing, PTL
  <2> QED BY <2>1, NextIInv
<1> QED BY <1>1, Invariance, PTL DEF Spec, LockedMeansLocked

=============================================================================
