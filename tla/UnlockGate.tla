-------------------------------- MODULE UnlockGate --------------------------------
(***************************************************************************)
(* The gate in front of the vault: the unlock dialog (ui/unlock.py), its    *)
(* derivation thread (ui/_worker.py) and the failed-unlock backoff          *)
(* (services/unlock_throttle.py over ui/_unlock_throttle.py's window.ini).  *)
(*                                                                          *)
(* The dialog's handlers run one at a time on the GUI thread; the thread    *)
(* deriving the key, the label's 1-Hz timer, the wall clock and whoever     *)
(* kills the process go their own way between any two of them.              *)
(*                                                                          *)
(* Time is in seconds.  age is how long ago the wall clock says last_fail   *)
(* was: negative when the clock has been set back past it.  Nothing here    *)
(* tells ages of MaxDelay and more apart.  The clock is never set forward:  *)
(* the backoff does not claim to survive that.                              *)
(*                                                                          *)
(* A submit that is turned away before anything is derived (a settings file *)
(* that cannot be read, no recovery slot, a code with a typo) leaves the    *)
(* state as it was, so it has no action.                                    *)
(***************************************************************************)
EXTENDS Integers

CONSTANTS
    BaseDelay,    \* BASE_DELAY_SECONDS
    MaxDelay,     \* MAX_DELAY_SECONDS
    CapN,         \* CAP_N
    MaxBack,      \* how far behind last_fail the clock may be set
    MaxWrong, MaxKills, MaxSetBacks, MaxErrors   \* how often each may happen

ASSUME ScheduleTyped == BaseDelay \in Nat \ {0} /\ MaxDelay \in Nat \ {0} /\ CapN \in Nat \ {0}
ASSUME PowersAreNat == \A k \in 0..CapN : 2^k \in Nat \ {0}
ASSUME GateBounds == /\ MaxBack \in Nat /\ MaxWrong \in Nat /\ MaxKills \in Nat
                     /\ MaxSetBacks \in Nat /\ MaxErrors \in Nat

VARIABLES
    count,     \* window.ini: unlock/fail_count
    stamp,     \* window.ini: unlock/last_fail, "written" or "missing" or malformed
    age,       \* now - last_fail
    dialog,    \* the unlock dialog is "up" or "gone", or the owner is "in"
    worker,    \* self._worker: the route it derives for, or "none"
    trying,    \* the credential being derived
    alive,     \* derivation threads that have not ended
    result,    \* the signal queued for the GUI thread
    shown,     \* self._remaining_seconds while the countdown runs, else 0
    submit,    \* whether the password field and Unlock button are enabled
    others,    \* whether the recovery route and the dismissals are enabled
    real,      \* ghost: seconds since the last charged failure
    waiting,   \* ghost: seconds since the gate first refused, -1 if it has not
    spent      \* how much of each bound is used

file   == <<count, stamp, age>>
ui     == <<dialog, shown, submit, others>>
thread == <<worker, trying, alive, result>>
ghosts == <<real, waiting>>
vars   == <<file, ui, thread, ghosts, spent>>

Enabling == {"on", "off"}
Credentials == {"right", "wrong"}

TypeOK ==
    /\ count \in Nat /\ stamp \in {"written", "missing"} /\ age \in Int /\ age <= MaxDelay
    /\ dialog \in {"up", "gone", "in"}
    /\ worker \in {"none", "password", "recovery"} /\ trying \in Credentials
    /\ alive \in Nat /\ result \in {"none", "right", "wrong", "failed"}
    /\ shown \in 0..MaxDelay /\ submit \in Enabling /\ others \in Enabling
    /\ real \in 0..MaxDelay /\ waiting \in -1..MaxDelay
    /\ spent \in [wrong : Nat, kills : Nat, setbacks : Nat, errors : Nat]

Init ==
    /\ count = 0 /\ stamp = "missing" /\ age = 0
    /\ dialog = "gone" /\ worker = "none" /\ trying = "wrong"
    /\ alive = 0 /\ result = "none"
    /\ shown = 0 /\ submit = "on" /\ others = "on"
    /\ real = 0 /\ waiting = -1
    /\ spent = [wrong |-> 0, kills |-> 0, setbacks |-> 0, errors |-> 0]

Use(what) == spent' = [spent EXCEPT ![what] = @ + 1]
Least(a, b) == IF a <= b THEN a ELSE b
Greatest(a, b) == IF a <= b THEN b ELSE a

-----------------------------------------------------------------------------
(* The schedule and what is still owed of it.                                *)

backoff_delay_seconds(n) ==
    IF n <= 0 THEN 0 ELSE Least(BaseDelay * 2^(Least(n, CapN) - 1), MaxDelay)

remaining_lockout_seconds(n, last_fail, elapsed) ==
    IF n <= 0 THEN 0
    ELSE LET delay == backoff_delay_seconds(n)
         IN  IF last_fail = "missing" THEN delay ELSE Least(delay, Greatest(0, delay - elapsed))

(* UnlockThrottle.remaining: a stamp that is missing, or later than now, is  *)
(* written again as now.                                                     *)
NeverRestamps == FALSE
RestampsOnlyMissing == count > 0 /\ stamp = "missing"
Restamps == count > 0 /\ (stamp = "missing" \/ age < 0)

StampMissingIsFree == remaining_lockout_seconds(IF stamp = "written" THEN count ELSE 0, "written", age)
remaining == IF Restamps THEN remaining_lockout_seconds(count, "written", 0)
             ELSE remaining_lockout_seconds(count, stamp, age)
Restamped == IF Restamps THEN stamp' = "written" /\ age' = 0 /\ UNCHANGED count
             ELSE UNCHANGED file

-----------------------------------------------------------------------------
(* The dialog.                                                               *)

Open ==
    /\ dialog = "gone"
    /\ dialog' = "up" /\ shown' = 0 /\ submit' = "on" /\ others' = "on"
    /\ UNCHANGED <<file, thread, ghosts, spent>>

start_countdown(seconds) == shown' = seconds /\ submit' = "off"
(* _set_busy, by the state it leaves every control in.                       *)
set_busy(state) == submit' = state /\ others' = state

Refuse ==
    /\ remaining > 0
    /\ Restamped /\ start_countdown(remaining)
    /\ waiting' = Greatest(waiting, 0)
    /\ UNCHANGED <<dialog, others, thread, real, spent>>

Derive(route, cred) ==
    /\ remaining = 0
    /\ Restamped /\ set_busy("off")
    /\ worker' = route /\ trying' = cred /\ alive' = alive + 1
    /\ IF cred = "right" THEN UNCHANGED spent
       ELSE spent.wrong < MaxWrong /\ Use("wrong")
    /\ UNCHANGED <<dialog, shown, result, ghosts>>

(* _on_unlock and _on_recovery_unlock: one at a time, gate first.  A submit  *)
(* while a derivation is in flight is ignored.                               *)
Busy == worker # "none"
OnUnlock(cred) ==
    /\ dialog = "up" /\ submit = "on" /\ ~Busy
    /\ Refuse \/ Derive("password", cred)
OnRecoveryUnlock(cred) ==
    /\ dialog = "up" /\ others = "on" /\ ~Busy
    /\ Refuse \/ Derive("recovery", cred)

(* reject() and closeEvent; Escape reaches them whatever is disabled.        *)
Dismiss ==
    /\ dialog = "up" /\ worker = "none" /\ dialog' = "gone"
    /\ UNCHANGED <<file, shown, submit, others, thread, ghosts, spent>>

(* _tick_countdown: cosmetic, and the timer keeps no particular time.        *)
CountdownTick ==
    /\ dialog = "up" /\ shown > 0
    /\ shown' = shown - 1
    /\ submit' = (IF shown = 1 THEN "on" ELSE submit)
    /\ UNCHANGED <<dialog, others, file, thread, ghosts, spent>>

-----------------------------------------------------------------------------
(* The derivation.  The thread reports from inside run() and ends later.     *)

Report ==
    /\ worker # "none" /\ result = "none"
    /\ \/ result' = trying /\ UNCHANGED spent
       \/ spent.errors < MaxErrors /\ Use("errors") /\ result' = "failed"
    /\ UNCHANGED <<file, ui, worker, trying, alive, ghosts>>

ThreadEnds ==
    /\ alive > 0 /\ (result # "none" \/ worker = "none")
    /\ alive' = alive - 1
    /\ UNCHANGED <<file, ui, worker, trying, result, ghosts, spent>>

reset == count' = 0 /\ stamp' = "missing" /\ age' = 0 /\ waiting' = -1 /\ UNCHANGED real

record_failure ==
    /\ count' = count + 1 /\ stamp' = "written" /\ age' = 0
    /\ real' = 0 /\ waiting' = 0

(* The slot waits out the thread (settle), lets the worker go and acts on    *)
(* what the vault said of the key.                                           *)
LetGoUnsettled == worker' = "none" /\ result' = "none" /\ UNCHANGED <<alive, trying>>
LetGo == worker' = "none" /\ alive' = 0 /\ result' = "none" /\ UNCHANGED trying

DerivedRight ==
    /\ result = "right" /\ dialog = "up" /\ LetGo
    /\ reset /\ set_busy("on") /\ dialog' = "in" /\ UNCHANGED <<shown, spent>>
DerivedWrong ==
    /\ result = "wrong" /\ dialog = "up" /\ LetGo
    /\ record_failure
    /\ start_countdown(remaining_lockout_seconds(count + 1, "written", 0)) /\ others' = "on"
    /\ UNCHANGED <<dialog, spent>>
(* Not a wrong credential, so not charged.                                   *)
DerivedNothing ==
    /\ result = "failed" /\ dialog = "up" /\ LetGo
    /\ set_busy("on") /\ UNCHANGED <<dialog, shown, file, ghosts, spent>>

-----------------------------------------------------------------------------
(* The shell and the world around the dialog.                                *)

Lock == dialog = "in" /\ dialog' = "gone"
        /\ UNCHANGED <<file, shown, submit, others, thread, ghosts, spent>>

(* Start over, or a restored backup: another password, so nothing is owed.   *)
ReplaceVault ==
    /\ dialog = "up" /\ others = "on"
    /\ reset /\ dialog' = "gone"
    /\ UNCHANGED <<shown, submit, others, thread, spent>>

(* A kill may truncate the stamp it interrupted the writing of.              *)
Kill ==
    /\ spent.kills < MaxKills /\ Use("kills")
    /\ dialog' = "gone" /\ worker' = "none" /\ alive' = 0 /\ result' = "none"
    /\ \/ UNCHANGED <<file, waiting>>
       \/ stamp' = "missing" /\ age' = 0 /\ waiting' = -1 /\ UNCHANGED count
    /\ UNCHANGED <<shown, submit, others, trying, real>>

Tick ==
    /\ age' = (IF stamp = "written" THEN Least(age + 1, MaxDelay) ELSE age)
    /\ real' = Least(real + 1, MaxDelay)
    /\ waiting' = (IF waiting = -1 THEN -1 ELSE Least(waiting + 1, MaxDelay))
    /\ UNCHANGED <<count, stamp, ui, thread, spent>>

(* An age of MaxDelay stands for every longer one.                           *)
SetClockBack ==
    /\ stamp = "written" /\ spent.setbacks < MaxSetBacks /\ Use("setbacks")
    /\ \E a \in (-MaxBack)..MaxDelay :
          /\ a < age \/ (a = age /\ age = MaxDelay)
          /\ age' = a
    /\ waiting' = -1
    /\ UNCHANGED <<count, stamp, ui, thread, real>>

-----------------------------------------------------------------------------
Submit(cred) == OnUnlock(cred) \/ OnRecoveryUnlock(cred)
Derived == DerivedRight \/ DerivedWrong \/ DerivedNothing

Next ==
    \/ Open \/ Dismiss \/ CountdownTick \/ Report \/ ThreadEnds \/ Derived
    \/ (\E cred \in Credentials : Submit(cred))
    \/ Lock \/ ReplaceVault \/ Kill \/ Tick \/ SetClockBack

Spec == Init /\ [][Next]_vars

(* Time passes, the event loop and the thread run, and an owner who has the  *)
(* password opens the dialog and submits whenever it keeps letting them.     *)
Fairness ==
    /\ WF_vars(Tick) /\ WF_vars(CountdownTick) /\ WF_vars(Open)
    /\ WF_vars(Report) /\ WF_vars(ThreadEnds) /\ WF_vars(Derived)
    /\ SF_vars(OnUnlock("right"))
FairSpec == Spec /\ Fairness

-----------------------------------------------------------------------------
Starts == worker = "none" /\ worker' # "none"

(* INV-6, security-model INV-10: no route begins to derive a key sooner      *)
(* after a charged failure, in real time, than the schedule asks - across    *)
(* restarts, a lost stamp and a clock set back.                              *)
GateHolds == [][Starts => real >= backoff_delay_seconds(count)]_vars

(* INV-3, FIBR-0371: the lockout also ends.  Once the gate has refused, a    *)
(* submit the whole delay later is not refused again, unless the clock was   *)
(* set back or the stamp lost meanwhile.                                     *)
LockoutEnds == [][Refuse => waiting < backoff_delay_seconds(count)]_vars

(* INV-2f: at most one derivation at a time, whichever routes are tried and  *)
(* whatever the countdown re-enables in the middle of one.                   *)
OneDerivation == alive <= 1

(* INV-2f, FIBR-0374: the dialog never goes while a thread it owns runs.     *)
NoOrphanThread == dialog # "up" => alive = 0

(* At most one derivation, and the dialog that owns it is up.                *)
DerivationIsOwned == OneDerivation /\ NoOrphanThread

(* INV-5, FIBR-0371: the owner is never locked out for good.                 *)
OwnerGetsIn == (dialog # "in") ~> (dialog = "in")
==============================================================================
