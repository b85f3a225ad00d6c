----------------------------- MODULE UnlockGateProofs -----------------------------
(***************************************************************************)
(* What the unlock gate promises, for every schedule and every bound.       *)
(***************************************************************************)
EXTENDS UnlockGate, TLAPS

(* The stamp never claims more time than has really passed, and once the     *)
(* gate has refused it counts at least the time since.                       *)
StampIsHonest == (count > 0 /\ stamp = "written") => age <= real
WaitIsCounted == waiting >= 0 => stamp = "written" /\ age >= waiting

(* The dialog has a worker exactly while a thread of its own may run, and    *)
(* the ways out of it are open only when it has none.                        *)
WorkerOwnsThread ==
    /\ alive <= 1
    /\ worker = "none" => alive = 0 /\ result = "none"
    /\ worker # "none" => dialog = "up" /\ others = "off"

IInv == TypeOK /\ StampIsHonest /\ WaitIsCounted /\ WorkerOwnsThread

-----------------------------------------------------------------------------
(* backoff_delay_seconds is a delay of at most MaxDelay seconds.             *)
LEMMA DelayTyped == \A n \in Nat : backoff_delay_seconds(n) \in 0..MaxDelay
<1> SUFFICES ASSUME NEW n \in Nat, n > 0
             PROVE  backoff_delay_seconds(n) \in 0..MaxDelay
    BY ScheduleTyped DEF backoff_delay_seconds
<1> DEFINE k == Least(n, CapN) - 1
<1>1. k \in 0..CapN
    BY ScheduleTyped DEF Least
<1>2. 2^k \in Nat \ {0}
    BY <1>1, PowersAreNat
<1> HIDE DEF k
<1>3. \A p \in Nat \ {0} : BaseDelay * p \in Nat
    BY ScheduleTyped
<1>4. BaseDelay * 2^k \in Nat
    BY <1>2, <1>3
<1>5. Least(BaseDelay * 2^k, MaxDelay) \in 0..MaxDelay
    BY <1>4, ScheduleTyped DEF Least
<1> QED BY <1>5 DEF backoff_delay_seconds, k

(* remaining_lockout_seconds stays within the delay it is a part of.         *)
LEMMA OwedTyped ==
    \A n \in Nat, e \in Int :
        /\ remaining_lockout_seconds(n, "written", e) \in 0..MaxDelay
        /\ remaining_lockout_seconds(n, "missing", e) \in 0..MaxDelay
<1> SUFFICES ASSUME NEW n \in Nat, NEW e \in Int
             PROVE  /\ remaining_lockout_seconds(n, "written", e) \in 0..MaxDelay
                    /\ remaining_lockout_seconds(n, "missing", e) \in 0..MaxDelay
    OBVIOUS
<1>1. PICK d \in 0..MaxDelay : d = backoff_delay_seconds(n)
    BY DelayTyped
<1>2. Least(d, Greatest(0, d - e)) \in 0..MaxDelay
    BY <1>1, ScheduleTyped DEF Least, Greatest
<1> QED BY <1>1, <1>2, ScheduleTyped DEF remaining_lockout_seconds

(* What the gate asks is a part of the schedule's longest delay.             *)
LEMMA RemainingTyped == ASSUME TypeOK PROVE remaining \in 0..MaxDelay
<1>0. count \in Nat /\ 0 \in Int BY DEF TypeOK
<1>1. remaining_lockout_seconds(count, "written", 0) \in 0..MaxDelay
    BY <1>0, OwedTyped, Zenon
<1>2. remaining_lockout_seconds(count, stamp, age) \in 0..MaxDelay
    BY OwedTyped DEF TypeOK
<1> QED BY <1>1, <1>2 DEF remaining

(* The gate lets a submit through only when the delay has really passed.     *)
LEMMA PassIsLate == ASSUME IInv, remaining = 0 PROVE real >= backoff_delay_seconds(count)
<1>1. PICK d \in 0..MaxDelay : d = backoff_delay_seconds(count)
    BY DelayTyped DEF IInv, TypeOK
<1>2. CASE count <= 0
    BY <1>1, <1>2 DEF IInv, TypeOK, backoff_delay_seconds
<1>3. CASE count > 0 /\ Restamps
  <2>1. Least(d, Greatest(0, d - 0)) = 0
      BY <1>1, <1>3 DEF remaining, remaining_lockout_seconds, IInv, TypeOK
  <2> QED BY <2>1, <1>1 DEF Least, Greatest, IInv, TypeOK
<1>4. CASE count > 0 /\ ~Restamps
  <2>1. stamp = "written" /\ age >= 0 /\ age <= real
      BY <1>4 DEF Restamps, IInv, TypeOK, StampIsHonest
  <2>2. Least(d, Greatest(0, d - age)) = 0
      BY <1>1, <1>4, <2>1 DEF remaining, remaining_lockout_seconds, IInv, TypeOK
  <2> QED BY <2>1, <2>2, <1>1 DEF Least, Greatest, IInv, TypeOK
<1> QED BY <1>2, <1>3, <1>4 DEF IInv, TypeOK

(* The gate refuses only within the delay of its first refusal.              *)
LEMMA RefusalIsEarly == ASSUME IInv, remaining > 0 PROVE waiting < backoff_delay_seconds(count)
<1>1. PICK d \in 0..MaxDelay : d = backoff_delay_seconds(count)
    BY DelayTyped DEF IInv, TypeOK
<1>2. CASE waiting = -1
    BY <1>1, <1>2
<1>3. CASE waiting >= 0
  <2>1. count > 0
      BY DEF remaining, remaining_lockout_seconds, Restamps, IInv, TypeOK
  <2>2. stamp = "written" /\ age >= waiting /\ ~Restamps
      BY <1>3 DEF Restamps, IInv, TypeOK, WaitIsCounted
  <2>3. Least(d, Greatest(0, d - age)) > 0
      BY <1>1, <2>1, <2>2 DEF remaining, remaining_lockout_seconds, IInv, TypeOK
  <2> QED BY <2>2, <2>3, <1>1, <1>3 DEF Least, Greatest, IInv, TypeOK
<1> QED BY <1>2, <1>3 DEF IInv, TypeOK

-----------------------------------------------------------------------------
(* A dialog that has not been opened satisfies the invariant.                *)
LEMMA InitInv == Init => IInv
BY ScheduleTyped DEF Init, IInv, TypeOK, Enabling, Credentials, StampIsHonest, WaitIsCounted, WorkerOwnsThread

(* A refused submit keeps the invariant: a stamp written again as now makes  *)
(* no claim, and the wait it begins is counted from it.                      *)
LEMMA RefuseInv == ASSUME IInv, worker = "none", Refuse PROVE IInv'
<1>1. remaining \in 0..MaxDelay /\ remaining > 0
    BY RemainingTyped DEF IInv, Refuse
<1>2. count > 0
    BY <1>1 DEF remaining, remaining_lockout_seconds, Restamps, IInv, TypeOK
<1>3. /\ stamp' = "written" /\ age' \in Int /\ 0 <= age' /\ age' <= MaxDelay /\ count' = count
      /\ \/ age' = 0 /\ (stamp = "missing" \/ age < 0)
         \/ age' = age /\ stamp = "written"
    BY <1>2, ScheduleTyped DEF Refuse, Restamped, Restamps, file, IInv, TypeOK
<1>4. TypeOK'
    BY <1>1, <1>3, ScheduleTyped DEF IInv, TypeOK, Enabling, Refuse, start_countdown, thread, Greatest
<1>5. StampIsHonest' /\ WaitIsCounted'
    BY <1>3 DEF IInv, TypeOK, Refuse, StampIsHonest, WaitIsCounted, Greatest
<1>6. WorkerOwnsThread'
    BY DEF IInv, Refuse, WorkerOwnsThread, thread
<1> QED BY <1>4, <1>5, <1>6 DEF IInv

(* A submit the gate lets through starts the only derivation.                *)
LEMMA DeriveInv ==
    ASSUME IInv, worker = "none", dialog = "up",
           NEW route \in {"password", "recovery"}, NEW cred \in Credentials,
           Derive(route, cred)
    PROVE  IInv'
<1>1. /\ count' = count
      /\ \/ stamp' = "written" /\ age' = 0 /\ (stamp = "missing" \/ age < 0)
         \/ age' = age /\ stamp' = stamp
    BY DEF Derive, Restamped, Restamps, file, IInv, TypeOK
<1>2. spent' \in [wrong : Nat, kills : Nat, setbacks : Nat, errors : Nat]
    BY DEF Derive, Use, Credentials, IInv, TypeOK
<1>3. TypeOK'
    BY <1>1, <1>2, ScheduleTyped DEF Derive, set_busy, IInv, TypeOK, Enabling, ghosts
<1>4. StampIsHonest' /\ WaitIsCounted'
    BY <1>1 DEF IInv, TypeOK, Derive, ghosts, StampIsHonest, WaitIsCounted
<1>5. WorkerOwnsThread'
    BY DEF IInv, TypeOK, Derive, set_busy, WorkerOwnsThread
<1> QED BY <1>3, <1>4, <1>5 DEF IInv

(* Every step of the dialog, its thread and the world keeps the invariant.   *)
LEMMA InvStep == IInv /\ [Next]_vars => IInv'
<1> SUFFICES ASSUME IInv, [Next]_vars PROVE IInv'
    OBVIOUS
<1> USE DEF IInv, Enabling
<1>1. CASE Open
    BY <1>1, ScheduleTyped DEF Open, TypeOK, StampIsHonest, WaitIsCounted, WorkerOwnsThread,
        file, thread, ghosts
<1>2. CASE Dismiss
    BY <1>2 DEF Dismiss, TypeOK, StampIsHonest, WaitIsCounted, WorkerOwnsThread,
        file, thread, ghosts
<1>3. CASE CountdownTick
    BY <1>3, ScheduleTyped DEF CountdownTick, TypeOK, StampIsHonest, WaitIsCounted, WorkerOwnsThread,
        file, thread, ghosts
<1>4. CASE Report
  <2>1. spent' \in [wrong : Nat, kills : Nat, setbacks : Nat, errors : Nat]
      BY <1>4 DEF Report, Use, TypeOK
  <2> QED BY <1>4, <2>1 DEF Report, Credentials, TypeOK, StampIsHonest, WaitIsCounted, WorkerOwnsThread,
        file, ui, ghosts
<1>5. CASE ThreadEnds
    BY <1>5 DEF ThreadEnds, TypeOK, StampIsHonest, WaitIsCounted, WorkerOwnsThread,
        file, ui, ghosts
<1>6. CASE DerivedRight
    BY <1>6, ScheduleTyped DEF DerivedRight, LetGo, reset, set_busy, TypeOK, StampIsHonest, WaitIsCounted,
        WorkerOwnsThread
<1>7. CASE DerivedWrong
  <2>0. count + 1 \in Nat /\ 0 \in Int BY DEF TypeOK
  <2>1. remaining_lockout_seconds(count + 1, "written", 0) \in 0..MaxDelay
      BY <2>0, OwedTyped, Zenon
  <2> QED BY <1>7, <2>1, ScheduleTyped DEF DerivedWrong, LetGo, record_failure, start_countdown,
        TypeOK, StampIsHonest, WaitIsCounted, WorkerOwnsThread
<1>8. CASE DerivedNothing
    BY <1>8 DEF DerivedNothing, LetGo, set_busy, TypeOK, StampIsHonest, WaitIsCounted,
        WorkerOwnsThread, file, ghosts
<1>9. ASSUME NEW cred \in Credentials, OnUnlock(cred) PROVE IInv'
  <2>1. CASE Refuse BY <1>9, <2>1, RefuseInv DEF OnUnlock, Busy
  <2>2. CASE Derive("password", cred) BY <1>9, <2>2, DeriveInv DEF OnUnlock, Busy
  <2> QED BY <1>9, <2>1, <2>2 DEF OnUnlock
<1>10. ASSUME NEW cred \in Credentials, OnRecoveryUnlock(cred) PROVE IInv'
  <2>1. CASE Refuse BY <1>10, <2>1, RefuseInv DEF OnRecoveryUnlock, Busy
  <2>2. CASE Derive("recovery", cred) BY <1>10, <2>2, DeriveInv DEF OnRecoveryUnlock, Busy
  <2> QED BY <1>10, <2>1, <2>2 DEF OnRecoveryUnlock
<1>11. CASE Lock
    BY <1>11 DEF Lock, TypeOK, StampIsHonest, WaitIsCounted, WorkerOwnsThread,
        file, thread, ghosts
<1>12. CASE ReplaceVault
    BY <1>12, ScheduleTyped DEF ReplaceVault, reset, TypeOK, StampIsHonest, WaitIsCounted,
        WorkerOwnsThread, thread
<1>13. CASE Kill
  <2>1. spent' \in [wrong : Nat, kills : Nat, setbacks : Nat, errors : Nat]
      BY <1>13 DEF Kill, Use, TypeOK
  <2> QED BY <1>13, <2>1, ScheduleTyped DEF Kill, TypeOK, StampIsHonest, WaitIsCounted,
        WorkerOwnsThread, file
<1>14. CASE Tick
  <2>1. TypeOK'
      BY <1>14, ScheduleTyped DEF Tick, Least, TypeOK, ui, thread
  <2>2. StampIsHonest' /\ WaitIsCounted'
      BY <1>14, ScheduleTyped DEF Tick, Least, TypeOK, StampIsHonest, WaitIsCounted
  <2> QED BY <1>14, <2>1, <2>2 DEF Tick, WorkerOwnsThread, ui, thread
<1>15. CASE SetClockBack
  <2>1. spent' \in [wrong : Nat, kills : Nat, setbacks : Nat, errors : Nat]
      BY <1>15 DEF SetClockBack, Use, TypeOK
  <2>2. age' \in Int /\ age' <= age /\ age' <= MaxDelay
      BY <1>15, ScheduleTyped, GateBounds DEF SetClockBack, TypeOK
  <2> QED BY <1>15, <2>1, <2>2, ScheduleTyped DEF SetClockBack, TypeOK, StampIsHonest,
        WaitIsCounted, WorkerOwnsThread, ui, thread
<1>16. CASE UNCHANGED vars
    BY <1>16 DEF vars, file, ui, thread, ghosts, TypeOK, StampIsHonest, WaitIsCounted,
        WorkerOwnsThread
<1> QED BY <1>1, <1>2, <1>3, <1>4, <1>5, <1>6, <1>7, <1>8, <1>9, <1>10, <1>11, <1>12, <1>13,
        <1>14, <1>15, <1>16 DEF Next, Submit, Derived

(* The invariant holds of every behaviour.                                   *)
LEMMA Invariant == Spec => []IInv
BY InitInv, InvStep, PTL DEF Spec

(* Type correctness: no delay shown or owed ever exceeds MAX_DELAY_SECONDS.  *)
THEOREM TypeCorrect == Spec => []TypeOK
<1>1. IInv => TypeOK BY DEF IInv
<1> QED BY <1>1, Invariant, PTL

(* INV-2f: one derivation at a time, whichever route and however the         *)
(* countdown re-enables the submit controls.                                 *)
THEOREM AtMostOneDerivation == Spec => []OneDerivation
<1>1. IInv => OneDerivation BY DEF IInv, WorkerOwnsThread, OneDerivation
<1> QED BY <1>1, Invariant, PTL

(* INV-2f, FIBR-0374: no dialog is destroyed over a running thread.          *)
THEOREM DialogOutlivesThread == Spec => []NoOrphanThread
<1>1. IInv => NoOrphanThread BY DEF IInv, WorkerOwnsThread, NoOrphanThread
<1> QED BY <1>1, Invariant, PTL

(* INV-2f: both at once - one derivation, in a dialog that is up.            *)
THEOREM DerivationStaysOwned == Spec => []DerivationIsOwned
<1>1. OneDerivation /\ NoOrphanThread => DerivationIsOwned BY DEF DerivationIsOwned
<1> QED BY <1>1, AtMostOneDerivation, DialogOutlivesThread, PTL

(* The only step that sets a worker going is a submit the gate let through.  *)
LEMMA StartsOnlyThroughGate ==
    ASSUME IInv, [Next]_vars, Starts PROVE remaining = 0
<1>1. \E cred \in Credentials : Submit(cred)
    BY DEF Starts, Next, vars, Open, Dismiss, CountdownTick, Report, ThreadEnds, Derived,
        DerivedRight, DerivedWrong, DerivedNothing, LetGo, Lock, ReplaceVault, Kill, Tick,
        SetClockBack, thread
<1>2. ~Refuse BY DEF Starts, Refuse, thread
<1> QED BY <1>1, <1>2 DEF Submit, OnUnlock, OnRecoveryUnlock, Derive

(* INV-6, security-model INV-10: for every schedule, no key is derived       *)
(* sooner after a charged failure than it asks, across restarts, lost stamps *)
(* and clocks set back.                                                      *)
THEOREM GateAlwaysHolds == Spec => GateHolds
<1>1. IInv /\ [Next]_vars => [Starts => real >= backoff_delay_seconds(count)]_vars
    BY StartsOnlyThroughGate, PassIsLate
<1> QED BY <1>1, Invariant, PTL DEF Spec, GateHolds

(* INV-3, FIBR-0371: for every schedule, a lockout ends within its delay.    *)
THEOREM LockoutAlwaysEnds == Spec => LockoutEnds
<1>1. IInv /\ [Next]_vars => [Refuse => waiting < backoff_delay_seconds(count)]_vars
    BY RefusalIsEarly DEF Refuse
<1> QED BY <1>1, Invariant, PTL DEF Spec, LockoutEnds
==============================================================================
