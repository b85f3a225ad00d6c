----------------------------- MODULE VaultMigration -----------------------------
(***************************************************************************)
(* Unlocking a vault, and the v1 -> v2 key-envelope migration that an       *)
(* unlock runs: services/vault_migration.py (S0..S6, the resume ladder, the *)
(* rollback copy) driven by services/auth.py (complete_unlock, _unlock_v1,  *)
(* _unlock_through_slot, _open_with, _write_slot, lock).                    *)
(*                                                                          *)
(* One process at a time (single_instance.py) runs one unlock at a time, so *)
(* the interleavings that matter are a crash, a power loss or an OSError at *)
(* every step, damage to a file at rest, and what the next unlock makes of  *)
(* what was left.  Every unlock here uses the RIGHT credential; a wrong one *)
(* is refused before it reaches anything below.                             *)
(***************************************************************************)
EXTENDS VaultDisk

CONSTANTS
    MaxCrashes,   \* crashes and power losses in a behaviour
    MaxFaults,    \* OSErrors in a behaviour
    MaxDamage,    \* files damaged at rest in a behaviour
    MaxRekeys     \* password changes and recovery-slot rewrites in a behaviour

ASSUME BoundsAreNat == /\ MaxCrashes \in Nat /\ MaxFaults \in Nat
                       /\ MaxDamage \in Nat /\ MaxRekeys \in Nat

VARIABLES
    pc,         \* where the unlock is; "locked" between unlocks, "session" after one
    via,        \* which route entered the steps: "v1" or a branch of the ladder
    dek,        \* the DEK the running migration holds
    hand,       \* the key _open_with is about to use, then the session's key
    told,       \* what the last unlock told the user
    notice,     \* AuthService._just_migrated
    failed,     \* AuthService._migration_failed
    pw,         \* the KEK the owner's current password derives (its number)
    committed,  \* ghost: every row the owner has been promised
    draws,      \* random draws so far (salts and DEKs)
    spent       \* how much of each bound is used

proc == <<pc, via, dek, hand, told, notice, failed>>
user == <<pw, committed, draws>>
vars == <<fs, maybe, pc, via, dek, hand, told, notice, failed, pw, committed,
          draws, spent>>

Routes == {"none", "v1", "branch1", "branch2", "branch3"}
Told   == {"nothing", "opened", "wrong", "broken", "offer", "error"}

CopySteps == {"S0.db", "S0.db.write", "S0.side", "S0.side.write", "S0.verify"}
ConvertSteps == {"S1", "S1.export", "S2", "S2.check", "S3", "S4"}
SwapSteps == {"S5", "S5.swap", "S5.sync"}
FinishSteps == {"S6", "S6.side", "S6.sync", "S6.clear"}
RollbackSteps == {"rb.db", "rb.side", "rb.sync"}
Steps == CopySteps \cup ConvertSteps \cup SwapSteps \cup FinishSteps \cup RollbackSteps
Pcs == Steps \cup {"locked", "session", "open", "resume", "branch3", "readback", "offer"}

TypeOK ==
    /\ DiskTypeOK
    /\ pc \in Pcs /\ via \in Routes /\ told \in Told
    /\ dek \in Key /\ hand \in Key
    /\ notice \in BOOLEAN /\ failed \in BOOLEAN
    /\ pw \in Nat /\ draws \in Nat
    /\ committed \subseteq Rows
    /\ spent \in [crashes : 0..MaxCrashes, faults : 0..MaxFaults,
                  damage : 0..MaxDamage, rekeys : 0..MaxRekeys]

(* A v1 vault in the field: a flat sidecar over a database keyed by the KEK, *)
(* possibly with a WAL left by a session that did not close cleanly.         *)
V1Vault(dbRows, walRows) ==
    [db |-> NewDb(Kek(0), dbRows),
     wal |-> IF walRows = {} THEN NoDb ELSE NewDb(Kek(0), walRows),
     side |-> V1Side(Kek(0)),
     mdb |-> NoDb, mwal |-> NoDb, mside |-> NoSide,
     pdb |-> NoDb, pside |-> NoSide]

Init ==
    /\ \E r, w \in SUBSET Rows : /\ fs = V1Vault(r, w)
                                 /\ committed = r \cup w
    /\ maybe = {fs}
    /\ pc = "locked" /\ via = "none" /\ told = "nothing"
    /\ dek = NoKey /\ hand = NoKey
    /\ notice = FALSE /\ failed = FALSE
    /\ pw = 0 /\ draws = 1
    /\ spent = [crashes |-> 0, faults |-> 0, damage |-> 0, rekeys |-> 0]

kek_master == Kek(pw)

-----------------------------------------------------------------------------
(* Moving the process.                                                       *)

Goto(l) == pc' = l /\ UNCHANGED <<via, dek, hand, told, notice, failed>>
GotoVia(l, v) == pc' = l /\ via' = v /\ UNCHANGED <<dek, hand, told, notice, failed>>

(* _open_with is next, with key k.                                           *)
OpenWithNext(k) == /\ pc' = "open" /\ hand' = k
                   /\ UNCHANGED <<via, dek, told, notice, failed>>

(* The unlock ends without a session; every key buffer is wiped.             *)
EndUnlock(what) == /\ pc' = "locked" /\ via' = "none" /\ dek' = NoKey /\ hand' = NoKey
                   /\ told' = what
                   /\ UNCHANGED <<notice, failed>>

(* Where an exception raised inside the running migration lands, given the  *)
(* version of the live sidecar: _unlock_v1's handler re-opens an unswapped  *)
(* vault (and says so) or enters the ladder; resume lets it propagate.      *)
Raise(sideVer) ==
    \/ /\ via = "v1" /\ sideVer = 1
       /\ pc' = "open" /\ hand' = kek_master /\ failed' = TRUE /\ dek' = NoKey
       /\ UNCHANGED <<via, told, notice>>
    \/ /\ via = "v1" /\ sideVer = 2
       /\ pc' = "resume" /\ via' = "none" /\ dek' = fs.side.dek
       /\ UNCHANGED <<hand, told, notice, failed>>
    \/ /\ via \notin {"v1"}
       /\ EndUnlock("error")

Same == UNCHANGED <<user, spent>>
NoDisk == UNCHANGED disk

(* The last connection to the live database, opened under k, closes.         *)
CloseLive(k) == LET Op(d) == FoldLive(d, k) IN Change(Op)

-----------------------------------------------------------------------------
(* complete_unlock                                                           *)

(* _unlock_v1: open proves the key and folds the WAL; a DatabaseError is     *)
(* reported as a wrong password.                                             *)
UnlockV1 ==
    /\ pc = "locked" /\ fs.side.ver = 1
    /\ IF Opens(fs.db, fs.wal, kek_master)
       THEN CloseLive(kek_master) /\ GotoVia("S0.db", "v1")
       ELSE NoDisk /\ EndUnlock("wrong")
    /\ Same

(* _unlock_through_slot with the master slot; the unwrap succeeds exactly    *)
(* when the slot was wrapped under this password's KEK.                      *)
UnlockMasterWithoutResume ==
    /\ pc = "locked" /\ fs.side.ver = 2
    /\ IF fs.side.kek # kek_master THEN EndUnlock("wrong") ELSE OpenWithNext(fs.side.dek)
    /\ NoDisk /\ Same
UnlockMaster ==
    /\ pc = "locked" /\ fs.side.ver = 2
    /\ IF fs.side.kek # kek_master THEN EndUnlock("wrong")
       ELSE IF fs.side.pending
            THEN /\ pc' = "resume" /\ dek' = fs.side.dek
                 /\ UNCHANGED <<via, hand, told, notice, failed>>
            ELSE OpenWithNext(fs.side.dek)
    /\ NoDisk /\ Same

(* complete_recovery_unlock: never enters the ladder.                        *)
UnlockRecovery ==
    /\ pc = "locked" /\ fs.side.ver = 2 /\ fs.side.rec
    /\ OpenWithNext(fs.side.dek)
    /\ NoDisk /\ Same

(* _open_with: the credential is already proven, so a refusal is a broken    *)
(* pairing, never a wrong password.  Opening converts nothing on disk here.  *)
OpenWith ==
    /\ pc = "open"
    /\ IF Opens(fs.db, fs.wal, hand)
       THEN /\ pc' = "session" /\ told' = "opened"
            /\ UNCHANGED <<via, dek, hand, notice, failed>>
       ELSE /\ pc' = "locked" /\ via' = "none" /\ dek' = NoKey /\ hand' = NoKey
            /\ told' = "broken" /\ failed' = FALSE /\ UNCHANGED notice
    /\ NoDisk /\ Same

-----------------------------------------------------------------------------
(* S0 - the rollback copy.  write_rollback_copy, then verify_rollback_copy.  *)

RemoveCopyDb(d) == [d EXCEPT !.pdb = TornDb]
WriteCopyDb(d) == [d EXCEPT !.pdb = fs.db]
RemoveCopySide(d) == [d EXCEPT !.pside = NoSide]
(* A byte copy at S0; the branch-3 retake rebuilds the v1 record from the    *)
(* master slot, because the live sidecar is no longer the pre-upgrade one.   *)
WriteCopySide(d) ==
    [d EXCEPT !.pside = IF via = "v1" THEN fs.side ELSE V1Side(fs.side.kek)]

S0CopyDbStart == pc = "S0.db" /\ Change(RemoveCopyDb) /\ Goto("S0.db.write") /\ Same
S0CopyDb == pc = "S0.db.write" /\ Change(WriteCopyDb) /\ Goto("S0.side") /\ Same
S0CopySideStart == pc = "S0.side" /\ Change(RemoveCopySide) /\ Goto("S0.side.write") /\ Same
S0CopySideUnflushed ==
    pc = "S0.side.write" /\ Change(WriteCopySide) /\ Goto("S0.verify") /\ Same
S0CopySide == pc = "S0.side.write" /\ ChangeAndSync(WriteCopySide) /\ Goto("S0.verify") /\ Same

(* verify_rollback_copy as a question (rollback_copy_is_usable).             *)
RollbackUsable(d, k) == d.pside.ver = 1 /\ ReadsEndToEnd(d.pdb, NoDb, k)

S0Verify ==
    /\ pc = "S0.verify" /\ NoDisk
    /\ IF ~RollbackUsable(fs, kek_master)
       THEN Raise(fs.side.ver) /\ UNCHANGED <<pw, committed, draws>>
       ELSE \/ /\ via = "v1"
               /\ dek' = Dek(draws) /\ draws' = draws + 1 /\ pc' = "S1"
               /\ UNCHANGED <<via, hand, told, notice, failed, pw, committed>>
            \/ via = "branch2" /\ Goto("S5") /\ UNCHANGED user
            \/ via = "branch3" /\ Goto("S1") /\ UNCHANGED user
    /\ UNCHANGED spent

-----------------------------------------------------------------------------
(* _convert, S1..S4                                                          *)

RemoveMigrating(d) == [d EXCEPT !.mdb = NoDb, !.mwal = NoDb]
CreateMigrating(d) == [d EXCEPT !.mdb = TornDb, !.mwal = NoDb]
WriteMigrating(d) == [d EXCEPT !.mdb = NewDb(dek, RowsOf(fs.db, fs.wal))]

(* S1: clear debris, open the live database for use (WAL mode) and let       *)
(* export_to create its target.                                              *)
StartExport(d) == [CreateMigrating(d) EXCEPT
                     !.wal = IF Exists(@) THEN @ ELSE NewDb(kek_master, {})]
S1Start ==
    /\ pc = "S1"
    /\ IF Opens(fs.db, fs.wal, kek_master)
       THEN Change(StartExport) /\ Goto("S1.export")
       ELSE Change(RemoveMigrating) /\ Raise(fs.side.ver)
    /\ Same

(* sqlcipher_export either carries every row or raises: over a damaged page  *)
(* it may do either, as the page may be one it never visits.  The finally    *)
(* closes the live database whichever way it went.                           *)
ExportDone(d) == FoldLive(WriteMigrating(d), kek_master)
S1Export ==
    /\ pc = "S1.export"
    /\ \/ Change(ExportDone) /\ Goto("S2")
       \/ fs.db.health = "page" /\ CloseLive(kek_master) /\ Raise(fs.side.ver)
    /\ Same

(* S2: opening the replacement for use puts it in WAL mode.                  *)
OpenReplacement(d) == [d EXCEPT !.mwal = NewDb(dek, {})]
CloseReplacement(d) == [d EXCEPT !.mwal = NoDb]

S2Open == /\ pc = "S2"
          /\ IF Opens(fs.mdb, fs.mwal, dek)
             THEN Change(OpenReplacement) /\ Goto("S2.check")
             ELSE Change(RemoveMigrating) /\ Raise(fs.side.ver)
          /\ Same

S2Check ==
    /\ pc = "S2.check"
    /\ IF /\ ReadsEndToEnd(fs.mdb, fs.mwal, dek)
          /\ RowCounts(fs.mdb, fs.mwal) = RowCounts(fs.db, fs.wal)
       THEN Change(CloseReplacement) /\ Goto("S3")
       ELSE Change(RemoveMigrating) /\ Raise(fs.side.ver)
    /\ Same

(* S3: the new key record, written beside the live one and flushed.          *)
WriteNewSidecarNotPending(d) == [d EXCEPT !.mside = V2Side(kek_master, dek, FALSE)]
WriteNewSidecar(d) == [d EXCEPT !.mside = V2Side(kek_master, dek, TRUE)]
S3 == pc = "S3" /\ ChangeAndSync(WriteNewSidecar) /\ Goto("S4") /\ Same

(* S4: it replaces the live one, durably, before S5 may begin.               *)
SwapSidecar(d) == [d EXCEPT !.side = fs.mside, !.mside = NoSide]
S4Unflushed == pc = "S4" /\ Change(SwapSidecar) /\ Goto("S5") /\ Same
S4 == pc = "S4" /\ ChangeAndSync(SwapSidecar) /\ Goto("S5") /\ Same

-----------------------------------------------------------------------------
(* _swap_database (S5) and _finish (S6)                                      *)

DropWals(d) == [d EXCEPT !.wal = NoDb, !.mwal = NoDb]
SwapDb(d) == [d EXCEPT !.db = fs.mdb, !.mdb = NoDb]

S5Drop == pc = "S5" /\ Change(DropWals) /\ Goto("S5.swap") /\ Same
S5Swap == pc = "S5.swap" /\ Change(SwapDb) /\ Goto("S5.sync") /\ Same
S5Sync == /\ pc = "S5.sync" /\ fsync_dir
          /\ Goto(IF via = "branch2" THEN "readback" ELSE "S6")
          /\ Same

(* S6: the rollback pair goes first, then migration_pending is cleared - the *)
(* flag is the only thing that brings anything back here.                    *)
BurnCopyDb(d) == [d EXCEPT !.pdb = NoDb]
BurnCopySide(d) == [d EXCEPT !.pside = NoSide]
ClearPending(d) == [d EXCEPT !.side.pending = FALSE]

S6Db == pc = "S6" /\ Change(BurnCopyDb) /\ Goto("S6.side") /\ Same
S6Side == pc = "S6.side" /\ Change(BurnCopySide) /\ Goto("S6.sync") /\ Same
S6Sync == pc = "S6.sync" /\ fsync_dir /\ Goto("S6.clear") /\ Same

(* The unlock then opens with the DEK; only the v1 route raises the notice.  *)
S6Clear ==
    /\ pc = "S6.clear" /\ ChangeAndSync(ClearPending)
    /\ pc' = "open" /\ hand' = dek
    /\ notice' = (notice \/ via = "v1")
    /\ UNCHANGED <<via, dek, told, failed>>
    /\ Same

-----------------------------------------------------------------------------
(* resume - the ladder an unlock climbs while migration_pending is set.      *)

(* Every branch that gives up with a verified .pre-v2 pair beside it says    *)
(* so; otherwise it reports the broken pairing.                              *)
OfferOrBroken ==
    IF RollbackUsable(fs, kek_master)
    THEN pc' = "offer" /\ told' = "offer" /\ UNCHANGED <<via, dek, hand, notice, failed>>
    ELSE EndUnlock("broken")

(* _finish_if_readable: S6 only over a database that reads; otherwise keep   *)
(* the copy and offer it, or open what there is.                             *)
FinishOrStayQuiet(d) ==
    IF ReadsEndToEnd(d.db, d.wal, dek)
    THEN pc' = "S6" /\ UNCHANGED <<dek, hand, told, notice, failed>>
    ELSE pc' = "open" /\ hand' = dek /\ UNCHANGED <<dek, told, notice, failed>>
FinishIfReadable(d) ==
    IF ReadsEndToEnd(d.db, d.wal, dek)
    THEN pc' = "S6" /\ UNCHANGED <<dek, hand, told, notice, failed>>
    ELSE IF RollbackUsable(d, kek_master)
         THEN pc' = "offer" /\ told' = "offer" /\ UNCHANGED <<dek, hand, notice, failed>>
         ELSE pc' = "open" /\ hand' = dek /\ UNCHANGED <<dek, told, notice, failed>>

(* Branch 1 - the DEK opens the live database: the crash was after S5.       *)
ResumeBranch1 ==
    /\ pc = "resume" /\ Opens(fs.db, fs.wal, dek)
    /\ CloseLive(dek)
    /\ FinishIfReadable(fs) /\ via' = "branch1"
    /\ Same

(* Whether row_counts answers.  A count over a damaged file may, as it need  *)
(* not visit the damaged page.                                               *)
CountsAnswered(db, wal, k) ==
    {b \in BOOLEAN : /\ b => Opens(db, wal, k)
                     /\ ReadsEndToEnd(db, wal, k) => b}

(* _replacement_verdict: S2's two checks, asked again.                       *)
VerdictsTwoValued ==
    IF /\ ReadsEndToEnd(fs.mdb, fs.mwal, dek)
       /\ TRUE \in CountsAnswered(fs.db, fs.wal, kek_master)
       /\ RowCounts(fs.mdb, fs.mwal) = RowCounts(fs.db, fs.wal)
    THEN {"sound", "unsound"} ELSE {"unsound"}
Verdicts ==
    IF ~ReadsEndToEnd(fs.mdb, fs.mwal, dek) THEN {"unsound"}
    ELSE {IF ~answered THEN "uncomparable"
          ELSE IF RowCounts(fs.mdb, fs.mwal) = RowCounts(fs.db, fs.wal)
               THEN "sound" ELSE "unsound" :
          answered \in CountsAnswered(fs.db, fs.wal, kek_master)}

(* Its probes close what they open.                                          *)
CloseProbes(d) == FoldMigrating(FoldLive(d, kek_master), dek)
DiscardReplacement(d) == RemoveMigrating(FoldLive(d, kek_master))

(* _ensure_rollback_copy: reuse a copy that verifies, else retake it.        *)
EnsureRollbackCopy(next, v) ==
    GotoVia(IF RollbackUsable(fs, kek_master) THEN next ELSE "S0.db", v)

(* Branch 2 - a replacement is there: compare it before swapping it in.      *)
(* Only positive evidence against it discards it.                            *)
ResumeBranch2 ==
    /\ pc = "resume" /\ ~Opens(fs.db, fs.wal, dek) /\ Exists(fs.mdb)
    /\ \/ /\ "sound" \in Verdicts /\ Change(CloseProbes)
          /\ EnsureRollbackCopy("S5", "branch2")
       \/ /\ "uncomparable" \in Verdicts /\ Change(CloseProbes)
          /\ OfferOrBroken
       \/ /\ "unsound" \in Verdicts /\ Change(DiscardReplacement)
          /\ Goto("branch3")
    /\ Same

ResumeNoReplacement ==
    /\ pc = "resume" /\ ~Opens(fs.db, fs.wal, dek) /\ ~Exists(fs.mdb)
    /\ NoDisk /\ Goto("branch3") /\ Same

(* Branch 3 - the KEK opens it, so it is still the v1 database: restart from *)
(* S1 with the DEK the pending sidecar already wraps.                        *)
ResumeBranch3 ==
    /\ pc = "branch3"
    /\ IF Opens(fs.db, fs.wal, kek_master)
       THEN CloseLive(kek_master) /\ EnsureRollbackCopy("S1", "branch3")
       ELSE NoDisk /\ OfferOrBroken
    /\ Same

(* After branch 2's swap.                                                    *)
ReadBack == /\ pc = "readback" /\ NoDisk
            /\ FinishIfReadable(fs) /\ UNCHANGED via
            /\ Same

-----------------------------------------------------------------------------
(* restore_rollback_copy - the owner accepts the offer.                      *)

DropLiveWal(d) == [d EXCEPT !.wal = NoDb]
RestoreDb(d) == [d EXCEPT !.db = fs.pdb, !.pdb = NoDb]
RestoreSide(d) == [d EXCEPT !.side = fs.pside, !.pside = NoSide]

AcceptRollback == pc = "offer" /\ Change(DropLiveWal) /\ Goto("rb.db") /\ Same
DeclineRollback == pc = "offer" /\ NoDisk /\ EndUnlock("offer") /\ Same
(* The owner gives up whatever was written since the copy was taken.         *)
RollbackDb == /\ pc = "rb.db" /\ Change(RestoreDb) /\ Goto("rb.side")
              /\ committed' = fs.pdb.rows
              /\ UNCHANGED <<pw, draws, spent>>
RollbackSide == pc = "rb.side" /\ Change(RestoreSide) /\ Goto("rb.sync") /\ Same
RollbackSync == pc = "rb.sync" /\ fsync_dir /\ EndUnlock("nothing") /\ Same

-----------------------------------------------------------------------------
(* The session.                                                              *)

AppendWal(d, r) == [d EXCEPT !.wal = NewDb(hand, @.rows \cup {r})]

Write(r) ==
    /\ pc = "session" /\ r \notin committed
    /\ LET Op(d) == AppendWal(d, r)
       IN  IF Exists(fs.wal) THEN InPlace(Op) ELSE ChangeAndSync(Op)
    /\ committed' = committed \cup {r}
    /\ UNCHANGED <<proc, pw, draws, spent>>

(* lock: manual, idle timeout or quit.  Notices are consumed by the shell.   *)
Lock ==
    /\ pc = "session" /\ CloseLive(hand)
    /\ pc' = "locked" /\ via' = "none" /\ dek' = NoKey /\ hand' = NoKey
    /\ told' = "nothing" /\ notice' = FALSE /\ failed' = FALSE
    /\ Same

Rekey(k, r) == [fs.side EXCEPT !.kek = k, !.rec = r]

(* _write_slot(master): a fresh salt, the same DEK.  Refused on a v1 vault.  *)
SetMasterPassword ==
    /\ pc = "session" /\ fs.side.ver = 2 /\ spent.rekeys < MaxRekeys
    /\ LET Op(d) == [d EXCEPT !.side = Rekey(Kek(draws), fs.side.rec)] IN ChangeAndSync(Op)
    /\ pw' = draws /\ draws' = draws + 1
    /\ spent' = [spent EXCEPT !.rekeys = @ + 1]
    /\ UNCHANGED <<proc, committed>>

(* _write_slot(recovery) and remove_recovery_key.                            *)
SetRecoverySlot(r) ==
    /\ pc = "session" /\ fs.side.ver = 2 /\ spent.rekeys < MaxRekeys
    /\ r # fs.side.rec
    /\ LET Op(d) == [d EXCEPT !.side = Rekey(fs.side.kek, r)] IN ChangeAndSync(Op)
    /\ spent' = [spent EXCEPT !.rekeys = @ + 1]
    /\ UNCHANGED <<proc, user>>

-----------------------------------------------------------------------------
(* What goes wrong.                                                          *)

(* The steps that may raise OSError (disk full, a held file); fsync_dir      *)
(* swallows its own.                                                         *)
FaultSteps == Steps \ {"S5.sync", "S6.sync", "rb.sync"}

(* An OSError in the step about to run.  S1 closes the live database and S2  *)
(* cleans up after itself; S6 on the resume path is absorbed                 *)
(* (_finish_quietly); the rest propagates.                                   *)
Fault ==
    /\ pc \in FaultSteps /\ spent.faults < MaxFaults
    /\ IF pc = "S1.export" THEN CloseLive(kek_master)
       ELSE IF pc \in {"S2", "S2.check"} THEN Change(RemoveMigrating)
       ELSE NoDisk
    /\ IF pc \in FinishSteps /\ via \in {"branch1", "branch2"}
       THEN OpenWithNext(dek)
       ELSE Raise(fs.side.ver)
    /\ spent' = [spent EXCEPT !.faults = @ + 1]
    /\ UNCHANGED user

Crash ==
    /\ pc # "locked" /\ spent.crashes < MaxCrashes
    /\ \E d \in maybe : AfterCrash(d) /\ fs' = d /\ maybe' = {d}
    /\ pc' = "locked" /\ via' = "none" /\ dek' = NoKey /\ hand' = NoKey
    /\ told' = "nothing" /\ notice' = FALSE /\ failed' = FALSE
    /\ spent' = [spent EXCEPT !.crashes = @ + 1]
    /\ UNCHANGED user

(* A page of a file rots while the vault lies locked.                        *)
Rotted(f) == IF f.health = "ok" THEN [f EXCEPT !.health = "page"] ELSE f
RotDb(d) == [d EXCEPT !.db = Rotted(d.db)]
RotMigrating(d) == [d EXCEPT !.mdb = Rotted(d.mdb)]
RotCopy(d) == [d EXCEPT !.pdb = Rotted(d.pdb)]

Damage ==
    /\ pc = "locked" /\ spent.damage < MaxDamage
    /\ \/ fs.db.health = "ok" /\ InPlace(RotDb)
       \/ fs.mdb.health = "ok" /\ InPlace(RotMigrating)
       \/ fs.pdb.health = "ok" /\ InPlace(RotCopy)
    /\ spent' = [spent EXCEPT !.damage = @ + 1]
    /\ UNCHANGED <<proc, user>>

-----------------------------------------------------------------------------
Unlock == UnlockV1 \/ UnlockMaster
S0 == S0CopyDbStart \/ S0CopyDb \/ S0CopySideStart \/ S0CopySide \/ S0Verify
Convert == S1Start \/ S1Export \/ S2Open \/ S2Check \/ S3 \/ S4
SwapAndFinish == S5Drop \/ S5Swap \/ S5Sync \/ S6Db \/ S6Side \/ S6Sync \/ S6Clear
Resume == \/ ResumeBranch1 \/ ResumeBranch2 \/ ResumeNoReplacement
          \/ ResumeBranch3 \/ ReadBack
Rollback == RollbackDb \/ RollbackSide \/ RollbackSync
Answer == AcceptRollback \/ DeclineRollback
Migrate == OpenWith \/ S0 \/ Convert \/ SwapAndFinish \/ Resume \/ Rollback
Session == \/ \E r \in Rows : Write(r)
           \/ Lock \/ SetMasterPassword
           \/ \E r \in BOOLEAN : SetRecoverySlot(r)
Failure == Fault \/ Crash \/ Damage

Next == Unlock \/ UnlockRecovery \/ Migrate \/ Answer \/ Session \/ Failure

Spec == Init /\ [][Next]_vars

(* The process runs what it has started; the idle timer locks a session; the *)
(* owner answers an offer and keeps coming back with the master password.    *)
Fairness == WF_vars(Migrate) /\ WF_vars(Answer) /\ WF_vars(Lock) /\ SF_vars(Unlock)
FairSpec == Spec /\ Fairness

-----------------------------------------------------------------------------
(* Correctness.                                                              *)

(* The pair in image d is the v1 vault of this password, the finished v2     *)
(* vault, or one the ladder can finish.                                      *)
PairOpens(d) ==
    \/ /\ d.side = V1Side(kek_master)
       /\ ReadsEndToEnd(d.db, d.wal, kek_master)
    \/ /\ d.side.ver = 2 /\ d.side.kek = kek_master
       /\ ReadsEndToEnd(d.db, d.wal, d.side.dek)
    \/ /\ d.side.ver = 2 /\ d.side.kek = kek_master /\ d.side.pending
       /\ ReadsEndToEnd(d.db, d.wal, kek_master)

(* INV-7: at every instant, whatever a power loss makes of the directory,    *)
(* the pre- or the post-migration pair is there, the owner's password opens  *)
(* it, and it holds every row ever committed.                                *)
VaultOpens ==
    \A d \in maybe : PairOpens(d) /\ RowsOf(d.db, d.wal) = committed

(* Section 6: the right password is never called wrong, and over undamaged   *)
(* files never meets a broken pairing or an offer to go back.                *)
RightPasswordNeverRefused == told \notin {"wrong", "broken", "offer"}

(* The weaker promise that survives damage: never called wrong.              *)
NeverCalledWrong == told # "wrong"

(* A migration that has cleared migration_pending has left no pre-upgrade    *)
(* copy and no half-made replacement for a power loss to bring back          *)
(* (FIBR-0310 R8: nothing would ever return to remove it).                   *)
NoArtefactAfterCompletion ==
    \A d \in maybe : (d.side.ver = 2 /\ ~d.side.pending) =>
        /\ ~Exists(d.pdb) /\ d.pside = NoSide
        /\ ~Exists(d.mdb) /\ d.mside = NoSide

(* FIBR-0313 C1: damage is called neither a wrong password nor nothing:      *)
(* nobody is let into a damaged vault by the ladder while a usable           *)
(* pre-upgrade copy sits beside it unmentioned.                              *)
DamageIsOffered ==
    /\ NeverCalledWrong
    /\ (pc = "session" /\ via \in {"branch1", "branch2"} /\ fs.db.health = "page")
        => ~RollbackUsable(fs, kek_master)

(* A usable copy of everything committed, in every image.                    *)
RollbackSecured == \A d \in maybe : RollbackUsable(d, kek_master) /\ d.pdb.rows = committed

(* INV-13: the migration moves no byte of the live pair - not S1's opening   *)
(* of the database for use, not S4's sidecar, not S5's database - before a   *)
(* verified copy of it exists durably.                                       *)
RollbackBeforeSwap ==
    (pc \in ConvertSteps \cup SwapSteps
            /\ <<fs'.db, fs'.wal, fs'.side>> # <<fs.db, fs.wal, fs.side>>)
       => RollbackSecured

(* The pre-upgrade copy is durable before anything it stands for is touched, *)
(* and gone once nothing would ever come back for it.                        *)
CopyOutlivesItsUse == [][RollbackBeforeSwap /\ NoArtefactAfterCompletion']_vars

(* FIBR-0310 P6: S6 removes the copy only over a database that reads end to  *)
(* end under the key its sidecar wraps, in every image.                      *)
CopyBurnedOnlyWhenReadable ==
    (pc \in FinishSteps /\ RollbackUsable(fs, kek_master)
            /\ ~RollbackUsable(fs', kek_master))
       => \A d \in maybe : ReadsEndToEnd(d.db, d.wal, d.side.dek)

(* FIBR-0337 H1: the ladder never discards a complete replacement while the  *)
(* live database it was made from does not read: that may be the one         *)
(* complete copy of the rows.                                                *)
NeverDropsTheOnlyCopy ==
    (pc \in {"resume", "branch3", "S1"} /\ fs.side.ver = 2
            /\ ReadsEndToEnd(fs.mdb, fs.mwal, dek) /\ fs'.mdb # fs.mdb)
       => ReadsEndToEnd(fs.db, fs.wal, kek_master)

(* Neither of the two files that can each be the only whole vault left is    *)
(* removed before the other one reads.                                       *)
NeverBurnsTheOnlyCopy == [][CopyBurnedOnlyWhenReadable /\ NeverDropsTheOnlyCopy]_vars

(* D2: once crashes, faults and damage stop, the vault ends up converted     *)
(* with nothing left over, and stays so.                                     *)
Converted == /\ fs.side.ver = 2 /\ ~fs.side.pending
             /\ fs.db.key = fs.side.dek
             /\ ~Exists(fs.pdb) /\ ~Exists(fs.mdb)
MigrationCompletes == <>[]Converted
=============================================================================
