-------------------------- MODULE VaultMigrationProofs --------------------------
(***************************************************************************)
(* INV-7 for every set of rows, any number of crashes, power losses, disk   *)
(* errors and password changes: while no file rots (NoDamage), the owner's  *)
(* password always opens a vault that holds everything committed, is never  *)
(* refused, and the pre-upgrade copy is there while it is needed and gone   *)
(* when it is not.                                                          *)
(*                                                                          *)
(* And when any number of files rot, as long as a crash is a killed process *)
(* and not a power loss (EntriesSurvive): damage is never called a wrong    *)
(* password nor passed over in silence beside a usable copy, and neither    *)
(* spare is removed while it may be the only whole vault left.              *)
(***************************************************************************)
EXTENDS VaultMigration, TLAPS

NoDamage == MaxDamage = 0

-----------------------------------------------------------------------------
(* The inductive invariant.                                                  *)

IsDek(k) == k[1] = "dek"

(* In image d the live database is whole and its WAL belongs to it.          *)
LiveWhole(d) == /\ d.db.health = "ok"
                /\ IF Exists(d.wal) THEN d.wal.key = d.db.key ELSE d.wal = NoDb
                /\ RowsOf(d.db, d.wal) = committed

(* Image d is one rename short of the v2 vault.                              *)
Swappable(d) == /\ d.side.pending
                /\ d.db.key = kek_master
                /\ d.wal = NoDb
                /\ d.mdb = NewDb(d.side.dek, committed)
                /\ d.mwal = NoDb

(* The sidecar belongs to the password, and the database to the sidecar.     *)
Paired(d) ==
    \/ /\ d.side = V1Side(kek_master)
       /\ d.db.key = kek_master
    \/ /\ d.side.ver = 2
       /\ d.side.kek = kek_master
       /\ IsDek(d.side.dek)
       /\ \/ d.db.key = d.side.dek
          \/ Swappable(d) /\ ~d.side.rec

(* A sidecar is only ever replaced durably; a database rename is pending     *)
(* only between S5's rename and its flush.                                   *)
Agrees(d) == /\ d.side = fs.side
             /\ pc # "S5.sync" => d.db.key = fs.db.key

GoodImage(d) == LiveWhole(d) /\ Paired(d) /\ Agrees(d)

(* The ladder is running with the key its sidecar wraps.                     *)
HoldsDek == fs.side.ver = 2 /\ fs.side.pending /\ dek = fs.side.dek

Unreached == {"branch3", "offer"} \cup RollbackSteps

(* What the running step may rely on.                                        *)
Phase ==
    /\ pc \notin Unreached
    /\ pc \in CopySteps =>
          \/ via = "v1" /\ fs.side.ver = 1
          \/ via = "branch2" /\ HoldsDek /\ fs.db.key = kek_master
    /\ pc \in ConvertSteps => via = "v1" /\ fs.side.ver = 1 /\ IsDek(dek)
    /\ pc \in {"S1.export", "S2", "S3", "S4"} => fs.mwal = NoDb
    /\ pc = "S2.check" => fs.mwal = NewDb(dek, {})
    /\ pc \in {"S2", "S2.check", "S3", "S4"} =>
          fs.mdb = NewDb(dek, committed) /\ fs.wal = NoDb
    /\ pc = "S4" => fs.mside = V2Side(kek_master, dek, TRUE)
    /\ pc \in {"S5", "S5.swap"} => HoldsDek /\ fs.db.key = kek_master
    /\ pc \in {"S5.sync", "readback"} \cup FinishSteps => HoldsDek /\ fs.db.key = dek
    /\ pc = "resume" => HoldsDek
    /\ pc \in {"open", "session"} => /\ hand = fs.db.key
                                     /\ fs.side.ver = 2 => fs.db.key = fs.side.dek

IInv ==
    /\ TypeOK
    /\ \A d \in maybe : GoodImage(d)
    /\ Phase
    /\ told \notin {"wrong", "broken", "offer"}

-----------------------------------------------------------------------------
(* Types.                                                                    *)

(* The keys, files and sidecars the steps build are of their types.          *)
LEMMA BuiltTypes ==
    /\ NoDb \in DbFile /\ TornDb \in DbFile
    /\ NoSide \in Sidecar
    /\ NoKey \in Key
    /\ \A n \in Nat : Kek(n) \in Key /\ Dek(n) \in Key
    /\ \A k \in Key, R \in SUBSET Rows : NewDb(k, R) \in DbFile
    /\ \A k \in Key : V1Side(k) \in Sidecar
    /\ \A k, m \in Key, b \in BOOLEAN : V2Side(k, m, b) \in Sidecar
  BY DEF NoDb, TornDb, NoSide, NoKey, Kek, Dek, NewDb, V1Side, V2Side, DbFile,
         Sidecar, Key, Health

(* Replacing a part of an image by one of its type yields an image.          *)
LEMMA ImageParts ==
    ASSUME NEW d \in Image
    PROVE  /\ d.db \in DbFile /\ d.wal \in DbFile /\ d.side \in Sidecar
           /\ d.mdb \in DbFile /\ d.mwal \in DbFile /\ d.mside \in Sidecar
           /\ d.pdb \in DbFile /\ d.pside \in Sidecar
  BY DEF Image

(* Folding a WAL keeps the types.                                            *)
LEMMA FoldTypes ==
    ASSUME NEW db \in DbFile, NEW wal \in DbFile, NEW k \in Key
    PROVE  Folded(db, wal, k) \in DbFile /\ FoldedWal(db, wal, k) \in DbFile
  BY BuiltTypes DEF Folded, FoldedWal, RowsOf, DbFile

(* Every operation on the directory maps images to images.                   *)
LEMMA OpTypes ==
    ASSUME TypeOK, NEW d \in Image
    PROVE  /\ RemoveCopyDb(d) \in Image /\ WriteCopyDb(d) \in Image
           /\ RemoveCopySide(d) \in Image /\ WriteCopySide(d) \in Image
           /\ RemoveMigrating(d) \in Image /\ StartExport(d) \in Image
           /\ ExportDone(d) \in Image
           /\ OpenReplacement(d) \in Image /\ CloseReplacement(d) \in Image
           /\ WriteNewSidecar(d) \in Image /\ SwapSidecar(d) \in Image
           /\ DropWals(d) \in Image /\ SwapDb(d) \in Image
           /\ BurnCopyDb(d) \in Image /\ BurnCopySide(d) \in Image
           /\ ClearPending(d) \in Image
           /\ CloseProbes(d) \in Image /\ DiscardReplacement(d) \in Image
           /\ DropLiveWal(d) \in Image /\ RestoreDb(d) \in Image
           /\ RestoreSide(d) \in Image
           /\ \A k \in Key : FoldLive(d, k) \in Image
           /\ \A r \in Rows : AppendWal(d, r) \in Image
           /\ \A k \in Key, r \in BOOLEAN : [d EXCEPT !.side = Rekey(k, r)] \in Image
  <1>1. fs \in Image BY DEF TypeOK, DiskTypeOK
  <1>2. dek \in Key /\ hand \in Key /\ kek_master \in Key
    BY BuiltTypes DEF TypeOK, kek_master
  <1>3. /\ RemoveCopyDb(d) \in Image /\ WriteCopyDb(d) \in Image
        /\ RemoveCopySide(d) \in Image
    BY <1>1, BuiltTypes, ImageParts DEF RemoveCopyDb, WriteCopyDb, RemoveCopySide, Image
  <1>4. WriteCopySide(d) \in Image
    <2>1. fs.side \in Sidecar /\ fs.side.kek \in Key BY <1>1 DEF Image, Sidecar
    <2>2. V1Side(fs.side.kek) \in Sidecar BY <2>1, BuiltTypes
    <2> QED BY <2>1, <2>2 DEF WriteCopySide, Image
  <1>5. RemoveMigrating(d) \in Image /\ CreateMigrating(d) \in Image
    BY BuiltTypes DEF RemoveMigrating, CreateMigrating, Image
  <1>6. StartExport(d) \in Image
    BY <1>2, <1>5, BuiltTypes DEF StartExport, Image
  <1>7. \A e \in Image, k \in Key : FoldLive(e, k) \in Image /\ FoldMigrating(e, k) \in Image
    BY FoldTypes DEF FoldLive, FoldMigrating, Image
  <1>8. ExportDone(d) \in Image
    <2>1. RowsOf(fs.db, fs.wal) \in SUBSET Rows BY <1>1 DEF Image, DbFile, RowsOf
    <2>2. WriteMigrating(d) \in Image BY <1>2, <2>1, BuiltTypes DEF WriteMigrating, Image
    <2> QED BY <1>2, <1>7, <2>2 DEF ExportDone
  <1>9. /\ OpenReplacement(d) \in Image /\ CloseReplacement(d) \in Image
        /\ DropWals(d) \in Image /\ DropLiveWal(d) \in Image
        /\ BurnCopyDb(d) \in Image /\ BurnCopySide(d) \in Image
    BY <1>2, BuiltTypes DEF OpenReplacement, CloseReplacement, DropWals, DropLiveWal,
                            BurnCopyDb, BurnCopySide, Image
  <1>10. WriteNewSidecar(d) \in Image
    BY <1>2, BuiltTypes DEF WriteNewSidecar, Image
  <1>11. /\ SwapSidecar(d) \in Image /\ SwapDb(d) \in Image
         /\ RestoreDb(d) \in Image /\ RestoreSide(d) \in Image
    BY <1>1, BuiltTypes DEF SwapSidecar, SwapDb, RestoreDb, RestoreSide, Image
  <1>12. ClearPending(d) \in Image
    BY DEF ClearPending, Image, Sidecar
  <1>13. CloseProbes(d) \in Image
    BY <1>2, <1>7 DEF CloseProbes
  <1>14. DiscardReplacement(d) \in Image
    BY <1>2, <1>7, BuiltTypes DEF DiscardReplacement, RemoveMigrating, Image
  <1>15. \A r \in Rows : AppendWal(d, r) \in Image
    <2> TAKE r \in Rows
    <2>1. d.wal.rows \cup {r} \in SUBSET Rows BY DEF Image, DbFile
    <2>2. NewDb(hand, d.wal.rows \cup {r}) \in DbFile BY <1>2, <2>1, BuiltTypes
    <2> QED BY <2>2 DEF AppendWal, Image
  <1>16. \A k \in Key, r \in BOOLEAN : [d EXCEPT !.side = Rekey(k, r)] \in Image
    BY <1>1 DEF Rekey, Image, Sidecar
  <1> QED
    BY <1>2, <1>3, <1>4, <1>5, <1>6, <1>7, <1>8, <1>9, <1>10, <1>11, <1>12, <1>13, <1>14,
       <1>15, <1>16

(* What a step does to the process's own variables is of their types.        *)
ProcTypeOK == /\ pc \in Pcs /\ via \in Routes /\ told \in Told
              /\ dek \in Key /\ hand \in Key
              /\ notice \in BOOLEAN /\ failed \in BOOLEAN
UserTypeOK == pw \in Nat /\ draws \in Nat /\ committed \subseteq Rows
SpentTypeOK == spent \in [crashes : 0..MaxCrashes, faults : 0..MaxFaults,
                          damage : 0..MaxDamage, rekeys : 0..MaxRekeys]

(* Every step keeps the directory's two views typed, and the process's view  *)
(* among the images a power loss may leave.                                  *)
LEMMA DiskTypeStep ==
    ASSUME TypeOK, Next
    PROVE  DiskTypeOK'
  <1> USE OpTypes DEF DiskTypeOK
  <1>1. fs \in Image /\ maybe \subseteq Image /\ fs \in maybe BY DEF TypeOK
  <1>2. kek_master \in Key /\ dek \in Key /\ hand \in Key
    BY BuiltTypes DEF TypeOK, kek_master
  <1>3. ASSUME NEW k \in Key, CloseLive(k) PROVE DiskTypeOK'
    BY <1>1, <1>3 DEF CloseLive, Change
  <1>4. CASE NoDisk BY <1>1, <1>4 DEF NoDisk, disk
  <1>5. CASE Unlock
    BY <1>2, <1>3, <1>4, <1>5 DEF Unlock, UnlockV1, UnlockMaster
  <1>6. CASE UnlockRecovery BY <1>4, <1>6 DEF UnlockRecovery
  <1>7. CASE OpenWith BY <1>4, <1>7 DEF OpenWith
  <1>8. CASE S0
    BY <1>1, <1>4, <1>8 DEF S0, S0CopyDbStart, S0CopyDb, S0CopySideStart, S0CopySide, S0Verify,
                            Change, ChangeAndSync
  <1>9. CASE Convert
    <2>1. CASE S1Start BY <1>1, <2>1 DEF S1Start, Change
    <2>2. CASE S1Export BY <1>1, <1>2, <1>3, <2>2 DEF S1Export, Change
    <2>3. CASE S2Open BY <1>1, <2>3 DEF S2Open, Change
    <2>4. CASE S2Check BY <1>1, <2>4 DEF S2Check, Change
    <2>5. CASE S3 \/ S4 BY <1>1, <2>5 DEF S3, S4, ChangeAndSync
    <2> QED BY <1>9, <2>1, <2>2, <2>3, <2>4, <2>5 DEF Convert
  <1>10. CASE SwapAndFinish
    BY <1>1, <1>10 DEF SwapAndFinish, S5Drop, S5Swap, S5Sync, S6Db, S6Side, S6Sync, S6Clear,
                       Change, ChangeAndSync, fsync_dir
  <1>11. CASE Resume
    <2>1. CASE ResumeBranch1 BY <1>2, <1>3, <2>1 DEF ResumeBranch1
    <2>2. CASE ResumeBranch2 BY <1>1, <2>2 DEF ResumeBranch2, Change
    <2>3. CASE ResumeNoReplacement BY <1>4, <2>3 DEF ResumeNoReplacement
    <2>4. CASE ResumeBranch3 BY <1>2, <1>3, <1>4, <2>4 DEF ResumeBranch3
    <2>5. CASE ReadBack BY <1>4, <2>5 DEF ReadBack
    <2> QED BY <1>11, <2>1, <2>2, <2>3, <2>4, <2>5 DEF Resume
  <1>12. CASE Rollback
    BY <1>1, <1>12 DEF Rollback, RollbackDb, RollbackSide, RollbackSync, Change, fsync_dir
  <1>13. CASE Answer
    BY <1>1, <1>4, <1>13 DEF Answer, AcceptRollback, DeclineRollback, Change
  <1>14. CASE Session
    <2>1. ASSUME NEW r \in Rows, Write(r) PROVE DiskTypeOK'
      BY <1>1, <2>1 DEF Write, InPlace, ChangeAndSync
    <2>2. CASE Lock BY <1>2, <1>3, <2>2 DEF Lock
    <2>3. CASE SetMasterPassword
      <3>1. Kek(draws) \in Key /\ fs.side.rec \in BOOLEAN
        BY <1>1, BuiltTypes DEF TypeOK, Image, Sidecar
      <3> QED BY <1>1, <2>3, <3>1 DEF SetMasterPassword, ChangeAndSync
    <2>4. ASSUME NEW r \in BOOLEAN, SetRecoverySlot(r) PROVE DiskTypeOK'
      <3>1. fs.side.kek \in Key BY <1>1 DEF Image, Sidecar
      <3> QED BY <1>1, <2>4, <3>1 DEF SetRecoverySlot, ChangeAndSync
    <2> QED BY <1>14, <2>1, <2>2, <2>3, <2>4 DEF Session
  <1>15. CASE Fault
    BY <1>1, <1>2, <1>3, <1>4, <1>15 DEF Fault, Change
  <1>16. CASE Crash BY <1>1, <1>16 DEF Crash
  <1>17. CASE Damage
    <2>1. ASSUME NEW f \in DbFile PROVE Rotted(f) \in DbFile BY DEF Rotted, DbFile, Health
    <2>2. ASSUME NEW d \in Image
          PROVE  RotDb(d) \in Image /\ RotMigrating(d) \in Image /\ RotCopy(d) \in Image
      BY <2>1 DEF RotDb, RotMigrating, RotCopy, Image
    <2> QED BY <1>1, <1>17, <2>2 DEF Damage, InPlace
  <1> QED
    BY <1>5, <1>6, <1>7, <1>8, <1>9, <1>10, <1>11, <1>12, <1>13, <1>14, <1>15, <1>16, <1>17
       DEF Next, Migrate, Failure

(* Every step keeps the process's own variables typed.                       *)
LEMMA ProcTypeStep ==
    ASSUME TypeOK, Next
    PROVE  ProcTypeOK'
  <1> USE DEF ProcTypeOK, Pcs, Steps, CopySteps, ConvertSteps, SwapSteps, FinishSteps,
              RollbackSteps, Routes, Told
  <1>1. /\ ProcTypeOK /\ NoKey \in Key /\ kek_master \in Key /\ Dek(draws) \in Key
        /\ fs.side.dek \in Key
    BY BuiltTypes DEF TypeOK, kek_master, DiskTypeOK, Image, Sidecar
  <1>2. ASSUME NEW l \in Pcs, Goto(l) PROVE ProcTypeOK'
    BY <1>1, <1>2 DEF Goto
  <1>3. ASSUME NEW l \in Pcs, NEW v \in Routes, GotoVia(l, v) PROVE ProcTypeOK'
    BY <1>1, <1>3 DEF GotoVia
  <1>4. ASSUME NEW k \in Key, OpenWithNext(k) PROVE ProcTypeOK'
    BY <1>1, <1>4 DEF OpenWithNext
  <1>5. ASSUME NEW w \in Told, EndUnlock(w) PROVE ProcTypeOK'
    BY <1>1, <1>5 DEF EndUnlock
  <1>6. ASSUME NEW v, Raise(v) PROVE ProcTypeOK'
    BY <1>1, <1>5, <1>6 DEF Raise
  <1>7. CASE UNCHANGED proc BY <1>1, <1>7 DEF proc
  <1>8. CASE Unlock
    BY <1>1, <1>3, <1>4, <1>5, <1>8 DEF Unlock, UnlockV1, UnlockMaster
  <1>9. CASE UnlockRecovery BY <1>1, <1>4, <1>9 DEF UnlockRecovery
  <1>10. CASE OpenWith BY <1>1, <1>10 DEF OpenWith
  <1>11. CASE S0
    <2>1. CASE S0Verify BY <1>1, <1>2, <1>6, <2>1 DEF S0Verify
    <2> QED BY <1>2, <1>11, <2>1 DEF S0, S0CopyDbStart, S0CopyDb, S0CopySideStart, S0CopySide
  <1>12. CASE Convert
    BY <1>2, <1>6, <1>12 DEF Convert, S1Start, S1Export, S2Open, S2Check, S3, S4
  <1>13. CASE SwapAndFinish
    <2>1. CASE S6Clear BY <1>1, <2>1 DEF S6Clear
    <2> QED BY <1>2, <1>13, <2>1 DEF SwapAndFinish, S5Drop, S5Swap, S5Sync, S6Db, S6Side, S6Sync
  <1>14. CASE Resume
    <2>1. ASSUME NEW d, FinishIfReadable(d), via' \in Routes PROVE ProcTypeOK'
      BY <1>1, <2>1 DEF FinishIfReadable
    <2>2. CASE OfferOrBroken BY <1>1, <1>5, <2>2 DEF OfferOrBroken
    <2>3. ASSUME NEW l \in Pcs, NEW v \in Routes, EnsureRollbackCopy(l, v) PROVE ProcTypeOK'
      BY <1>1, <2>3 DEF EnsureRollbackCopy, GotoVia
    <2>4. CASE ResumeBranch1 BY <2>1, <2>4 DEF ResumeBranch1
    <2>5. CASE ResumeBranch2 BY <1>2, <2>2, <2>3, <2>5 DEF ResumeBranch2
    <2>6. CASE ResumeNoReplacement BY <1>2, <2>6 DEF ResumeNoReplacement
    <2>7. CASE ResumeBranch3 BY <2>2, <2>3, <2>7 DEF ResumeBranch3
    <2>8. CASE ReadBack BY <1>1, <2>1, <2>8 DEF ReadBack
    <2> QED BY <1>14, <2>4, <2>5, <2>6, <2>7, <2>8 DEF Resume
  <1>15. CASE Rollback
    BY <1>2, <1>5, <1>15 DEF Rollback, RollbackDb, RollbackSide, RollbackSync
  <1>16. CASE Answer BY <1>2, <1>5, <1>16 DEF Answer, AcceptRollback, DeclineRollback
  <1>17. CASE Session
    <2>1. CASE Lock BY <1>1, <2>1 DEF Lock
    <2> QED BY <1>7, <1>17, <2>1 DEF Session, Write, SetMasterPassword, SetRecoverySlot
  <1>18. CASE Fault BY <1>1, <1>4, <1>6, <1>18 DEF Fault
  <1>19. CASE Crash BY <1>1, <1>19 DEF Crash
  <1>20. CASE Damage BY <1>7, <1>20 DEF Damage
  <1> QED
    BY <1>8, <1>9, <1>10, <1>11, <1>12, <1>13, <1>14, <1>15, <1>16, <1>17, <1>18, <1>19, <1>20
       DEF Next, Migrate, Failure

(* Every step keeps the owner's variables and the bounds typed.              *)
LEMMA UserTypeStep ==
    ASSUME TypeOK, Next
    PROVE  UserTypeOK' /\ SpentTypeOK'
  <1>1. UserTypeOK /\ SpentTypeOK BY DEF TypeOK, UserTypeOK, SpentTypeOK
  <1>2. CASE Same BY <1>1, <1>2 DEF Same, user, UserTypeOK, SpentTypeOK
  <1>3. CASE S0Verify
    BY <1>1, <1>3 DEF S0Verify, user, UserTypeOK, SpentTypeOK
  <1>4. CASE RollbackDb
    <2>1. fs.pdb.rows \subseteq Rows BY DEF TypeOK, DiskTypeOK, Image, DbFile
    <2> QED BY <1>1, <1>4, <2>1 DEF RollbackDb, UserTypeOK, SpentTypeOK
  <1>5. CASE Session
    <2>1. ASSUME NEW r \in Rows, Write(r) PROVE UserTypeOK' /\ SpentTypeOK'
      BY <1>1, <2>1 DEF Write, UserTypeOK, SpentTypeOK
    <2>2. CASE SetMasterPassword
      BY <1>1, <2>2, BoundsAreNat DEF SetMasterPassword, UserTypeOK, SpentTypeOK
    <2>3. ASSUME NEW r \in BOOLEAN, SetRecoverySlot(r) PROVE UserTypeOK' /\ SpentTypeOK'
      BY <1>1, <2>3, BoundsAreNat DEF SetRecoverySlot, user, UserTypeOK, SpentTypeOK
    <2> QED BY <1>2, <1>5, <2>1, <2>2, <2>3 DEF Session, Lock
  <1>6. CASE Failure
    BY <1>1, <1>6, BoundsAreNat DEF Failure, Fault, Crash, Damage, user, UserTypeOK, SpentTypeOK
  <1>7. CASE Migrate
    BY <1>2, <1>3, <1>4, <1>7
       DEF Migrate, OpenWith, S0, S0CopyDbStart, S0CopyDb, S0CopySideStart, S0CopySide,
           Convert, S1Start, S1Export, S2Open, S2Check, S3, S4, SwapAndFinish, S5Drop, S5Swap,
           S5Sync, S6Db, S6Side, S6Sync, S6Clear, Resume, ResumeBranch1, ResumeBranch2,
           ResumeNoReplacement, ResumeBranch3, ReadBack, Rollback, RollbackSide, RollbackSync
  <1> QED
    BY <1>2, <1>5, <1>6, <1>7 DEF Next, Unlock, UnlockV1, UnlockMaster, UnlockRecovery, Answer,
                                  AcceptRollback, DeclineRollback

(* The initial states are typed.                                             *)
LEMMA InitType == Init => TypeOK
  <1> SUFFICES ASSUME Init PROVE TypeOK OBVIOUS
  <1>1. PICK r, w \in SUBSET Rows : fs = V1Vault(r, w) /\ committed = r \cup w BY DEF Init
  <1>2. V1Vault(r, w) \in Image
    BY BuiltTypes, 0 \in Nat DEF V1Vault, Image
  <1>3. SpentTypeOK BY BoundsAreNat DEF Init, SpentTypeOK
  <1>4. DiskTypeOK BY <1>1, <1>2 DEF Init, DiskTypeOK
  <1>5. UserTypeOK BY <1>1 DEF Init, UserTypeOK
  <1>6. ProcTypeOK BY BuiltTypes DEF Init, ProcTypeOK, Pcs, Routes, Told
  <1> QED BY <1>3, <1>4, <1>5, <1>6 DEF TypeOK, SpentTypeOK, UserTypeOK, ProcTypeOK

(* Every step of the migration, its resume ladder, its rollback and its      *)
(* failures keeps the types.                                                 *)
LEMMA TypeStep == TypeOK /\ [Next]_vars => TypeOK'
  <1> SUFFICES ASSUME TypeOK, [Next]_vars PROVE TypeOK' OBVIOUS
  <1>1. CASE Next
    BY <1>1, DiskTypeStep, ProcTypeStep, UserTypeStep
       DEF TypeOK, ProcTypeOK, UserTypeOK, SpentTypeOK
  <1>2. CASE UNCHANGED vars BY <1>2 DEF vars, TypeOK, DiskTypeOK
  <1> QED BY <1>1, <1>2

(* Type correctness, for every value of the constants.                       *)
THEOREM TypeCorrect == Spec => []TypeOK
  <1> QED BY InitType, TypeStep, PTL DEF Spec

-----------------------------------------------------------------------------
(* Images stay good.                                                         *)

(* e has d's live pair; past S4 it has d's replacement too.                  *)
SameLive(d, e) ==
    /\ e.db = d.db /\ e.wal = d.wal /\ e.side = d.side
    /\ d.side.ver = 1 \/ (e.mdb = d.mdb /\ e.mwal = d.mwal)

GoodDisk == \A d \in maybe : GoodImage(d)

(* No KEK is a DEK.                                                          *)
LEMMA KeysDiffer == ~IsDek(kek_master) /\ \A n : IsDek(Dek(n))
  BY DEF kek_master, Kek, Dek, IsDek

(* Under a v1 sidecar every image is the v1 vault of this password.          *)
LEMMA V1Images ==
    ASSUME GoodDisk, fs.side.ver = 1, NEW d \in maybe
    PROVE  d.side = V1Side(kek_master) /\ d.db.key = kek_master
  <1>1. Paired(d) /\ Agrees(d) BY DEF GoodDisk, GoodImage
  <1>2. d.side.ver = 1 BY <1>1 DEF Agrees
  <1>3. ~(d.side.ver = 2) BY <1>2
  <1> QED BY <1>1, <1>3 DEF Paired

(* Before S5's rename every image is one rename short.                       *)
LEMMA SwappableImages ==
    ASSUME GoodDisk, fs \in maybe, fs.side.ver = 2, fs.db.key = kek_master, pc # "S5.sync",
           NEW d \in maybe
    PROVE  Swappable(d) /\ ~d.side.rec /\ d.side = fs.side
  <1>1. Paired(d) /\ Agrees(d) BY DEF GoodDisk, GoodImage
  <1>2. d.side = fs.side /\ d.db.key = kek_master BY <1>1 DEF Agrees
  <1>3. ~(d.side = V1Side(kek_master)) BY <1>2 DEF V1Side
  <1>4. d.db.key # d.side.dek
    <2>1. IsDek(d.side.dek) BY <1>1, <1>3 DEF Paired
    <2> QED BY <1>2, <2>1, KeysDiffer
  <1> QED BY <1>1, <1>2, <1>3, <1>4 DEF Paired

(* A step that leaves the live pair alone keeps every image good.            *)
LEMMA Quiet ==
    ASSUME GoodDisk, UNCHANGED <<pw, committed>>, SameLive(fs, fs'),
           \A e \in maybe' : \E d \in maybe : SameLive(d, e),
           pc = "S5.sync" => pc' = "S5.sync"
    PROVE  GoodDisk'
  <1> SUFFICES ASSUME NEW e \in maybe' PROVE GoodImage(e)' BY DEF GoodDisk
  <1>1. PICK d \in maybe : SameLive(d, e) OBVIOUS
  <1>2. GoodImage(d) BY DEF GoodDisk
  <1>3. LiveWhole(e)' BY <1>1, <1>2 DEF SameLive, GoodImage, LiveWhole
  <1>4. Paired(e)'
    BY <1>1, <1>2 DEF SameLive, GoodImage, Paired, Swappable, kek_master, V1Side
  <1>5. Agrees(e)' BY <1>1, <1>2 DEF SameLive, GoodImage, Agrees
  <1> QED BY <1>3, <1>4, <1>5 DEF GoodImage

(* Closing a connection moves rows and nothing else.                         *)
LEMMA FoldFacts ==
    ASSUME NEW d \in Image, NEW k
    PROVE  /\ FoldLive(d, k).side = d.side /\ FoldLive(d, k).mdb = d.mdb
           /\ FoldLive(d, k).mwal = d.mwal
           /\ FoldLive(d, k).db.key = d.db.key /\ FoldLive(d, k).db.health = d.db.health
           /\ FoldLive(d, k).wal \in {d.wal, NoDb}
           /\ Exists(FoldLive(d, k).wal) => FoldLive(d, k).wal = d.wal
           /\ RowsOf(FoldLive(d, k).db, FoldLive(d, k).wal) = RowsOf(d.db, d.wal)
  BY DEF FoldLive, Folded, FoldedWal, RowsOf, Exists, NoDb, Image, DbFile

(* Closing a connection to the live database keeps every image good.         *)
LEMMA CloseLiveGood ==
    ASSUME TypeOK, GoodDisk, NEW k, CloseLive(k), UNCHANGED <<pw, committed>>,
           pc # "S5.sync"
    PROVE  GoodDisk'
  <1>1. ASSUME NEW d \in maybe
        PROVE  /\ FoldLive(d, k).side = d.side /\ FoldLive(d, k).mdb = d.mdb
               /\ FoldLive(d, k).mwal = d.mwal
               /\ FoldLive(d, k).db.key = d.db.key /\ FoldLive(d, k).db.health = d.db.health
               /\ FoldLive(d, k).wal \in {d.wal, NoDb}
               /\ Exists(FoldLive(d, k).wal) => FoldLive(d, k).wal = d.wal
               /\ RowsOf(FoldLive(d, k).db, FoldLive(d, k).wal) = RowsOf(d.db, d.wal)
    BY FoldFacts DEF TypeOK, DiskTypeOK
  <1>2. /\ fs' = FoldLive(fs, k)
        /\ \A e \in maybe' : e \in maybe \/ \E d \in maybe : e = FoldLive(d, k)
    BY DEF CloseLive, Change, TypeOK, DiskTypeOK
  <1>3. fs \in maybe BY DEF TypeOK, DiskTypeOK
  <1> SUFFICES ASSUME NEW e \in maybe' PROVE GoodImage(e)' BY DEF GoodDisk
  <1>4. PICK d \in maybe : e = d \/ e = FoldLive(d, k) BY <1>2
  <1>5. GoodImage(d) BY DEF GoodDisk
  <1>6. LiveWhole(e)' BY <1>1, <1>4, <1>5 DEF GoodImage, LiveWhole
  <1>7. Paired(e)'
    BY <1>1, <1>4, <1>5 DEF GoodImage, Paired, Swappable, kek_master
  <1>8. Agrees(e)' BY <1>1, <1>2, <1>3, <1>4, <1>5 DEF GoodImage, Agrees
  <1> QED BY <1>6, <1>7, <1>8 DEF GoodImage

(* Branch 2 finds the replacement sound: it reads, the live database answers *)
(* the count, and the counts agree.                                          *)
LEMMA AlwaysSound ==
    ASSUME IInv, pc = "resume", ~Opens(fs.db, fs.wal, dek)
    PROVE  /\ HoldsDek /\ fs.db.key = kek_master
           /\ Exists(fs.mdb) /\ Verdicts = {"sound"}
  <1>1. GoodDisk /\ GoodImage(fs) /\ fs \in maybe /\ HoldsDek
    BY DEF IInv, GoodDisk, TypeOK, DiskTypeOK, Phase
  <1>2. fs.db.key # dek
    BY <1>1 DEF GoodImage, LiveWhole, Opens
  <1>3. fs.db.key = kek_master
    BY <1>1, <1>2 DEF GoodImage, Paired, Swappable, HoldsDek, V1Side
  <1>4. Swappable(fs) BY <1>1, <1>3, SwappableImages DEF HoldsDek
  <1>5. Exists(fs.mdb) /\ ReadsEndToEnd(fs.mdb, fs.mwal, dek)
    BY <1>1, <1>4 DEF Swappable, HoldsDek, NewDb, NoDb, Exists, ReadsEndToEnd, Opens
  <1>6. ReadsEndToEnd(fs.db, fs.wal, kek_master)
    BY <1>1, <1>3 DEF GoodImage, LiveWhole, ReadsEndToEnd, Opens
  <1>7. RowsOf(fs.mdb, fs.mwal) = committed /\ RowsOf(fs.db, fs.wal) = committed
    BY <1>1, <1>4 DEF Swappable, GoodImage, LiveWhole, RowsOf, NewDb, NoDb
  <1>8. RowCounts(fs.mdb, fs.mwal) = RowCounts(fs.db, fs.wal) BY <1>7 DEF RowCounts
  <1>9. CountsAnswered(fs.db, fs.wal, kek_master) = {TRUE}
    BY <1>6 DEF CountsAnswered, ReadsEndToEnd
  <1> QED BY <1>1, <1>3, <1>5, <1>8, <1>9 DEF Verdicts

(* The disk while no file rots: every step keeps every image good.           *)
LEMMA GoodStep ==
    ASSUME NoDamage, IInv, Next
    PROVE  GoodDisk'
  <1>1. TypeOK /\ GoodDisk /\ Phase /\ fs \in maybe
    BY DEF IInv, GoodDisk, TypeOK, DiskTypeOK
  <1>2. \A d \in maybe : d \in Image BY DEF IInv, TypeOK, DiskTypeOK
  <1>3. GoodImage(fs) /\ fs \in Image BY <1>1, <1>2 DEF GoodDisk
  <1>4. pc \notin Unreached BY <1>1 DEF Phase
  <1>5. ASSUME NoDisk, UNCHANGED <<pw, committed>>, pc # "S5.sync" PROVE GoodDisk'
    BY <1>1, <1>5, Quiet DEF NoDisk, disk, SameLive
  <1>6. CASE Unlock
    BY <1>1, <1>5, <1>6, CloseLiveGood DEF Unlock, UnlockV1, UnlockMaster, Same, user
  <1>7. CASE UnlockRecovery BY <1>5, <1>7 DEF UnlockRecovery, Same, user
  <1>8. CASE OpenWith BY <1>5, <1>8 DEF OpenWith, Same, user
  <1>9. CASE S0
    <2>1. CASE S0Verify BY <1>5, <2>1 DEF S0Verify, user
    <2>2. ASSUME NEW d \in maybe
          PROVE  /\ SameLive(d, RemoveCopyDb(d)) /\ SameLive(d, WriteCopyDb(d))
                 /\ SameLive(d, RemoveCopySide(d)) /\ SameLive(d, WriteCopySide(d))
                 /\ SameLive(d, d)
      BY <1>2 DEF SameLive, RemoveCopyDb, WriteCopyDb, RemoveCopySide, WriteCopySide, Image
    <2>3. SameLive(fs, fs')
      BY <1>1, <1>9, <2>1, <2>2 DEF S0, S0CopyDbStart, S0CopyDb, S0CopySideStart, S0CopySide,
                              Change, ChangeAndSync, S0Verify, NoDisk, disk
    <2>4. CASE ~S0Verify
      <3>1. \A e \in maybe' : \E d \in maybe : SameLive(d, e)
        BY <1>1, <1>9, <2>2, <2>4 DEF S0, S0CopyDbStart, S0CopyDb, S0CopySideStart, S0CopySide,
                              Change, ChangeAndSync
      <3> QED BY <1>1, <1>9, <2>3, <2>4, <3>1, Quiet
              DEF S0, S0CopyDbStart, S0CopyDb, S0CopySideStart, S0CopySide, Same, user
    <2> QED BY <2>1, <2>4
  <1>10. ASSUME fs.side.ver = 1, UNCHANGED <<pw, committed>>, pc # "S5.sync",
                Change(RemoveMigrating) \/ Change(OpenReplacement) \/ Change(CloseReplacement)
         PROVE  GoodDisk'
    <2>1. \A d \in maybe : d.side.ver = 1 BY <1>1, <1>10 DEF GoodDisk, GoodImage, Agrees
    <2>2. ASSUME NEW d \in maybe
          PROVE  /\ SameLive(d, RemoveMigrating(d)) /\ SameLive(d, OpenReplacement(d))
                 /\ SameLive(d, CloseReplacement(d)) /\ SameLive(d, d)
      BY <1>2, <2>1 DEF SameLive, RemoveMigrating, OpenReplacement, CloseReplacement, Image
    <2> QED BY <1>1, <1>10, <2>2, Quiet DEF Change
  <1>11. CASE Convert
    <2>1. /\ fs.side.ver = 1 /\ IsDek(dek)
          /\ \A d \in maybe : d.side = V1Side(kek_master) /\ d.db.key = kek_master
      <3>1. pc \in ConvertSteps
        BY <1>11 DEF Convert, S1Start, S1Export, S2Open, S2Check, S3, S4, ConvertSteps
      <3>2. fs.side.ver = 1 /\ IsDek(dek) BY <1>1, <3>1 DEF Phase
      <3> QED BY <1>1, <3>2, V1Images
    <2>2. CASE S1Start
      <3>2. CASE Change(RemoveMigrating) BY <1>10, <2>1, <2>2, <3>2 DEF S1Start, Same, user
      <3>3. CASE Change(StartExport)
        <4>1. ASSUME NEW d \in maybe
              PROVE  /\ StartExport(d).db = d.db /\ StartExport(d).side = d.side
                     /\ StartExport(d).wal = d.wal \/ /\ StartExport(d).wal = NewDb(kek_master, {})
                                                      /\ ~Exists(d.wal)
          BY <1>2 DEF StartExport, CreateMigrating, Image
        <4>2. ASSUME NEW d \in maybe, ~Exists(d.wal)
              PROVE  RowsOf(d.db, NewDb(kek_master, {})) = RowsOf(d.db, d.wal)
          BY <1>1, <4>2 DEF GoodDisk, GoodImage, LiveWhole, RowsOf, NewDb, NoDb
        <4> SUFFICES ASSUME NEW e \in maybe' PROVE GoodImage(e)' BY DEF GoodDisk
        <4>3. PICK d \in maybe : e = d \/ e = StartExport(d) BY <1>1, <3>3 DEF Change
        <4>4. GoodImage(d) BY <1>1 DEF GoodDisk
        <4>5. UNCHANGED <<pw, committed>> BY <2>2 DEF S1Start, Same, user
        <4>6. LiveWhole(e)'
          <5>1. CASE e.db = d.db /\ e.wal = d.wal
            BY <4>4, <4>5, <5>1 DEF GoodImage, LiveWhole
          <5>2. CASE e.db = d.db /\ e.wal = NewDb(kek_master, {}) /\ ~Exists(d.wal)
            <6>1. e.wal.key = kek_master /\ Exists(e.wal) BY <5>2 DEF NewDb, Exists
            <6>2. RowsOf(e.db, e.wal) = committed
              BY <4>2, <4>4, <5>2 DEF GoodImage, LiveWhole
            <6> QED BY <2>1, <4>4, <4>5, <5>2, <6>1, <6>2 DEF GoodImage, LiveWhole
          <5> QED BY <4>1, <4>3, <5>1, <5>2
        <4>7. Paired(e)'
          BY <2>1, <4>1, <4>3, <4>5 DEF Paired, kek_master
        <4>8. Agrees(e)'
          BY <1>1, <2>1, <3>3, <4>1, <4>3 DEF Agrees, Change
        <4> QED BY <4>6, <4>7, <4>8 DEF GoodImage
      <3> QED BY <2>2, <3>2, <3>3 DEF S1Start
    <2>3. CASE S1Export
      <3>1. CASE CloseLive(kek_master)
        BY <1>1, <2>3, <3>1, CloseLiveGood DEF S1Export, Same, user
      <3>2. CASE Change(ExportDone)
        <4>1. ASSUME NEW d \in maybe
              PROVE  /\ WriteMigrating(d) \in Image
                     /\ WriteMigrating(d).db = d.db /\ WriteMigrating(d).wal = d.wal
                     /\ WriteMigrating(d).side = d.side
          <5>1. RowsOf(fs.db, fs.wal) \in SUBSET Rows BY <1>3 DEF Image, DbFile, RowsOf
          <5>2. NewDb(dek, RowsOf(fs.db, fs.wal)) \in DbFile
            BY <1>1, <5>1, BuiltTypes DEF TypeOK
          <5> QED BY <1>2, <5>2 DEF WriteMigrating, Image
        <4>2. ASSUME NEW d \in maybe
              PROVE  /\ ExportDone(d).side = d.side
                     /\ ExportDone(d).db.key = d.db.key /\ ExportDone(d).db.health = d.db.health
                     /\ ExportDone(d).wal \in {d.wal, NoDb}
                     /\ Exists(ExportDone(d).wal) => ExportDone(d).wal = d.wal
                     /\ RowsOf(ExportDone(d).db, ExportDone(d).wal) = RowsOf(d.db, d.wal)
          BY <4>1, FoldFacts DEF ExportDone
        <4> SUFFICES ASSUME NEW e \in maybe' PROVE GoodImage(e)' BY DEF GoodDisk
        <4>3. PICK d \in maybe : e = d \/ e = ExportDone(d) BY <1>1, <3>2 DEF Change
        <4>4. GoodImage(d) BY <1>1 DEF GoodDisk
        <4>5. UNCHANGED <<pw, committed>> BY <2>3 DEF S1Export, Same, user
        <4>6. LiveWhole(e)' BY <4>2, <4>3, <4>4, <4>5 DEF GoodImage, LiveWhole
        <4>7. Paired(e)' BY <2>1, <4>2, <4>3, <4>5 DEF Paired, kek_master
        <4>8. Agrees(e)' BY <1>1, <2>1, <3>2, <4>2, <4>3 DEF Agrees, Change
        <4> QED BY <4>6, <4>7, <4>8 DEF GoodImage
      <3> QED BY <2>3, <3>1, <3>2 DEF S1Export
    <2>4. CASE S2Open \/ S2Check
      BY <1>10, <2>1, <2>4 DEF S2Open, S2Check, Same, user
    <2>5. CASE S3
      <3>1. SameLive(fs, WriteNewSidecar(fs)) BY <1>3 DEF SameLive, WriteNewSidecar, Image
      <3> QED BY <1>1, <2>5, <3>1, Quiet DEF S3, ChangeAndSync, Same, user
    <2>6. CASE S4
      <3>1. /\ fs.mside = V2Side(kek_master, dek, TRUE) /\ fs.mwal = NoDb
            /\ fs.mdb = NewDb(dek, committed) /\ fs.wal = NoDb
        BY <1>1, <2>6 DEF S4, Phase
      <3>2. /\ fs' = SwapSidecar(fs) /\ maybe' = {fs'} /\ UNCHANGED <<pw, committed>>
        BY <2>6 DEF S4, ChangeAndSync, Same, user
      <3>3. /\ fs'.side = V2Side(kek_master, dek, TRUE)
            /\ fs'.db = fs.db /\ fs'.wal = fs.wal /\ fs'.mdb = fs.mdb /\ fs'.mwal = fs.mwal
        BY <1>3, <3>1, <3>2 DEF SwapSidecar, Image
      <3>4. LiveWhole(fs)' BY <1>3, <3>2, <3>3 DEF GoodImage, LiveWhole
      <3>5. Swappable(fs)'
        BY <1>1, <2>1, <3>1, <3>2, <3>3 DEF Swappable, V2Side, kek_master
      <3>6. Paired(fs)' BY <2>1, <3>2, <3>3, <3>5 DEF Paired, V2Side, kek_master
      <3> QED BY <3>2, <3>4, <3>6 DEF GoodDisk, GoodImage, Agrees
    <2> QED BY <1>11, <2>2, <2>3, <2>4, <2>5, <2>6 DEF Convert
  <1>12. CASE SwapAndFinish
    <2>1. CASE S5Drop
      <3>1. ASSUME NEW d \in maybe PROVE SameLive(d, DropWals(d)) /\ SameLive(d, d)
        <4>1. fs.side.ver = 2 /\ fs.db.key = kek_master
          BY <1>1, <2>1 DEF S5Drop, Phase, HoldsDek
        <4>2. Swappable(d) BY <1>1, <2>1, <4>1, SwappableImages DEF S5Drop
        <4> QED BY <1>2, <4>2 DEF Swappable, SameLive, DropWals, Image
      <3> QED BY <1>1, <2>1, <3>1, Quiet DEF S5Drop, Change, Same, user
    <2>2. CASE S5Swap
      <3>1. HoldsDek /\ fs.db.key = kek_master BY <1>1, <2>2 DEF S5Swap, Phase
      <3>2. \A d \in maybe : Swappable(d) /\ ~d.side.rec /\ d.side = fs.side
        BY <1>1, <2>2, <3>1, SwappableImages DEF S5Swap, HoldsDek
      <3>3. fs.mdb = NewDb(dek, committed) BY <1>1, <3>1, <3>2 DEF Swappable, HoldsDek
      <3>4. UNCHANGED <<pw, committed>> /\ pc' = "S5.sync"
        BY <2>2 DEF S5Swap, Same, user, Goto
      <3>5. fs' = SwapDb(fs) /\ \A e \in maybe' : \E d \in maybe : e = d \/ e = SwapDb(d)
        BY <1>1, <2>2 DEF S5Swap, Change
      <3>6. ASSUME NEW d \in maybe
            PROVE  SwapDb(d).db = fs.mdb /\ SwapDb(d).side = fs.side /\ SwapDb(d).wal = NoDb
        BY <1>2, <3>2 DEF SwapDb, Swappable, Image
      <3> SUFFICES ASSUME NEW e \in maybe' PROVE GoodImage(e)' BY DEF GoodDisk
      <3>7. PICK d \in maybe : e = d \/ e = SwapDb(d) BY <3>5
      <3>8. GoodImage(d) BY <1>1 DEF GoodDisk
      <3>9. CASE e = d
        BY <1>1, <3>2, <3>4, <3>5, <3>6, <3>8, <3>9
           DEF GoodImage, LiveWhole, Paired, Swappable, Agrees, kek_master
      <3>10. CASE e = SwapDb(d)
        <4>1. e.db = NewDb(dek, committed) /\ e.wal = NoDb /\ e.side = fs.side
          BY <3>3, <3>6, <3>10
        <4>2. LiveWhole(e)' BY <3>4, <4>1 DEF LiveWhole, NewDb, NoDb, Exists, RowsOf
        <4>3. Paired(fs) BY <1>3 DEF GoodImage
        <4>4. Paired(e)'
          BY <3>1, <3>4, <4>1, <4>3 DEF Paired, HoldsDek, NewDb, V1Side, kek_master
        <4>5. Agrees(e)' BY <1>1, <3>4, <3>5, <3>6, <4>1 DEF Agrees
        <4> QED BY <4>2, <4>4, <4>5 DEF GoodImage
      <3> QED BY <3>7, <3>9, <3>10
    <2>3. CASE S5Sync \/ S6Sync
      <3>1. fs' = fs /\ maybe' = {fs} /\ UNCHANGED <<pw, committed>>
        BY <2>3 DEF S5Sync, S6Sync, fsync_dir, Same, user
      <3> QED
        BY <1>3, <3>1 DEF GoodDisk, GoodImage, LiveWhole, Paired, Swappable, Agrees, kek_master
    <2>4. CASE S6Db \/ S6Side
      <3>1. ASSUME NEW d \in maybe
            PROVE  SameLive(d, BurnCopyDb(d)) /\ SameLive(d, BurnCopySide(d)) /\ SameLive(d, d)
        BY <1>2 DEF SameLive, BurnCopyDb, BurnCopySide, Image
      <3> QED BY <1>1, <2>4, <3>1, Quiet DEF S6Db, S6Side, Change, Same, user
    <2>5. CASE S6Clear
      <3>1. HoldsDek /\ fs.db.key = dek BY <1>1, <2>5 DEF S6Clear, Phase, FinishSteps
      <3>2. fs' = ClearPending(fs) /\ maybe' = {fs'} /\ UNCHANGED <<pw, committed>>
        BY <2>5 DEF S6Clear, ChangeAndSync, Same, user
      <3>3. /\ fs'.db = fs.db /\ fs'.wal = fs.wal
            /\ fs'.side.ver = fs.side.ver /\ fs'.side.kek = fs.side.kek
            /\ fs'.side.dek = fs.side.dek
        BY <1>3, <3>2 DEF ClearPending, Image, Sidecar
      <3>4. LiveWhole(fs)' BY <1>3, <3>2, <3>3 DEF GoodImage, LiveWhole
      <3>5. fs.side.kek = kek_master /\ IsDek(fs.side.dek)
        BY <1>3, <3>1 DEF GoodImage, Paired, HoldsDek, V1Side
      <3>6. Paired(fs)' BY <3>1, <3>2, <3>3, <3>5 DEF Paired, HoldsDek, kek_master
      <3> QED BY <3>2, <3>4, <3>6 DEF GoodDisk, GoodImage, Agrees
    <2> QED BY <1>12, <2>1, <2>2, <2>3, <2>4, <2>5 DEF SwapAndFinish
  <1>13. CASE Resume
    <2>1. CASE ResumeBranch1
      BY <1>1, <2>1, CloseLiveGood DEF ResumeBranch1, Same, user
    <2>2. CASE ResumeBranch2
      <3>1. HoldsDek /\ fs.db.key = kek_master /\ Verdicts = {"sound"}
        BY <2>2, AlwaysSound DEF ResumeBranch2
      <3>2. Change(CloseProbes) /\ UNCHANGED <<pw, committed>>
        BY <2>2, <3>1 DEF ResumeBranch2, Same, user
      <3>3. ASSUME NEW d \in maybe PROVE SameLive(d, CloseProbes(d)) /\ SameLive(d, d)
        <4>1. Swappable(d) BY <1>1, <2>2, <3>1, SwappableImages DEF ResumeBranch2, HoldsDek
        <4>2. Folded(d.db, NoDb, kek_master) = d.db
          BY <1>2 DEF Folded, RowsOf, NoDb, Image, DbFile
        <4>3. Folded(d.mdb, NoDb, dek) = d.mdb
          BY <1>2 DEF Folded, RowsOf, NoDb, Image, DbFile
        <4>4. \A f, k : FoldedWal(f, NoDb, k) = NoDb BY DEF FoldedWal
        <4>5. FoldLive(d, kek_master) = d
          BY <1>2, <4>1, <4>2, <4>4 DEF FoldLive, Swappable, Image
        <4>6. FoldMigrating(d, dek) = d
          BY <1>2, <4>1, <4>3, <4>4 DEF FoldMigrating, Swappable, Image
        <4> QED BY <4>5, <4>6 DEF CloseProbes, SameLive
      <3> QED BY <1>1, <2>2, <3>2, <3>3, Quiet DEF ResumeBranch2, Change
    <2>3. CASE ResumeNoReplacement
      BY <2>3, AlwaysSound DEF ResumeNoReplacement
    <2>4. CASE ResumeBranch3 BY <1>4, <2>4 DEF ResumeBranch3, Unreached
    <2>5. CASE ReadBack BY <1>5, <2>5 DEF ReadBack, Same, user
    <2> QED BY <1>13, <2>1, <2>2, <2>3, <2>4, <2>5 DEF Resume
  <1>14. CASE Rollback \/ Answer
    BY <1>4, <1>14 DEF Rollback, RollbackDb, RollbackSide, RollbackSync, Answer, AcceptRollback,
                       DeclineRollback, Unreached, RollbackSteps
  <1>15. CASE Session
    <2>1. /\ pc = "session" /\ hand = fs.db.key
          /\ fs.side.ver = 2 => fs.db.key = fs.side.dek
      BY <1>1, <1>15 DEF Session, Write, Lock, SetMasterPassword, SetRecoverySlot, Phase
    <2>2. ASSUME NEW r \in Rows, Write(r) PROVE GoodDisk'
      <3>1. ASSUME NEW d \in maybe
            PROVE  /\ AppendWal(d, r).db = d.db /\ AppendWal(d, r).side = d.side
                   /\ AppendWal(d, r).wal.key = hand /\ Exists(AppendWal(d, r).wal)
                   /\ RowsOf(d.db, AppendWal(d, r).wal) = RowsOf(d.db, d.wal) \cup {r}
        BY <1>2 DEF AppendWal, NewDb, Exists, RowsOf, Image, DbFile
      <3>2. /\ fs' = AppendWal(fs, r)
            /\ \A e \in maybe' : \E d \in maybe : e = AppendWal(d, r)
            /\ committed' = committed \cup {r} /\ UNCHANGED <<pw, pc>>
        BY <1>1, <2>2 DEF Write, InPlace, ChangeAndSync, proc
      <3> SUFFICES ASSUME NEW e \in maybe' PROVE GoodImage(e)' BY DEF GoodDisk
      <3>3. PICK d \in maybe : e = AppendWal(d, r) BY <3>2
      <3>4. GoodImage(d) BY <1>1 DEF GoodDisk
      <3>5. d.db.key = fs.db.key /\ d.side = fs.side BY <2>1, <3>4 DEF GoodImage, Agrees
      <3>6. LiveWhole(e)'
        BY <2>1, <3>1, <3>2, <3>3, <3>4, <3>5 DEF GoodImage, LiveWhole
      <3>7. Paired(d) BY <3>4 DEF GoodImage
      <3>8. Paired(e)'
        BY <2>1, <3>1, <3>2, <3>3, <3>5, <3>7 DEF Paired, kek_master
      <3>9. Agrees(e)' BY <1>1, <3>1, <3>2, <3>3, <3>5 DEF Agrees
      <3> QED BY <3>6, <3>8, <3>9 DEF GoodImage
    <2>3. CASE Lock BY <1>1, <2>1, <2>3, CloseLiveGood DEF Lock, Same, user
    <2>4. ASSUME NEW k, NEW b, fs.side.ver = 2, k = kek_master',
                 fs' = [fs EXCEPT !.side = Rekey(k, b)], maybe' = {fs'},
                 committed' = committed
          PROVE  GoodDisk'
      <3>1. /\ fs'.db = fs.db /\ fs'.wal = fs.wal
            /\ fs'.side.ver = 2 /\ fs'.side.kek = k /\ fs'.side.dek = fs.side.dek
        BY <1>3, <2>4 DEF Rekey, Image, Sidecar
      <3>2. LiveWhole(fs)' BY <1>3, <2>4, <3>1 DEF GoodImage, LiveWhole
      <3>3. IsDek(fs.side.dek) BY <1>3, <2>4 DEF GoodImage, Paired, V1Side
      <3>4. Paired(fs)' BY <2>1, <2>4, <3>1, <3>3 DEF Paired
      <3> QED BY <2>4, <3>2, <3>4 DEF GoodDisk, GoodImage, Agrees
    <2>5. CASE SetMasterPassword
      BY <2>4, <2>5 DEF SetMasterPassword, ChangeAndSync, kek_master
    <2>6. ASSUME NEW r \in BOOLEAN, SetRecoverySlot(r) PROVE GoodDisk'
      <3>1. fs.side.ver = 2 BY <2>6 DEF SetRecoverySlot
      <3>2. fs.side.kek = kek_master BY <1>3, <3>1 DEF GoodImage, Paired, V1Side
      <3>3. kek_master' = kek_master /\ committed' = committed
        BY <2>6 DEF SetRecoverySlot, user, kek_master
      <3> QED BY <2>4, <2>6, <3>2, <3>3 DEF SetRecoverySlot, ChangeAndSync
    <2> QED BY <1>15, <2>2, <2>3, <2>5, <2>6 DEF Session
  <1>16. CASE Fault
    <2>1. UNCHANGED <<pw, committed>> /\ pc # "S5.sync"
      BY <1>16 DEF Fault, user, FaultSteps
    <2>2. CASE CloseLive(kek_master) BY <1>1, <2>1, <2>2, CloseLiveGood
    <2>3. CASE pc \in {"S2", "S2.check"} /\ Change(RemoveMigrating)
      <3>1. fs.side.ver = 1 BY <1>1, <2>3 DEF Phase, ConvertSteps
      <3> QED BY <1>10, <2>1, <2>3, <3>1
    <2> QED BY <1>5, <1>16, <2>1, <2>2, <2>3 DEF Fault
  <1>17. CASE Crash
    <2>1. PICK d \in maybe : fs' = d /\ maybe' = {d} BY <1>17 DEF Crash
    <2>2. UNCHANGED <<pw, committed>> BY <1>17 DEF Crash, user
    <2>3. GoodImage(d) BY <1>1 DEF GoodDisk
    <2> QED
      BY <2>1, <2>2, <2>3 DEF GoodDisk, GoodImage, LiveWhole, Paired, Swappable, Agrees, kek_master
  <1>18. CASE Damage
    BY <1>1, <1>18 DEF Damage, NoDamage, TypeOK
  <1> QED
    BY <1>6, <1>7, <1>8, <1>9, <1>11, <1>12, <1>13, <1>14, <1>15, <1>16, <1>17, <1>18
       DEF Next, Migrate, Failure

-----------------------------------------------------------------------------
(* The running step finds what it relies on.                                 *)

NotRefused == told \notin {"wrong", "broken", "offer"}

(* Closing the live connection keeps the fields the phases speak of.         *)
LEMMA CloseLiveKeeps ==
    ASSUME TypeOK, NEW k, CloseLive(k)
    PROVE  fs'.side = fs.side /\ fs'.db.key = fs.db.key
  BY FoldFacts DEF CloseLive, Change, TypeOK, DiskTypeOK

(* Every step leaves the process where the files allow it to be: what the    *)
(* phase a step enters relies on holds of the disk it leaves.                *)
LEMMA PhaseStep ==
    ASSUME NoDamage, IInv, Next
    PROVE  Phase' /\ NotRefused'
  <1> USE DEF CopySteps, ConvertSteps, SwapSteps, FinishSteps, RollbackSteps, Unreached
  <1>1. TypeOK /\ Phase /\ NotRefused /\ GoodImage(fs) /\ fs \in Image
    BY DEF IInv, NotRefused, TypeOK, DiskTypeOK
  <1>2. /\ LiveWhole(fs) /\ Paired(fs) BY <1>1 DEF GoodImage
  <1>3. /\ fs.side.ver = 1 => fs.db.key = kek_master
        /\ fs.side.ver \in {1, 2}
        /\ fs.side.ver = 2 => /\ fs.side.kek = kek_master /\ IsDek(fs.side.dek)
                              /\ \/ fs.db.key = fs.side.dek
                                 \/ fs.db.key = kek_master /\ fs.side.pending /\ ~fs.side.rec
    BY <1>2 DEF Paired, Swappable, V1Side
  <1>4. ASSUME NEW w \in {"nothing", "error"}, EndUnlock(w) PROVE Phase' /\ NotRefused'
    BY <1>4 DEF EndUnlock, Phase, NotRefused
  <1>5. ASSUME Raise(fs.side.ver), fs'.side = fs.side, fs'.db.key = fs.db.key, pw' = pw,
               fs.side.ver = 2 => fs.side.pending
        PROVE  Phase' /\ NotRefused'
    <2>1. CASE EndUnlock("error") BY <1>4, <2>1
    <2>2. CASE pc' = "open" /\ hand' = kek_master /\ fs.side.ver = 1 /\ told' = told
      <3>1. (hand = fs.db.key)' /\ fs'.side.ver = 1 BY <1>3, <1>5, <2>2
      <3> QED BY <1>1, <2>2, <3>1 DEF Phase, NotRefused
    <2>3. CASE pc' = "resume" /\ dek' = fs.side.dek /\ fs.side.ver = 2 /\ told' = told
      <3>1. HoldsDek' BY <1>5, <2>3 DEF HoldsDek
      <3> QED BY <1>1, <2>3, <3>1 DEF Phase, NotRefused
    <2> QED BY <1>5, <2>1, <2>2, <2>3 DEF Raise
  <1>6. ASSUME NEW k, OpenWithNext(k), fs'.side = fs.side, fs'.db.key = fs.db.key,
               k = fs.db.key, fs.side.ver = 2 => fs.db.key = fs.side.dek
        PROVE  Phase' /\ NotRefused'
    BY <1>1, <1>6 DEF OpenWithNext, Phase, NotRefused
  <1>7. CASE UnlockV1
    <2>1. Opens(fs.db, fs.wal, kek_master)
      BY <1>2, <1>3, <1>7 DEF UnlockV1, LiveWhole, Opens
    <2>2. CloseLive(kek_master) /\ GotoVia("S0.db", "v1") BY <1>7, <2>1 DEF UnlockV1
    <2> QED BY <1>1, <1>7, <2>2, CloseLiveKeeps DEF UnlockV1, GotoVia, Phase, NotRefused
  <1>8. CASE UnlockMaster
    <2>1. fs' = fs /\ fs.side.ver = 2 /\ fs.side.kek = kek_master
      BY <1>3, <1>8 DEF UnlockMaster, NoDisk, disk
    <2>2. CASE fs.side.pending
      BY <1>1, <1>8, <2>1, <2>2 DEF UnlockMaster, Phase, NotRefused, HoldsDek
    <2>3. CASE ~fs.side.pending
      BY <1>3, <1>6, <1>8, <2>1, <2>3 DEF UnlockMaster
    <2> QED BY <2>2, <2>3
  <1>9. CASE UnlockRecovery
    BY <1>3, <1>6, <1>9 DEF UnlockRecovery, NoDisk, disk
  <1>10. CASE OpenWith
    <2>1. Opens(fs.db, fs.wal, hand) BY <1>1, <1>2, <1>10 DEF OpenWith, Phase, LiveWhole, Opens
    <2> QED BY <1>1, <1>10, <2>1 DEF OpenWith, NoDisk, disk, Phase, NotRefused
  <1>11. CASE S0
    <2>1. fs'.side = fs.side /\ fs'.db = fs.db
      BY <1>1, <1>11 DEF S0, S0CopyDbStart, S0CopyDb, S0CopySideStart, S0CopySide, S0Verify,
           Change, ChangeAndSync, NoDisk, disk, RemoveCopyDb, WriteCopyDb, RemoveCopySide,
           WriteCopySide, Image
    <2>2. UNCHANGED <<pw, committed>>
      BY <1>11 DEF S0, S0CopyDbStart, S0CopyDb, S0CopySideStart, S0CopySide, S0Verify, Same, user
    <2>3. \/ via = "v1" /\ fs.side.ver = 1
          \/ via = "branch2" /\ HoldsDek /\ fs.db.key = kek_master
      BY <1>1, <1>11 DEF S0, S0CopyDbStart, S0CopyDb, S0CopySideStart, S0CopySide, S0Verify, Phase
    <2>4. CASE S0Verify
      <3>1. CASE Raise(fs.side.ver) BY <1>5, <2>1, <2>2, <2>3, <3>1 DEF HoldsDek
      <3>2. CASE via = "v1" /\ pc' = "S1" /\ dek' = Dek(draws)
        <4>1. via' = "v1" /\ told' = told BY <2>4, <3>2 DEF S0Verify, Raise, EndUnlock, Goto
        <4>2. fs'.side.ver = 1 BY <2>1, <2>3, <3>2
        <4>3. IsDek(dek)' BY <3>2, KeysDiffer DEF IsDek
        <4> QED BY <1>1, <3>2, <4>1, <4>2, <4>3 DEF Phase, NotRefused
      <3>3. CASE via = "branch2" /\ Goto("S5")
        BY <1>1, <2>1, <2>2, <2>3, <3>3 DEF Goto, Phase, NotRefused, HoldsDek, kek_master
      <3> QED BY <2>3, <2>4, <3>1, <3>2, <3>3 DEF S0Verify
    <2>5. CASE \E l \in {"S0.db.write", "S0.side", "S0.side.write", "S0.verify"} : Goto(l)
      BY <1>1, <2>1, <2>2, <2>3, <2>5 DEF Goto, Phase, NotRefused, HoldsDek, kek_master
    <2> QED BY <1>11, <2>4, <2>5 DEF S0, S0CopyDbStart, S0CopyDb, S0CopySideStart, S0CopySide
  <1>12. CASE Convert
    <2>1. pc \in ConvertSteps /\ UNCHANGED <<pw, committed>>
      BY <1>12 DEF Convert, S1Start, S1Export, S2Open, S2Check, S3, S4, Same, user
    <2>2. via = "v1" /\ fs.side.ver = 1 /\ IsDek(dek) BY <1>1, <2>1 DEF Phase
    <2>3. ASSUME Change(RemoveMigrating), Raise(fs.side.ver) PROVE Phase' /\ NotRefused'
      <3>1. fs'.side = fs.side /\ fs'.db = fs.db
        BY <1>1, <2>3 DEF Change, RemoveMigrating, Image
      <3> QED BY <1>5, <2>1, <2>2, <2>3, <3>1
    <2>4. CASE S1Start
      <3>1. CASE Change(StartExport) /\ Goto("S1.export")
        <4>1. fs'.side = fs.side /\ fs'.mwal = NoDb
          BY <1>1, <3>1 DEF Change, StartExport, CreateMigrating, Image
        <4> QED BY <1>1, <2>2, <3>1, <4>1 DEF Goto, Phase, NotRefused
      <3> QED BY <2>3, <2>4, <3>1 DEF S1Start
    <2>5. CASE S1Export
      <3>1. CASE CloseLive(kek_master) /\ Raise(fs.side.ver)
        BY <1>1, <1>5, <2>1, <2>2, <3>1, CloseLiveKeeps
      <3>2. CASE Change(ExportDone) /\ Goto("S2")
        <4>1. fs' = FoldLive(WriteMigrating(fs), kek_master) BY <3>2 DEF Change, ExportDone
        <4>2. /\ WriteMigrating(fs).mdb = NewDb(dek, committed)
              /\ WriteMigrating(fs).mwal = fs.mwal
              /\ WriteMigrating(fs).db = fs.db /\ WriteMigrating(fs).wal = fs.wal
              /\ WriteMigrating(fs).side = fs.side
          BY <1>1, <1>2 DEF WriteMigrating, LiveWhole, Image
        <4>3. Opens(fs.db, fs.wal, kek_master) BY <1>2, <1>3, <2>2 DEF LiveWhole, Opens
        <4>4. WriteMigrating(fs) \in Image
          <5>1. NewDb(dek, committed) \in DbFile BY <1>1, BuiltTypes DEF TypeOK
          <5>2. RowsOf(fs.db, fs.wal) = committed BY <1>2 DEF LiveWhole
          <5> QED BY <1>1, <5>1, <5>2 DEF WriteMigrating, Image
        <4>5. fs'.wal = NoDb
          BY <4>1, <4>2, <4>3, <4>4 DEF FoldLive, FoldedWal, Image
        <4>6. fs'.mdb = NewDb(dek, committed) /\ fs'.mwal = fs.mwal /\ fs'.side = fs.side
          BY <4>1, <4>2, <4>4, FoldFacts
        <4>7. fs.mwal = NoDb BY <1>1, <2>5 DEF S1Export, Phase
        <4> QED BY <1>1, <2>1, <2>2, <3>2, <4>5, <4>6, <4>7 DEF Goto, Phase, NotRefused
      <3> QED BY <2>5, <3>1, <3>2 DEF S1Export
    <2>6. CASE S2Open
      <3>1. CASE Change(OpenReplacement) /\ Goto("S2.check")
        <4>1. /\ fs'.mwal = NewDb(dek, {}) /\ fs'.mdb = fs.mdb /\ fs'.wal = fs.wal
              /\ fs'.side = fs.side
          BY <1>1, <3>1 DEF Change, OpenReplacement, Image
        <4> QED BY <1>1, <2>1, <2>2, <2>6, <3>1, <4>1 DEF S2Open, Goto, Phase, NotRefused
      <3> QED BY <2>3, <2>6, <3>1 DEF S2Open
    <2>7. CASE S2Check
      <3>1. CASE Change(CloseReplacement) /\ Goto("S3")
        <4>1. fs'.mwal = NoDb /\ fs'.mdb = fs.mdb /\ fs'.wal = fs.wal /\ fs'.side = fs.side
          BY <1>1, <3>1 DEF Change, CloseReplacement, Image
        <4> QED BY <1>1, <2>1, <2>2, <2>7, <3>1, <4>1 DEF S2Check, Goto, Phase, NotRefused
      <3> QED BY <2>3, <2>7, <3>1 DEF S2Check
    <2>8. CASE S3
      <3>1. /\ fs'.mwal = fs.mwal /\ fs'.mdb = fs.mdb /\ fs'.wal = fs.wal /\ fs'.side = fs.side
            /\ fs'.mside = V2Side(kek_master, dek, TRUE)
        BY <1>1, <2>8 DEF S3, ChangeAndSync, WriteNewSidecar, Image
      <3> QED BY <1>1, <2>1, <2>2, <2>8, <3>1 DEF S3, Goto, Phase, NotRefused, kek_master
    <2>9. CASE S4
      <3>1. fs.mside = V2Side(kek_master, dek, TRUE) BY <1>1, <2>9 DEF S4, Phase
      <3>2. fs'.side = V2Side(kek_master, dek, TRUE) /\ fs'.db = fs.db
        BY <1>1, <2>9, <3>1 DEF S4, ChangeAndSync, SwapSidecar, Image
      <3>3. pc' = "S5" /\ dek' = dek /\ told' = told BY <2>9 DEF S4, Goto
      <3>4. HoldsDek' BY <3>2, <3>3 DEF HoldsDek, V2Side
      <3>5. (fs.db.key = kek_master)' BY <1>3, <2>1, <2>2, <3>2 DEF kek_master
      <3> QED BY <1>1, <3>3, <3>4, <3>5 DEF Phase, NotRefused
    <2> QED BY <1>12, <2>4, <2>5, <2>6, <2>7, <2>8, <2>9 DEF Convert
  <1>13. CASE SwapAndFinish
    <2>1. CASE S5Drop
      <3>1. HoldsDek /\ fs.db.key = kek_master BY <1>1, <2>1 DEF S5Drop, Phase
      <3>2. /\ fs'.side = fs.side /\ fs'.db = fs.db /\ pw' = pw
            /\ pc' = "S5.swap" /\ dek' = dek /\ told' = told
        BY <1>1, <2>1 DEF S5Drop, Change, DropWals, Image, Same, user, Goto
      <3>3. HoldsDek' /\ (fs.db.key = kek_master)' BY <3>1, <3>2 DEF HoldsDek, kek_master
      <3> QED BY <1>1, <3>2, <3>3 DEF Phase, NotRefused
    <2>2. CASE S5Swap
      <3>1. HoldsDek /\ fs.db.key = kek_master BY <1>1, <2>2 DEF S5Swap, Phase
      <3>2. fs.mdb.key = dek
        <4>1. GoodDisk /\ fs \in maybe BY DEF IInv, GoodDisk, TypeOK, DiskTypeOK
        <4>2. Swappable(fs) BY <2>2, <3>1, <4>1, SwappableImages DEF S5Swap, HoldsDek
        <4> QED BY <3>1, <4>2 DEF Swappable, NewDb, HoldsDek
      <3>3. /\ fs'.side = fs.side /\ fs'.db = fs.mdb
            /\ pc' = "S5.sync" /\ dek' = dek /\ told' = told
        BY <1>1, <2>2 DEF S5Swap, Change, SwapDb, Image, Goto
      <3>4. HoldsDek' /\ (fs.db.key = dek)' BY <3>1, <3>2, <3>3 DEF HoldsDek
      <3> QED BY <1>1, <3>3, <3>4 DEF Phase, NotRefused
    <2>3. CASE S5Sync \/ S6Db \/ S6Side \/ S6Sync
      <3>1. HoldsDek /\ fs.db.key = dek
        BY <1>1, <2>3 DEF S5Sync, S6Db, S6Side, S6Sync, Phase
      <3>2. /\ fs'.side = fs.side /\ fs'.db = fs.db
            /\ pc' \in {"readback", "S6", "S6.side", "S6.sync", "S6.clear"}
            /\ dek' = dek /\ told' = told
        BY <1>1, <2>3 DEF S5Sync, S6Db, S6Side, S6Sync, Change, fsync_dir, BurnCopyDb,
                          BurnCopySide, Image, Goto
      <3>3. HoldsDek' /\ (fs.db.key = dek)' BY <3>1, <3>2 DEF HoldsDek
      <3> QED BY <1>1, <3>2, <3>3 DEF Phase, NotRefused
    <2>4. CASE S6Clear
      <3>1. HoldsDek /\ fs.db.key = dek BY <1>1, <2>4 DEF S6Clear, Phase
      <3>2. /\ fs'.side.dek = fs.side.dek /\ fs'.db = fs.db
            /\ pc' = "open" /\ hand' = dek /\ told' = told
        BY <1>1, <2>4 DEF S6Clear, ChangeAndSync, ClearPending, Image, Sidecar
      <3>3. (hand = fs.db.key)' /\ (fs.db.key = fs.side.dek)' BY <3>1, <3>2 DEF HoldsDek
      <3> QED BY <1>1, <3>2, <3>3 DEF Phase, NotRefused
    <2> QED BY <1>13, <2>1, <2>2, <2>3, <2>4 DEF SwapAndFinish
  <1>14. ASSUME FinishIfReadable(fs), HoldsDek, fs.db.key = dek, fs'.side = fs.side,
                fs'.db.key = fs.db.key
         PROVE  Phase' /\ NotRefused'
    <2>1. ReadsEndToEnd(fs.db, fs.wal, dek)
      BY <1>2, <1>14 DEF LiveWhole, ReadsEndToEnd, Opens
    <2>2. pc' = "S6" /\ dek' = dek /\ told' = told BY <1>14, <2>1 DEF FinishIfReadable
    <2>3. HoldsDek' /\ (fs.db.key = dek)' BY <1>14, <2>2 DEF HoldsDek
    <2> QED BY <1>1, <2>2, <2>3 DEF Phase, NotRefused
  <1>15. CASE Resume
    <2>1. CASE ResumeBranch1
      <3>1. HoldsDek BY <1>1, <2>1 DEF ResumeBranch1, Phase
      <3>2. fs.db.key = dek BY <2>1 DEF ResumeBranch1, Opens
      <3> QED BY <1>1, <1>14, <2>1, <3>1, <3>2, CloseLiveKeeps DEF ResumeBranch1
    <2>2. CASE ResumeBranch2
      <3>1. HoldsDek /\ fs.db.key = kek_master /\ Verdicts = {"sound"}
        BY <2>2, AlwaysSound DEF ResumeBranch2
      <3>2. Change(CloseProbes) /\ EnsureRollbackCopy("S5", "branch2") /\ pw' = pw
        BY <2>2, <3>1 DEF ResumeBranch2, Same, user
      <3>3. fs'.side = fs.side /\ fs'.db.key = fs.db.key
        <4>1. FoldLive(fs, kek_master) \in Image
          BY <1>1, OpTypes, BuiltTypes DEF TypeOK, kek_master
        <4>2. fs' = FoldMigrating(FoldLive(fs, kek_master), dek)
          BY <3>2 DEF Change, CloseProbes
        <4>3. fs'.side = FoldLive(fs, kek_master).side /\ fs'.db = FoldLive(fs, kek_master).db
          BY <4>1, <4>2 DEF FoldMigrating, Image
        <4> QED BY <1>1, <4>3, FoldFacts
      <3>4. /\ pc' \in {"S5", "S0.db"} /\ via' = "branch2" /\ dek' = dek /\ told' = told
        BY <3>2 DEF EnsureRollbackCopy, GotoVia
      <3>5. HoldsDek' /\ (fs.db.key = kek_master)'
        BY <3>1, <3>2, <3>3, <3>4 DEF HoldsDek, kek_master
      <3> QED BY <1>1, <3>4, <3>5 DEF Phase, NotRefused
    <2>3. CASE ResumeNoReplacement BY <2>3, AlwaysSound DEF ResumeNoReplacement
    <2>4. CASE ResumeBranch3 BY <1>1, <2>4 DEF ResumeBranch3, Phase
    <2>5. CASE ReadBack
      <3>1. HoldsDek /\ fs.db.key = dek BY <1>1, <2>5 DEF ReadBack, Phase
      <3> QED BY <1>14, <2>5, <3>1 DEF ReadBack, NoDisk, disk
    <2> QED BY <1>15, <2>1, <2>2, <2>3, <2>4, <2>5 DEF Resume
  <1>16. CASE Rollback \/ Answer
    BY <1>1, <1>16 DEF Rollback, RollbackDb, RollbackSide, RollbackSync, Answer, AcceptRollback,
                       DeclineRollback, Phase
  <1>17. CASE Session
    <2>1. /\ pc = "session" /\ hand = fs.db.key
          /\ fs.side.ver = 2 => fs.db.key = fs.side.dek
      BY <1>1, <1>17 DEF Session, Write, Lock, SetMasterPassword, SetRecoverySlot, Phase
    <2>2. CASE Lock BY <2>2 DEF Lock, Phase, NotRefused
    <2>3. ASSUME UNCHANGED proc, fs'.db.key = fs.db.key, fs'.side.ver = fs.side.ver,
                 fs'.side.dek = fs.side.dek
          PROVE  Phase' /\ NotRefused'
      BY <1>1, <2>1, <2>3 DEF proc, Phase, NotRefused
    <2>4. ASSUME NEW r \in Rows, Write(r) PROVE Phase' /\ NotRefused'
      <3>1. fs' = AppendWal(fs, r) BY <2>4 DEF Write, InPlace, ChangeAndSync
      <3>2. fs'.db = fs.db /\ fs'.side = fs.side BY <1>1, <3>1 DEF AppendWal, Image
      <3> QED BY <2>3, <2>4, <3>2 DEF Write
    <2>5. ASSUME NEW k, NEW b, fs' = [fs EXCEPT !.side = Rekey(k, b)], UNCHANGED proc
          PROVE  Phase' /\ NotRefused'
      <3>1. /\ fs'.db = fs.db /\ fs'.side.ver = fs.side.ver /\ fs'.side.dek = fs.side.dek
        BY <1>1, <2>5 DEF Rekey, Image, Sidecar
      <3> QED BY <2>3, <2>5, <3>1
    <2> QED
      BY <1>17, <2>2, <2>4, <2>5 DEF Session, SetMasterPassword, SetRecoverySlot, ChangeAndSync
  <1>18. CASE Fault
    <2>1. fs'.side = fs.side /\ fs'.db.key = fs.db.key
      <3>1. CASE CloseLive(kek_master) BY <1>1, <3>1, CloseLiveKeeps
      <3>2. CASE Change(RemoveMigrating) BY <1>1, <3>2 DEF Change, RemoveMigrating, Image
      <3> QED BY <1>18, <3>1, <3>2 DEF Fault, NoDisk, disk
    <2>2. pc \in FaultSteps /\ pw' = pw BY <1>18 DEF Fault, user
    <2>3. /\ fs.side.ver = 2 => fs.side.pending
          /\ pc \in FinishSteps => dek = fs.db.key /\ fs.db.key = fs.side.dek
      BY <1>1, <2>2 DEF FaultSteps, Steps, Phase, HoldsDek
    <2> QED BY <1>5, <1>6, <1>18, <2>1, <2>2, <2>3 DEF Fault
  <1>19. CASE Crash BY <1>19 DEF Crash, Phase, NotRefused
  <1>20. CASE Damage BY <1>1, <1>20 DEF Damage, NoDamage, TypeOK
  <1> QED
    BY <1>7, <1>8, <1>9, <1>10, <1>11, <1>12, <1>13, <1>15, <1>16, <1>17, <1>18, <1>19, <1>20
       DEF Next, Unlock, Migrate, Failure

-----------------------------------------------------------------------------
(* The invariant, and what it gives.                                         *)

(* The invariant holds of a v1 vault that has never been migrated.           *)
LEMMA InitInv == Init => IInv
  <1> SUFFICES ASSUME Init PROVE IInv OBVIOUS
  <1>1. TypeOK BY InitType
  <1>2. PICK r, w \in SUBSET Rows : fs = V1Vault(r, w) /\ committed = r \cup w BY DEF Init
  <1>3. maybe = {fs} /\ pc = "locked" /\ told = "nothing" /\ pw = 0 BY DEF Init
  <1>4. LiveWhole(fs)
    BY <1>2 DEF V1Vault, LiveWhole, NewDb, NoDb, Exists, RowsOf
  <1>5. Paired(fs) BY <1>2, <1>3 DEF V1Vault, Paired, NewDb, kek_master
  <1>6. Agrees(fs) BY DEF Agrees
  <1>7. Phase
    BY <1>3 DEF Phase, CopySteps, ConvertSteps, SwapSteps, FinishSteps, RollbackSteps, Unreached
  <1> QED BY <1>1, <1>3, <1>4, <1>5, <1>6, <1>7 DEF IInv, GoodImage

(* While no file rots, every step keeps the invariant.                       *)
LEMMA InvStep == ASSUME NoDamage PROVE IInv /\ [Next]_vars => IInv'
  <1> SUFFICES ASSUME IInv, [Next]_vars PROVE IInv' OBVIOUS
  <1>1. TypeOK' BY TypeStep DEF IInv
  <1>2. CASE Next
    BY <1>1, <1>2, GoodStep, PhaseStep DEF IInv, GoodDisk, NotRefused
  <1>3. CASE UNCHANGED vars
    <2>1. \A d \in maybe' : GoodImage(d)'
      <3> SUFFICES ASSUME NEW d \in maybe' PROVE GoodImage(d)' OBVIOUS
      <3>1. GoodImage(d) BY <1>3 DEF vars, IInv
      <3>2. LiveWhole(d)' BY <1>3, <3>1 DEF vars, GoodImage, LiveWhole
      <3>3. Paired(d)' BY <1>3, <3>1 DEF vars, GoodImage, Paired, Swappable, kek_master
      <3>4. Agrees(d)' BY <1>3, <3>1 DEF vars, GoodImage, Agrees
      <3> QED BY <3>2, <3>3, <3>4 DEF GoodImage
    <2>2. Phase' BY <1>3 DEF vars, IInv, Phase, HoldsDek, kek_master
    <2>3. told' \notin {"wrong", "broken", "offer"} BY <1>3 DEF vars, IInv
    <2> QED BY <1>1, <2>1, <2>2, <2>3 DEF IInv
  <1> QED BY <1>2, <1>3

(* The invariant implies both of INV-7's promises.                           *)
LEMMA InvImplies == IInv => VaultOpens /\ RightPasswordNeverRefused
  <1> SUFFICES ASSUME IInv PROVE VaultOpens /\ RightPasswordNeverRefused OBVIOUS
  <1>1. ASSUME NEW d \in maybe PROVE PairOpens(d) /\ RowsOf(d.db, d.wal) = committed
    <2>1. LiveWhole(d) /\ Paired(d) BY DEF IInv, GoodImage
    <2> QED
      BY <2>1 DEF LiveWhole, Paired, Swappable, PairOpens, ReadsEndToEnd, Opens
  <1> QED BY <1>1 DEF IInv, VaultOpens, RightPasswordNeverRefused

(* INV-7.  For every set of rows and any number of crashes, power losses,    *)
(* disk errors and password changes, at every instant and in every directory *)
(* image a power loss may leave, the owner's password opens the vault and    *)
(* every committed row is in it.                                             *)
THEOREM VaultAlwaysOpens == ASSUME NoDamage PROVE Spec => []VaultOpens
  <1> QED BY InitInv, InvStep, InvImplies, PTL DEF Spec

(* Section 6.  Under the same failures the right password is never called    *)
(* wrong, never meets a broken pairing and never has to be offered a         *)
(* rollback.                                                                 *)
THEOREM NeverRefused == ASSUME NoDamage PROVE Spec => []RightPasswordNeverRefused
  <1> QED BY InitInv, InvStep, InvImplies, PTL DEF Spec

-----------------------------------------------------------------------------
(* The pre-upgrade copy: there while it is needed, gone when it is not.      *)

(* In image d a verified copy of everything committed sits beside the vault. *)
CopyOf(d) == RollbackUsable(d, kek_master) /\ d.pdb.rows = committed

(* What the artefacts beside a v2 vault may be: the copy is there until the  *)
(* database is swapped and gone before the flag is cleared; the replacement  *)
(* goes with the swap, its key record with S4.                               *)
Tidy(d) ==
    d.side.ver = 2 =>
        /\ d.mside = NoSide
        /\ d.db.key = d.side.dek => d.mdb = NoDb
        /\ ~d.side.pending => d.pdb = NoDb /\ d.pside = NoSide
        /\ d.db.key = kek_master => CopyOf(d)

(* What the running step may rely on.                                        *)
CopyPhase ==
    /\ pc \in CopySteps => via = "v1" /\ fs.wal = NoDb
    /\ pc \in {"S0.side", "S0.side.write", "S0.verify"} => fs.pdb = fs.db
    /\ pc = "S0.verify" => maybe = {fs} /\ fs.pside = V1Side(kek_master)
    /\ pc \in ConvertSteps \cup SwapSteps => \A d \in maybe : CopyOf(d)
    /\ pc \in {"S6.side", "S6.sync", "S6.clear"} => fs.pdb = NoDb
    /\ pc \in {"S6.sync", "S6.clear"} => fs.pside = NoSide

TidyDisk == \A d \in maybe : Tidy(d)

CopyInv == TidyDisk /\ CopyPhase

(* e has d's key record, d's artefacts and a database under d's key.         *)
SameArtefacts(d, e) ==
    /\ e.side = d.side /\ e.db.key = d.db.key
    /\ e.mside = d.mside /\ e.mdb = d.mdb
    /\ e.pdb = d.pdb /\ e.pside = d.pside

(* A step that leaves the artefacts alone keeps every image tidy, and every  *)
(* copy the copy it was.                                                     *)
LEMMA TidyKept ==
    ASSUME TidyDisk, UNCHANGED <<pw, committed>>,
           \A e \in maybe' : \E d \in maybe : SameArtefacts(d, e)
    PROVE  /\ TidyDisk'
           /\ (\A d \in maybe : CopyOf(d)) => (\A d \in maybe : CopyOf(d))'
  <1>1. ASSUME NEW d \in maybe, NEW e \in maybe', SameArtefacts(d, e)
        PROVE  /\ CopyOf(d) => CopyOf(e)'
               /\ Tidy(d) => Tidy(e)'
    BY <1>1 DEF SameArtefacts, CopyOf, RollbackUsable, Tidy, kek_master
  <1> QED BY <1>1 DEF TidyDisk

(* Under a v1 key record there is nothing to be tidy about.                  *)
LEMMA TidyV1 ==
    ASSUME GoodDisk', fs'.side.ver = 1
    PROVE  TidyDisk'
  <1> SUFFICES ASSUME NEW e \in maybe' PROVE Tidy(e)' BY DEF TidyDisk
  <1>1. e.side = fs'.side BY DEF GoodDisk, GoodImage, Agrees
  <1> QED BY <1>1 DEF Tidy

(* Closing the live database touches no artefact.                            *)
LEMMA CloseLiveTidy ==
    ASSUME TypeOK, TidyDisk, NEW k, CloseLive(k), UNCHANGED <<pw, committed>>
    PROVE  TidyDisk'
  <1>1. ASSUME NEW d \in maybe
        PROVE  SameArtefacts(d, FoldLive(d, k)) /\ SameArtefacts(d, d)
    <2>1. d \in Image BY DEF TypeOK, DiskTypeOK
    <2>2. /\ FoldLive(d, k).mside = d.mside /\ FoldLive(d, k).pdb = d.pdb
          /\ FoldLive(d, k).pside = d.pside
      BY <2>1 DEF FoldLive, Image
    <2> QED BY <2>1, <2>2, FoldFacts DEF SameArtefacts
  <1>2. \A e \in maybe' : \E d \in maybe : SameArtefacts(d, e)
    BY <1>1 DEF CloseLive, Change, TypeOK, DiskTypeOK
  <1> QED BY <1>2, TidyKept

(* Branch 2's probes find no WAL to fold: they change nothing.               *)
LEMMA ProbesKeep ==
    ASSUME NEW d \in Image, Swappable(d)
    PROVE  CloseProbes(d) = d
  <1>1. Folded(d.db, NoDb, kek_master) = d.db
    BY DEF Folded, RowsOf, NoDb, Image, DbFile
  <1>2. Folded(d.mdb, NoDb, dek) = d.mdb
    BY DEF Folded, RowsOf, NoDb, Image, DbFile
  <1>3. \A f, k : FoldedWal(f, NoDb, k) = NoDb BY DEF FoldedWal
  <1>4. FoldLive(d, kek_master) = d BY <1>1, <1>3 DEF FoldLive, Swappable, Image
  <1>5. FoldMigrating(d, dek) = d BY <1>2, <1>3 DEF FoldMigrating, Swappable, Image
  <1> QED BY <1>4, <1>5 DEF CloseProbes

(* While no file rots, every step keeps the copy where it belongs.           *)
LEMMA CopyStep ==
    ASSUME NoDamage, IInv, CopyInv, Next, IInv'
    PROVE  CopyInv'
  <1> USE DEF CopySteps, ConvertSteps, SwapSteps, FinishSteps, RollbackSteps, Unreached
  <1>1. /\ TypeOK /\ GoodDisk /\ Phase /\ fs \in maybe /\ fs \in Image
        /\ TidyDisk /\ CopyPhase /\ GoodDisk' /\ fs' \in maybe' /\ Tidy(fs)
    BY DEF IInv, GoodDisk, TypeOK, DiskTypeOK, CopyInv, TidyDisk
  <1>2. \A d \in maybe : d \in Image BY DEF IInv, TypeOK, DiskTypeOK
  <1>3. LiveWhole(fs) /\ Paired(fs) BY <1>1 DEF GoodDisk, GoodImage
  <1>4. fs.side.ver \in {1, 2} /\ (fs.side.ver = 2 => fs.side.kek = kek_master /\ IsDek(fs.side.dek))
        /\ (fs.side.ver = 1 => fs.db.key = kek_master /\ fs.side = V1Side(kek_master))
    BY <1>3 DEF Paired, V1Side
  <1>5. ASSUME NoDisk, UNCHANGED <<pw, committed>>
        PROVE  TidyDisk' /\ ((\A d \in maybe : CopyOf(d)) => (\A d \in maybe : CopyOf(d))')
    <2>1. \A e \in maybe' : \E d \in maybe : SameArtefacts(d, e)
      BY <1>5 DEF NoDisk, disk, SameArtefacts
    <2> QED BY <1>1, <1>5, <2>1, TidyKept
  <1>6. ASSUME pc' \in {"locked", "open", "session", "resume", "readback", "S6"}
        PROVE  CopyPhase'
    BY <1>6 DEF CopyPhase
  <1>7. ASSUME NEW v, Raise(v) PROVE pc' \in {"locked", "open", "resume"}
    BY <1>7 DEF Raise, EndUnlock
  <1>8. ASSUME \A e \in maybe' : \E d \in maybe : e.pdb = d.pdb /\ e.pside = d.pside,
               UNCHANGED <<pw, committed>>, \A d \in maybe : CopyOf(d)
        PROVE  (\A d \in maybe : CopyOf(d))'
    BY <1>8 DEF CopyOf, RollbackUsable, kek_master
  <1>9. CASE Unlock
    <2>1. CASE UnlockV1
      <3>1. Opens(fs.db, fs.wal, kek_master)
        BY <1>3, <1>4, <2>1 DEF UnlockV1, LiveWhole, Opens
      <3>2. CloseLive(kek_master) /\ pc' = "S0.db" /\ via' = "v1"
        BY <2>1, <3>1 DEF UnlockV1, GotoVia
      <3>3. fs'.wal = NoDb BY <1>1, <3>1, <3>2 DEF CloseLive, Change, FoldLive, FoldedWal, Image
      <3>4. TidyDisk' BY <1>1, <2>1, <3>2, CloseLiveTidy DEF UnlockV1, Same, user
      <3> QED BY <3>2, <3>3, <3>4 DEF CopyInv, CopyPhase
    <2>2. CASE UnlockMaster
      BY <1>5, <1>6, <2>2 DEF UnlockMaster, EndUnlock, OpenWithNext, Same, user, CopyInv
    <2> QED BY <1>9, <2>1, <2>2 DEF Unlock
  <1>10. CASE UnlockRecovery
    BY <1>5, <1>6, <1>10 DEF UnlockRecovery, OpenWithNext, Same, user, CopyInv
  <1>11. CASE OpenWith
    BY <1>5, <1>6, <1>11 DEF OpenWith, Same, user, CopyInv
  <1>12. CASE S0
    <2>1. via = "v1" /\ fs.wal = NoDb /\ fs.side = V1Side(kek_master) /\ fs.side.ver = 1
          /\ UNCHANGED <<pw, committed>>
      <3>1. via = "v1" /\ fs.wal = NoDb
        BY <1>1, <1>12 DEF S0, S0CopyDbStart, S0CopyDb, S0CopySideStart, S0CopySide, S0Verify,
                           CopyPhase
      <3>2. fs.side.ver = 1
        BY <1>1, <1>12, <3>1 DEF S0, S0CopyDbStart, S0CopyDb, S0CopySideStart, S0CopySide,
                           S0Verify, Phase
      <3> QED
        BY <1>4, <1>12, <3>1, <3>2 DEF S0, S0CopyDbStart, S0CopyDb, S0CopySideStart, S0CopySide,
                           S0Verify, Same, user
    <2>2. fs'.side = fs.side /\ fs'.db = fs.db /\ fs'.wal = fs.wal
      BY <1>1, <1>12 DEF S0, S0CopyDbStart, S0CopyDb, S0CopySideStart, S0CopySide, S0Verify,
           Change, ChangeAndSync, NoDisk, disk, RemoveCopyDb, WriteCopyDb, RemoveCopySide,
           WriteCopySide, Image
    <2>3. TidyDisk' BY <1>1, <2>1, <2>2, TidyV1
    <2>4. CASE S0CopyDbStart
      BY <2>1, <2>2, <2>3, <2>4 DEF S0CopyDbStart, Goto, CopyInv, CopyPhase
    <2>5. CASE S0CopyDb
      <3>1. fs'.pdb = fs'.db
        BY <1>1, <2>5 DEF S0CopyDb, Change, WriteCopyDb, Image
      <3> QED BY <2>1, <2>2, <2>3, <2>5, <3>1 DEF S0CopyDb, Goto, CopyInv, CopyPhase
    <2>6. CASE S0CopySideStart
      <3>1. fs'.pdb = fs'.db
        BY <1>1, <2>2, <2>6 DEF S0CopySideStart, Change, RemoveCopySide, Image, CopyPhase
      <3> QED BY <2>1, <2>2, <2>3, <2>6, <3>1 DEF S0CopySideStart, Goto, CopyInv, CopyPhase
    <2>7. CASE S0CopySide
      <3>1. fs'.pdb = fs'.db
        BY <1>1, <2>2, <2>7 DEF S0CopySide, ChangeAndSync, WriteCopySide, Image, CopyPhase
      <3>2. maybe' = {fs'} /\ fs'.pside = V1Side(kek_master)
        BY <1>1, <2>1, <2>7 DEF S0CopySide, ChangeAndSync, WriteCopySide, Image
      <3>3. kek_master' = kek_master BY <2>1 DEF kek_master
      <3> QED BY <2>1, <2>2, <2>3, <2>7, <3>1, <3>2, <3>3 DEF S0CopySide, Goto, CopyInv, CopyPhase
    <2>8. CASE S0Verify
      <3>1. CASE Raise(fs.side.ver) BY <1>6, <1>7, <2>3, <3>1 DEF CopyInv
      <3>2. CASE pc' = "S1"
        <4>1. fs.pdb = fs.db /\ fs.pside = V1Side(kek_master) /\ maybe = {fs}
          BY <1>1, <2>8 DEF S0Verify, CopyPhase
        <4>2. RollbackUsable(fs, kek_master)
          BY <1>3, <1>4, <2>1, <4>1 DEF RollbackUsable, ReadsEndToEnd, Opens, LiveWhole, V1Side,
                                        NoDb, Exists
        <4>3. fs.pdb.rows = committed
          <5>1. RowsOf(fs.db, fs.wal) = fs.db.rows BY <1>1, <2>1 DEF RowsOf, NoDb, Image, DbFile
          <5> QED BY <1>3, <4>1, <5>1 DEF LiveWhole
        <4>4. \A d \in maybe : CopyOf(d) BY <4>1, <4>2, <4>3 DEF CopyOf
        <4>5. (\A d \in maybe : CopyOf(d))'
          BY <1>5, <2>1, <2>8, <4>4 DEF S0Verify
        <4> QED BY <2>3, <3>2, <4>5 DEF CopyInv, CopyPhase
      <3> QED BY <2>1, <2>8, <3>1, <3>2 DEF S0Verify
    <2> QED BY <1>12, <2>4, <2>5, <2>6, <2>7, <2>8 DEF S0
  <1>13. CASE Convert
    <2>1. /\ fs.side.ver = 1 /\ IsDek(dek) /\ UNCHANGED <<pw, committed>>
          /\ \A d \in maybe : CopyOf(d)
      BY <1>1, <1>13 DEF Convert, S1Start, S1Export, S2Open, S2Check, S3, S4, Phase, CopyPhase,
                         Same, user
    <2>2. ASSUME NEW d \in maybe
          PROVE  \A e \in {RemoveMigrating(d), StartExport(d), FoldLive(d, kek_master),
                           ExportDone(d), OpenReplacement(d), CloseReplacement(d),
                           WriteNewSidecar(d), SwapSidecar(d)} :
                     e.pdb = d.pdb /\ e.pside = d.pside
      <3>1. /\ FoldLive(d, kek_master).pdb = d.pdb /\ FoldLive(d, kek_master).pside = d.pside
        BY <1>2 DEF FoldLive, Image
      <3>2. ExportDone(d).pdb = d.pdb /\ ExportDone(d).pside = d.pside
        BY <1>2 DEF ExportDone, WriteMigrating, FoldLive, Image
      <3> QED
        BY <1>2, <3>1, <3>2 DEF RemoveMigrating, StartExport, CreateMigrating,
                  OpenReplacement, CloseReplacement, WriteNewSidecar, SwapSidecar, Image
    <2>3. \A e \in maybe' : \E d \in maybe : e.pdb = d.pdb /\ e.pside = d.pside
      BY <1>1, <1>13, <2>2 DEF Convert, S1Start, S1Export, S2Open, S2Check, S3, S4, Change,
                               ChangeAndSync, CloseLive
    <2>4. (\A d \in maybe : CopyOf(d))' BY <1>8, <2>1, <2>3
    <2>5. CopyPhase'
      <3>1. pc' \in {"locked", "open", "resume", "S1.export", "S2", "S2.check", "S3", "S4", "S5"}
        BY <1>7, <1>13 DEF Convert, S1Start, S1Export, S2Open, S2Check, S3, S4, Goto
      <3> QED BY <2>4, <3>1 DEF CopyPhase
    <2>6. CASE S4
      <3>1. fs.mside = V2Side(kek_master, dek, TRUE) BY <1>1, <2>6 DEF S4, Phase
      <3>2. /\ maybe' = {fs'} /\ fs'.side = V2Side(kek_master, dek, TRUE)
            /\ fs'.mside = NoSide /\ fs'.db = fs.db
        BY <1>1, <2>6, <3>1 DEF S4, ChangeAndSync, SwapSidecar, Image
      <3>3. fs'.db.key # fs'.side.dek
        BY <1>4, <2>1, <3>2, KeysDiffer DEF V2Side
      <3>4. Tidy(fs)'
        BY <1>1, <2>4, <3>2, <3>3 DEF Tidy, V2Side
      <3> QED BY <2>5, <3>2, <3>4 DEF CopyInv, TidyDisk
    <2>7. CASE ~S4
      <3>1. fs'.side = fs.side
        <4>1. FoldLive(fs, kek_master).side = fs.side BY <1>1 DEF FoldLive, Image
        <4>2. ExportDone(fs).side = fs.side
          BY <1>1 DEF ExportDone, WriteMigrating, FoldLive, Image
        <4> QED
        BY <1>1, <1>13, <2>7, <4>1, <4>2
           DEF Convert, S1Start, S1Export, S2Open, S2Check, S3, Change,
               ChangeAndSync, CloseLive, RemoveMigrating, StartExport, CreateMigrating,
               OpenReplacement, CloseReplacement, WriteNewSidecar, Image
      <3> QED BY <1>1, <2>1, <2>5, <3>1, TidyV1 DEF CopyInv
    <2> QED BY <2>6, <2>7
  <1>14. CASE SwapAndFinish
    <2>1. /\ UNCHANGED <<pw, committed>> /\ HoldsDek
          /\ pc \in SwapSteps \cup FinishSteps
      BY <1>1, <1>14 DEF SwapAndFinish, S5Drop, S5Swap, S5Sync, S6Db, S6Side, S6Sync, S6Clear,
                         Same, user, Phase
    <2>2. CASE S5Drop
      <3>1. ASSUME NEW d \in maybe
            PROVE  SameArtefacts(d, DropWals(d)) /\ SameArtefacts(d, d)
        BY <1>2 DEF SameArtefacts, DropWals, Image
      <3>2. \A e \in maybe' : \E d \in maybe : SameArtefacts(d, e)
        BY <1>1, <2>2, <3>1 DEF S5Drop, Change
      <3>3. TidyDisk' /\ (\A d \in maybe : CopyOf(d))'
        BY <1>1, <2>1, <2>2, <3>2, TidyKept DEF S5Drop, CopyPhase
      <3> QED BY <2>2, <3>3 DEF S5Drop, Goto, CopyInv, CopyPhase
    <2>3. CASE S5Swap
      <3>1. fs.db.key = kek_master /\ fs.side.ver = 2 /\ \A d \in maybe : CopyOf(d)
        BY <1>1, <2>3 DEF S5Swap, Phase, HoldsDek, CopyPhase
      <3>2. \A d \in maybe : Swappable(d) /\ d.side = fs.side
        BY <1>1, <2>3, <3>1, SwappableImages DEF S5Swap
      <3>3. ASSUME NEW d \in maybe
            PROVE  /\ SwapDb(d).side = d.side /\ SwapDb(d).mside = d.mside
                   /\ SwapDb(d).mdb = NoDb
                   /\ SwapDb(d).pdb = d.pdb /\ SwapDb(d).pside = d.pside
        BY <1>2 DEF SwapDb, Image
      <3>4. \A e \in maybe' : \E d \in maybe : e = d \/ e = SwapDb(d)
        BY <1>1, <2>3 DEF S5Swap, Change
      <3>5. (\A d \in maybe : CopyOf(d))'
        <4>1. \A e \in maybe' : \E d \in maybe : e.pdb = d.pdb /\ e.pside = d.pside
          BY <3>3, <3>4
        <4> QED BY <1>8, <2>1, <3>1, <4>1
      <3>6. TidyDisk'
        <4> SUFFICES ASSUME NEW e \in maybe' PROVE Tidy(e)' BY DEF TidyDisk
        <4>1. PICK d \in maybe : e = d \/ e = SwapDb(d) BY <3>4
        <4>2. Tidy(d) /\ d.side.pending /\ d.db.key = kek_master /\ d.side.ver = 2
          BY <1>1, <3>1, <3>2 DEF TidyDisk, Swappable
        <4>3. CASE e = d
          BY <2>1, <3>5, <4>2, <4>3 DEF Tidy, kek_master
        <4>4. CASE e = SwapDb(d)
          BY <3>3, <3>5, <4>2, <4>4 DEF Tidy
        <4> QED BY <4>1, <4>3, <4>4
      <3> QED BY <2>3, <3>5, <3>6 DEF S5Swap, Goto, CopyInv, CopyPhase
    <2>4. CASE S5Sync
      <3>1. \A e \in maybe' : SameArtefacts(fs, e)
        BY <2>4 DEF S5Sync, fsync_dir, SameArtefacts
      <3>2. TidyDisk' BY <1>1, <2>1, <3>1, TidyKept
      <3>3. pc' \in {"readback", "S6"} BY <2>4 DEF S5Sync, Goto
      <3> QED BY <1>6, <3>2, <3>3 DEF CopyInv
    <2>5. ASSUME pc \in FinishSteps, NEW d \in maybe
          PROVE  d.db.key # kek_master /\ d.side.pending /\ d.side = fs.side /\ d.db.key = dek
      <3>1. fs.db.key = dek /\ d.side = fs.side /\ d.db.key = fs.db.key
        BY <1>1, <2>5 DEF Phase, GoodDisk, GoodImage, Agrees
      <3>2. IsDek(dek) BY <1>4, <2>1 DEF HoldsDek
      <3> QED BY <2>1, <3>1, <3>2, KeysDiffer DEF HoldsDek
    <2>6. CASE S6Db \/ S6Side
      <3>1. pc \in FinishSteps BY <2>6 DEF S6Db, S6Side
      <3>2. ASSUME NEW d \in maybe
            PROVE  \A e \in {d, BurnCopyDb(d), BurnCopySide(d)} :
                      /\ e.side = d.side /\ e.db = d.db
                      /\ e.mside = d.mside /\ e.mdb = d.mdb
        BY <1>2 DEF BurnCopyDb, BurnCopySide, Image
      <3>3. \A e \in maybe' : \E d \in maybe : e \in {d, BurnCopyDb(d), BurnCopySide(d)}
        BY <1>1, <2>6 DEF S6Db, S6Side, Change
      <3>4. TidyDisk'
        <4> SUFFICES ASSUME NEW e \in maybe' PROVE Tidy(e)' BY DEF TidyDisk
        <4>1. PICK d \in maybe : e \in {d, BurnCopyDb(d), BurnCopySide(d)} BY <3>3
        <4>2. d.db.key # kek_master /\ d.side.pending /\ Tidy(d)
          BY <1>1, <2>5, <3>1 DEF TidyDisk
        <4>3. kek_master' = kek_master BY <2>1 DEF kek_master
        <4> QED BY <3>2, <4>1, <4>2, <4>3 DEF Tidy
      <3>5. CASE S6Db
        BY <1>1, <3>4, <3>5 DEF S6Db, Change, BurnCopyDb, Image, Goto, CopyInv, CopyPhase
      <3>6. CASE S6Side
        BY <1>1, <3>4, <3>6 DEF S6Side, Change, BurnCopySide, Image, Goto, CopyInv, CopyPhase
      <3> QED BY <2>6, <3>5, <3>6
    <2>7. CASE S6Sync
      <3>1. \A e \in maybe' : SameArtefacts(fs, e)
        BY <2>7 DEF S6Sync, fsync_dir, SameArtefacts
      <3>2. TidyDisk' BY <1>1, <2>1, <3>1, TidyKept
      <3> QED BY <1>1, <2>7, <3>2 DEF S6Sync, fsync_dir, Goto, CopyInv, CopyPhase
    <2>8. CASE S6Clear
      <3>1. fs.pdb = NoDb /\ fs.pside = NoSide BY <1>1, <2>8 DEF S6Clear, CopyPhase
      <3>2. /\ maybe' = {fs'} /\ fs'.db = fs.db /\ fs'.mdb = fs.mdb /\ fs'.mside = fs.mside
            /\ fs'.pdb = fs.pdb /\ fs'.pside = fs.pside
            /\ fs'.side.ver = fs.side.ver /\ fs'.side.dek = fs.side.dek
        BY <1>1, <2>8 DEF S6Clear, ChangeAndSync, ClearPending, Image, Sidecar
      <3>3. fs.db.key # kek_master /\ kek_master' = kek_master
        BY <1>1, <2>1, <2>5, <2>8 DEF S6Clear, kek_master
      <3>4. Tidy(fs)' BY <1>1, <3>1, <3>2, <3>3 DEF Tidy
      <3>5. TidyDisk' BY <3>2, <3>4 DEF TidyDisk
      <3>6. pc' = "open" BY <2>8 DEF S6Clear
      <3> QED BY <1>6, <3>5, <3>6 DEF CopyInv
    <2> QED BY <1>14, <2>2, <2>3, <2>4, <2>6, <2>7, <2>8 DEF SwapAndFinish
  <1>15. pc' \notin Unreached BY DEF IInv, Phase
  <1>16. CASE Resume
    <2>1. CASE ResumeBranch1
      <3>1. TidyDisk' BY <1>1, <2>1, CloseLiveTidy DEF ResumeBranch1, Same, user
      <3>2. pc' \in {"S6", "open", "offer"} BY <2>1 DEF ResumeBranch1, FinishIfReadable
      <3> QED BY <1>6, <1>15, <3>1, <3>2 DEF CopyInv
    <2>2. CASE ResumeBranch2
      <3>1. HoldsDek /\ fs.db.key = kek_master /\ Verdicts = {"sound"}
        BY <2>2, AlwaysSound DEF ResumeBranch2
      <3>2. Change(CloseProbes) /\ EnsureRollbackCopy("S5", "branch2") /\ UNCHANGED <<pw, committed>>
        BY <2>2, <3>1 DEF ResumeBranch2, Same, user
      <3>3. ASSUME NEW d \in maybe PROVE CloseProbes(d) = d /\ CopyOf(d)
        <4>1. Swappable(d) /\ d.side = fs.side
          BY <1>1, <2>2, <3>1, SwappableImages DEF ResumeBranch2, HoldsDek
        <4>2. CopyOf(d) BY <1>1, <3>1, <4>1 DEF TidyDisk, Tidy, Swappable, HoldsDek
        <4> QED BY <1>2, <4>1, <4>2, ProbesKeep
      <3>4. \A e \in maybe' : \E d \in maybe : SameArtefacts(d, e)
        BY <1>1, <3>2, <3>3 DEF Change, SameArtefacts
      <3>5. TidyDisk' /\ (\A d \in maybe : CopyOf(d))' BY <1>1, <3>2, <3>3, <3>4, TidyKept
      <3>6. pc' = "S5" BY <1>1, <3>2, <3>3 DEF EnsureRollbackCopy, GotoVia, CopyOf
      <3> QED BY <3>5, <3>6 DEF CopyInv, CopyPhase
    <2>3. CASE ResumeNoReplacement BY <1>15, <2>3 DEF ResumeNoReplacement, Goto
    <2>4. CASE ResumeBranch3 BY <1>1, <2>4 DEF ResumeBranch3, Phase
    <2>5. CASE ReadBack
      <3>1. TidyDisk' BY <1>5, <2>5 DEF ReadBack, Same, user
      <3>2. pc' \in {"S6", "open", "offer"} BY <2>5 DEF ReadBack, FinishIfReadable
      <3> QED BY <1>6, <1>15, <3>1, <3>2 DEF CopyInv
    <2> QED BY <1>16, <2>1, <2>2, <2>3, <2>4, <2>5 DEF Resume
  <1>17. CASE Rollback \/ Answer
    BY <1>1, <1>17 DEF Rollback, RollbackDb, RollbackSide, RollbackSync, Answer, AcceptRollback,
                       DeclineRollback, Phase
  <1>18. CASE Session
    <2>1. pc = "session" /\ (fs.side.ver = 2 => fs.db.key = fs.side.dek)
      BY <1>1, <1>18 DEF Session, Write, Lock, SetMasterPassword, SetRecoverySlot, Phase
    <2>2. ASSUME fs.side.ver = 2, NEW d \in maybe
          PROVE  d.side = fs.side /\ d.db.key = fs.db.key /\ ~(\E n : d.db.key = Kek(n)) /\ Tidy(d)
      BY <1>1, <1>4, <2>1, <2>2 DEF GoodDisk, GoodImage, Agrees, IsDek, Kek, TidyDisk
    <2>3. CASE Lock
      <3>1. TidyDisk' BY <1>1, <2>3, CloseLiveTidy DEF Lock, Same, user
      <3> QED BY <1>6, <2>3, <3>1 DEF Lock, CopyInv
    <2>4. ASSUME NEW r \in Rows, Write(r) PROVE CopyInv'
      <3>1. ASSUME NEW d \in maybe PROVE SameArtefacts(d, AppendWal(d, r))
        BY <1>2 DEF AppendWal, SameArtefacts, Image
      <3>2. /\ \A e \in maybe' : \E d \in maybe : e = AppendWal(d, r)
            /\ fs' = AppendWal(fs, r) /\ UNCHANGED <<pw, pc>>
        BY <1>1, <2>4 DEF Write, InPlace, ChangeAndSync, proc
      <3>3. CASE fs.side.ver = 1
        BY <1>1, <1>6, <2>1, <3>1, <3>2, <3>3, TidyV1 DEF SameArtefacts, CopyInv
      <3>4. CASE fs.side.ver = 2
        <4> SUFFICES ASSUME NEW e \in maybe' PROVE Tidy(e)'
          BY <1>6, <2>1, <3>2 DEF CopyInv, TidyDisk
        <4>1. PICK d \in maybe : SameArtefacts(d, e) BY <3>1, <3>2
        <4>2. Tidy(d) /\ d.db.key # kek_master' /\ kek_master' = kek_master
          BY <2>2, <3>2, <3>4 DEF kek_master
        <4> QED BY <4>1, <4>2 DEF SameArtefacts, Tidy
      <3> QED BY <1>4, <3>3, <3>4
    <2>5. ASSUME NEW k, NEW b, fs.side.ver = 2, UNCHANGED pc,
                 fs' = [fs EXCEPT !.side = Rekey(k, b)], maybe' = {fs'}
          PROVE  CopyInv'
      <3>1. /\ fs'.db = fs.db /\ fs'.mdb = fs.mdb /\ fs'.mside = fs.mside
            /\ fs'.pdb = fs.pdb /\ fs'.pside = fs.pside
            /\ fs'.side.ver = fs.side.ver /\ fs'.side.dek = fs.side.dek
            /\ fs'.side.pending = fs.side.pending
        BY <1>1, <2>5 DEF Rekey, Image, Sidecar
      <3>2. fs'.db.key # kek_master' BY <1>1, <2>2, <2>5, <3>1 DEF kek_master
      <3>3. Tidy(fs)' BY <1>1, <3>1, <3>2 DEF Tidy
      <3> QED BY <1>6, <2>1, <2>5, <3>3 DEF CopyInv, TidyDisk
    <2> QED
      BY <1>18, <2>3, <2>4, <2>5 DEF Session, SetMasterPassword, SetRecoverySlot, ChangeAndSync, proc
  <1>19. CASE Fault
    <2>1. UNCHANGED <<pw, committed>> BY <1>19 DEF Fault, user
    <2>2. pc' \in {"locked", "open", "resume"} BY <1>7, <1>19 DEF Fault, OpenWithNext
    <2>3. TidyDisk'
      <3>1. CASE CloseLive(kek_master) BY <1>1, <2>1, <3>1, CloseLiveTidy
      <3>2. CASE pc \in {"S2", "S2.check"} /\ Change(RemoveMigrating)
        <4>1. fs.side.ver = 1 BY <1>1, <3>2 DEF Phase
        <4>2. fs'.side = fs.side BY <1>1, <3>2 DEF Change, RemoveMigrating, Image
        <4> QED BY <1>1, <4>1, <4>2, TidyV1
      <3> QED BY <1>5, <1>19, <2>1, <3>1, <3>2 DEF Fault
    <2> QED BY <1>6, <2>2, <2>3 DEF CopyInv
  <1>20. CASE Crash
    <2>1. PICK d \in maybe : maybe' = {d} BY <1>20 DEF Crash
    <2>2. UNCHANGED <<pw, committed>> /\ pc' = "locked" BY <1>20 DEF Crash, user
    <2>3. \A e \in maybe' : SameArtefacts(d, e) BY <2>1 DEF SameArtefacts
    <2>4. TidyDisk' BY <1>1, <2>2, <2>3, TidyKept
    <2> QED BY <1>6, <2>2, <2>4 DEF CopyInv
  <1>21. CASE Damage BY <1>1, <1>21 DEF Damage, NoDamage, TypeOK
  <1> QED
    BY <1>9, <1>10, <1>11, <1>12, <1>13, <1>14, <1>16, <1>17, <1>18, <1>19, <1>20, <1>21
       DEF Next, Migrate, Failure

(* Before the first unlock there is nothing to be tidy about.                *)
LEMMA InitCopy == Init => CopyInv
  <1> SUFFICES ASSUME Init PROVE CopyInv OBVIOUS
  <1>1. PICK r, w \in SUBSET Rows : fs = V1Vault(r, w) BY DEF Init
  <1>2. fs.side.ver = 1 BY <1>1 DEF V1Vault, V1Side
  <1>3. TidyDisk BY <1>2 DEF Init, TidyDisk, Tidy
  <1>4. CopyPhase
    BY DEF Init, CopyPhase, CopySteps, ConvertSteps, SwapSteps
  <1> QED BY <1>3, <1>4 DEF CopyInv

(* Both invariants together are inductive.                                   *)
LEMMA CopyInvStep == ASSUME NoDamage PROVE IInv /\ CopyInv /\ [Next]_vars => CopyInv'
  <1> SUFFICES ASSUME IInv, CopyInv, [Next]_vars PROVE CopyInv' OBVIOUS
  <1>1. CASE Next BY <1>1, CopyStep, InvStep
  <1>2. CASE UNCHANGED vars
    BY <1>2 DEF vars, CopyInv, TidyDisk, Tidy, CopyOf, RollbackUsable, CopyPhase, kek_master
  <1> QED BY <1>1, <1>2

(* A finished vault has nothing left beside it.                              *)
LEMMA NothingLeft == IInv /\ CopyInv => NoArtefactAfterCompletion
  <1> SUFFICES ASSUME IInv, CopyInv, NEW d \in maybe, d.side.ver = 2, ~d.side.pending
               PROVE  /\ ~Exists(d.pdb) /\ d.pside = NoSide
                      /\ ~Exists(d.mdb) /\ d.mside = NoSide
    BY DEF NoArtefactAfterCompletion
  <1>1. Tidy(d) /\ Paired(d) BY DEF CopyInv, TidyDisk, IInv, GoodImage
  <1>2. d.db.key = d.side.dek BY <1>1 DEF Paired, Swappable, V1Side
  <1> QED BY <1>1, <1>2 DEF Tidy, NoDb, Exists

(* INV-13 and FIBR-0310 R8, for every set of rows and any number of crashes, *)
(* power losses, disk errors and password changes: no step of the migration  *)
(* moves a byte of the live vault before a verified copy of everything       *)
(* committed is durable, and once migration_pending is cleared no power loss *)
(* brings an artefact back.                                                  *)
THEOREM CopyOutlives == ASSUME NoDamage PROVE Spec => CopyOutlivesItsUse
  <1>1. IInv /\ CopyInv /\ [Next]_vars => IInv' /\ CopyInv' BY InvStep, CopyInvStep
  <1>2. IInv /\ CopyInv => RollbackBeforeSwap
    BY DEF CopyInv, CopyPhase, CopyOf, RollbackBeforeSwap, RollbackSecured
  <1>3. IInv' /\ CopyInv' => NoArtefactAfterCompletion' BY NothingLeft, PTL
  <1>4. IInv /\ CopyInv /\ [Next]_vars
          => [RollbackBeforeSwap /\ NoArtefactAfterCompletion']_vars
    BY <1>1, <1>2, <1>3
  <1> QED BY <1>1, <1>4, InitInv, InitCopy, PTL DEF Spec, CopyOutlivesItsUse

-----------------------------------------------------------------------------
(* When files rot.                                                           *)

(* A crash is a killed process: what it renamed stays renamed.               *)
EntriesSurvive == PowerLoss = FALSE

(* The live database opens under its key, and its WAL belongs to it.         *)
LiveOpens == /\ fs.db.health \in {"page", "ok"}
             /\ IF Exists(fs.wal) THEN fs.wal.key = fs.db.key ELSE fs.wal = NoDb

Held == RowsOf(fs.db, fs.wal)

(* A copy that reads, and a replacement that reads, hold what the live       *)
(* database holds.                                                           *)
CopyAgrees == ReadsEndToEnd(fs.pdb, NoDb, kek_master) => fs.pdb.rows = Held
ReplacementAgrees ==
    ReadsEndToEnd(fs.mdb, fs.mwal, fs.side.dek) => RowsOf(fs.mdb, fs.mwal) = Held

(* The live database belongs to the key record: before the swap to the KEK,  *)
(* with both spares its equals; after it to the DEK, with no replacement.    *)
Owned ==
    \/ fs.side.ver = 1 /\ fs.db.key = kek_master
    \/ /\ fs.side.ver = 2 /\ fs.side.kek = kek_master /\ IsDek(fs.side.dek)
       /\ \/ fs.db.key = fs.side.dek /\ ~Exists(fs.mdb)
          \/ fs.db.key = kek_master /\ CopyAgrees /\ ReplacementAgrees

(* No copy is keyed by a password yet to be chosen.                          *)
Fresh == /\ pw < draws
         /\ \A n \in Nat : fs.pdb.key = Kek(n) => n < draws

Vault == LiveOpens /\ Owned /\ Fresh /\ fs.mwal.rows = {}

OnV2 == HoldsDek /\ fs.db.key = kek_master

(* What the running step may rely on.                                        *)
Mode ==
    /\ pc = "locked" => via = "none"
    /\ pc \in CopySteps \cup ConvertSteps =>
          \/ via = "v1" /\ fs.side.ver = 1
          \/ /\ via = "branch2" /\ OnV2 /\ pc \in CopySteps
             /\ fs.mwal = NoDb /\ ReadsEndToEnd(fs.mdb, NoDb, dek)
          \/ via = "branch3" /\ OnV2
    /\ pc \in CopySteps \cup {"S1"} /\ via = "branch3" => ~Exists(fs.mdb)
    /\ pc \in CopySteps => fs.wal = NoDb
    /\ pc \in ConvertSteps => IsDek(dek)
    /\ pc \in {"S0.side", "S0.side.write", "S0.verify"} \cup ConvertSteps => CopyAgrees
    /\ pc \in {"S1.export", "S2", "S3", "S4"} => fs.mwal = NoDb
    /\ pc = "S2.check" => fs.mwal = NewDb(dek, {})
    /\ pc \in {"S2", "S2.check", "S3", "S4"} => fs.mdb = NewDb(dek, Held) /\ fs.wal = NoDb
    /\ pc = "S4" => fs.mside = V2Side(kek_master, dek, TRUE)
    /\ pc \in {"S5", "S5.swap"} => OnV2 /\ fs.mwal = NoDb /\ ReadsEndToEnd(fs.mdb, NoDb, dek)
    /\ pc \in {"S5", "S5.swap", "offer", "rb.db", "rb.side"} => fs.wal = NoDb
    /\ pc \in {"S5.sync", "readback"} \cup FinishSteps =>
          HoldsDek /\ fs.db.key = dek /\ fs.db.health = "ok"
    /\ pc \in {"resume", "branch3", "offer", "rb.db", "rb.side"} => HoldsDek
    /\ pc = "branch3" => fs.db.key = kek_master /\ ~Exists(fs.mdb)
    /\ pc \in {"offer", "rb.db"} => RollbackUsable(fs, kek_master)
    /\ pc = "rb.side" => fs.db.key = kek_master /\ fs.pside.ver = 1
    /\ pc \in {"open", "session"} =>
          hand = IF fs.side.ver = 1 THEN kek_master ELSE fs.side.dek
    /\ pc = "session" => hand = fs.db.key
    /\ pc \in {"open", "session"} /\ via \in {"branch1", "branch2"} /\ fs.db.health = "page"
          => ~RollbackUsable(fs, kek_master)

RotInv ==
    /\ TypeOK
    /\ maybe = {fs}
    /\ Vault
    /\ Mode
    /\ NeverCalledWrong

(* While no power is lost, the directory has one image.                      *)
LEMMA OneImage ==
    ASSUME EntriesSurvive, maybe = {fs}, Next
    PROVE  maybe' = {fs'}
  <1> USE DEF EntriesSurvive
  <1>1. ASSUME NEW k, CloseLive(k) PROVE maybe' = {fs'} BY <1>1 DEF CloseLive, Change
  <1>2. CASE NoDisk BY <1>2 DEF NoDisk, disk
  <1>3. CASE Unlock \/ UnlockRecovery
    BY <1>1, <1>2, <1>3 DEF Unlock, UnlockV1, UnlockMaster, UnlockRecovery
  <1>4. CASE S0
    BY <1>2, <1>4 DEF S0, S0CopyDbStart, S0CopyDb, S0CopySideStart, S0CopySide, S0Verify,
                      Change, ChangeAndSync
  <1>5. CASE Convert
    BY <1>1, <1>5 DEF Convert, S1Start, S1Export, S2Open, S2Check, S3, S4, Change, ChangeAndSync
  <1>6. CASE SwapAndFinish
    BY <1>6 DEF SwapAndFinish, S5Drop, S5Swap, S5Sync, S6Db, S6Side, S6Sync, S6Clear,
                Change, ChangeAndSync, fsync_dir
  <1>7. CASE Resume
    BY <1>1, <1>2, <1>7 DEF Resume, ResumeBranch1, ResumeBranch2, ResumeNoReplacement,
                            ResumeBranch3, ReadBack, Change
  <1>8. CASE OpenWith BY <1>2, <1>8 DEF OpenWith
  <1>9. CASE Rollback \/ Answer
    BY <1>2, <1>9 DEF Rollback, RollbackDb, RollbackSide, RollbackSync, Answer, AcceptRollback,
                      DeclineRollback, Change, fsync_dir
  <1>10. CASE Session
    BY <1>1, <1>10 DEF Session, Write, Lock, SetMasterPassword, SetRecoverySlot, InPlace,
                       ChangeAndSync
  <1>11. CASE Fault BY <1>1, <1>2, <1>11 DEF Fault, Change
  <1>12. CASE Crash BY <1>12 DEF Crash
  <1>13. CASE Damage BY <1>13 DEF Damage, InPlace
  <1> QED
    BY <1>3, <1>4, <1>5, <1>6, <1>7, <1>8, <1>9, <1>10, <1>11, <1>12, <1>13
       DEF Next, Migrate, Failure

(* A step that leaves the three databases and the key record alone keeps     *)
(* what is said of them.                                                     *)
LEMMA VaultKept ==
    ASSUME Vault, draws \in Nat, draws' \in Nat, draws <= draws', pw \in Nat, pw' = pw,
           fs'.db = fs.db, fs'.wal = fs.wal, fs'.side = fs.side,
           fs'.mdb = fs.mdb, fs'.mwal = fs.mwal, fs'.pdb = fs.pdb
    PROVE  /\ Vault' /\ Held' = Held /\ kek_master' = kek_master
           /\ CopyAgrees' = CopyAgrees
  <1>1. /\ kek_master' = kek_master /\ Held' = Held BY DEF kek_master, Held
  <1>2. CopyAgrees' = CopyAgrees /\ ReplacementAgrees' = ReplacementAgrees
    BY <1>1 DEF CopyAgrees, ReplacementAgrees
  <1>3. LiveOpens' BY DEF Vault, LiveOpens
  <1>4. Owned' BY <1>1, <1>2 DEF Vault, Owned
  <1>5. Fresh'
    <2>1. pw' < draws' BY DEF Vault, Fresh
    <2>2. ASSUME NEW n \in Nat, fs'.pdb.key = Kek(n) PROVE n < draws'
      BY <2>2 DEF Vault, Fresh
    <2> QED BY <2>1, <2>2 DEF Fresh
  <1> QED BY <1>1, <1>2, <1>3, <1>4, <1>5 DEF Vault

(* Closing the live database moves rows and nothing else.                    *)
LEMMA CloseKept ==
    ASSUME TypeOK, Vault, NEW k, CloseLive(k), pw' = pw, draws' = draws
    PROVE  /\ Vault' /\ Held' = Held /\ kek_master' = kek_master
           /\ CopyAgrees' = CopyAgrees
           /\ fs'.db.key = fs.db.key /\ fs'.db.health = fs.db.health
           /\ Opens(fs.db, fs.wal, k) => fs'.wal = NoDb
           /\ fs'.wal \in {fs.wal, NoDb}
           /\ fs'.side = fs.side /\ fs'.mdb = fs.mdb /\ fs'.mwal = fs.mwal
           /\ fs'.mside = fs.mside /\ fs'.pdb = fs.pdb /\ fs'.pside = fs.pside
  <1>1. fs' = FoldLive(fs, k) BY DEF CloseLive, Change
  <1>2. fs \in Image BY DEF TypeOK, DiskTypeOK
  <1>3. /\ fs'.side = fs.side /\ fs'.mdb = fs.mdb /\ fs'.mwal = fs.mwal
        /\ fs'.mside = fs.mside /\ fs'.pdb = fs.pdb /\ fs'.pside = fs.pside
        /\ fs'.wal = FoldedWal(fs.db, fs.wal, k)
    BY <1>1, <1>2 DEF FoldLive, Image
  <1>4. /\ fs'.db.key = fs.db.key /\ fs'.db.health = fs.db.health
        /\ fs'.wal \in {fs.wal, NoDb}
        /\ RowsOf(fs'.db, fs'.wal) = RowsOf(fs.db, fs.wal)
    BY <1>1, <1>2, FoldFacts
  <1>5. Opens(fs.db, fs.wal, k) => fs'.wal = NoDb BY <1>3 DEF FoldedWal
  <1>6. Held' = Held /\ kek_master' = kek_master BY <1>4 DEF Held, kek_master
  <1>7. CopyAgrees' = CopyAgrees /\ ReplacementAgrees' = ReplacementAgrees
    BY <1>3, <1>6 DEF CopyAgrees, ReplacementAgrees
  <1>8. LiveOpens' BY <1>4 DEF Vault, LiveOpens, Exists, NoDb
  <1>9. Owned' BY <1>3, <1>4, <1>6, <1>7 DEF Vault, Owned
  <1>10. Fresh' BY <1>3 DEF Vault, Fresh
  <1> QED BY <1>3, <1>4, <1>5, <1>6, <1>7, <1>8, <1>9, <1>10 DEF Vault

(* A step that replaces a spare by one that agrees with the live database,   *)
(* or while there is no key record to hold it to, keeps the vault.           *)
LEMMA SpareKept ==
    ASSUME Vault, draws \in Nat, draws' \in Nat, draws <= draws', pw \in Nat, pw' = pw,
           fs'.db = fs.db, fs'.wal = fs.wal, fs'.side = fs.side, fs'.mwal.rows = {},
           \A n \in Nat : fs'.pdb.key = Kek(n) => n < draws,
           fs.side.ver = 2 /\ fs.db.key = fs.side.dek => ~Exists(fs'.mdb),
           fs.side.ver = 2 /\ fs.db.key = kek_master => CopyAgrees' /\ ReplacementAgrees'
    PROVE  Vault' /\ Held' = Held /\ kek_master' = kek_master
  <1>1. kek_master' = kek_master /\ Held' = Held BY DEF kek_master, Held
  <1>2. LiveOpens' BY DEF Vault, LiveOpens
  <1>3. Owned' BY <1>1 DEF Vault, Owned
  <1>4. Fresh' BY DEF Vault, Fresh
  <1> QED BY <1>1, <1>2, <1>3, <1>4 DEF Vault

(* What the vault says of the two kinds of key record.                       *)
LEMMA VaultSays ==
    ASSUME Vault
    PROVE  /\ fs.side.ver \in {1, 2}
           /\ fs.side.ver = 1 => fs.db.key = kek_master
           /\ fs.side.ver = 2 => /\ fs.side.kek = kek_master /\ IsDek(fs.side.dek)
                                 /\ fs.side.dek # kek_master
           /\ fs.side.ver = 2 /\ fs.db.key # fs.side.dek =>
                 fs.db.key = kek_master /\ CopyAgrees /\ ReplacementAgrees
           /\ fs.side.ver = 2 /\ fs.db.key = fs.side.dek => ~Exists(fs.mdb)
           /\ fs.side.ver = 2 /\ fs.db.key = kek_master => CopyAgrees /\ ReplacementAgrees
           /\ Opens(fs.db, fs.wal, fs.db.key)
           /\ fs.db.health = "ok" => ReadsEndToEnd(fs.db, fs.wal, fs.db.key)
  <1>1. fs.side.ver = 2 => IsDek(fs.side.dek) BY DEF Vault, Owned
  <1>2. fs.side.ver = 2 => fs.side.dek # kek_master BY <1>1, KeysDiffer
  <1>3. Opens(fs.db, fs.wal, fs.db.key) BY DEF Vault, LiveOpens, Opens
  <1> QED BY <1>1, <1>2, <1>3 DEF Vault, Owned, ReadsEndToEnd

(* An unlock that ends relies on nothing.                                    *)
LEMMA EndRot ==
    ASSUME NEW w, EndUnlock(w), w # "wrong"
    PROVE  Mode' /\ NeverCalledWrong'
  <1>1. pc' = "locked" /\ via' = "none" /\ told' = w BY DEF EndUnlock
  <1>2. Mode'
    BY <1>1 DEF Mode, CopySteps, ConvertSteps, FinishSteps
  <1> QED BY <1>1, <1>2 DEF NeverCalledWrong

(* An exception inside the migration lands where the key record says.        *)
LEMMA RaiseRot ==
    ASSUME RotInv, Raise(fs.side.ver), fs'.side = fs.side, kek_master' = kek_master,
           fs.side.ver = 2 => fs.side.pending
    PROVE  Mode' /\ NeverCalledWrong'
  <1> USE DEF CopySteps, ConvertSteps, FinishSteps
  <1>1. CASE EndUnlock("error") BY <1>1, EndRot
  <1>2. CASE /\ pc' = "open" /\ hand' = kek_master /\ via' = "v1" /\ fs.side.ver = 1
             /\ told' = told
    BY <1>2 DEF RotInv, Mode, NeverCalledWrong
  <1>3. CASE pc' = "resume" /\ dek' = fs.side.dek /\ fs.side.ver = 2 /\ told' = told
    <2>1. HoldsDek' BY <1>3 DEF HoldsDek
    <2> QED BY <1>3, <2>1 DEF RotInv, Mode, NeverCalledWrong
  <1> QED BY <1>1, <1>2, <1>3 DEF Raise

(* _open_with next, on a v2 vault.                                           *)
LEMMA OpenNextRot ==
    ASSUME RotInv, OpenWithNext(fs.side.dek), fs'.side = fs.side, fs.side.ver = 2,
           via \notin {"branch1", "branch2"} \/ fs'.db.health = "ok"
    PROVE  Mode' /\ NeverCalledWrong'
  <1>1. pc' = "open" /\ hand' = fs.side.dek /\ via' = via /\ told' = told BY DEF OpenWithNext
  <1>2. Mode' BY <1>1 DEF Mode, CopySteps, ConvertSteps, FinishSteps
  <1> QED BY <1>1, <1>2 DEF RotInv, NeverCalledWrong

(* Starting an unlock, and _open_with.                                       *)
LEMMA UnlockRot ==
    ASSUME RotInv, Unlock \/ UnlockRecovery \/ OpenWith
    PROVE  Vault' /\ Mode' /\ NeverCalledWrong'
  <1> USE DEF CopySteps, ConvertSteps, FinishSteps
  <1>1. TypeOK /\ Vault /\ Mode /\ NeverCalledWrong BY DEF RotInv
  <1>2. pw \in Nat /\ draws \in Nat BY <1>1 DEF TypeOK
  <1>3. ASSUME NoDisk, Same PROVE Vault' /\ kek_master' = kek_master /\ fs' = fs
    BY <1>1, <1>2, <1>3, VaultKept DEF NoDisk, disk, Same, user
  <1>4. CASE UnlockV1
    <2>1. Opens(fs.db, fs.wal, kek_master) /\ fs.side.ver = 1
      BY <1>1, <1>4, VaultSays DEF UnlockV1
    <2>2. CloseLive(kek_master) /\ GotoVia("S0.db", "v1") /\ Same BY <1>4, <2>1 DEF UnlockV1
    <2>3. Vault' /\ fs'.wal = NoDb /\ fs'.side = fs.side
      BY <1>1, <2>1, <2>2, CloseKept DEF Same, user
    <2>4. pc' = "S0.db" /\ via' = "v1" /\ told' = told BY <2>2 DEF GotoVia
    <2>5. Mode' BY <2>1, <2>3, <2>4 DEF Mode
    <2> QED BY <1>1, <2>3, <2>4, <2>5 DEF NeverCalledWrong
  <1>5. CASE UnlockMaster
    <2>1. fs.side.ver = 2 /\ fs.side.kek = kek_master /\ via = "none"
      BY <1>1, <1>5, VaultSays DEF UnlockMaster, Mode
    <2>2. Vault' /\ fs' = fs BY <1>3, <1>5 DEF UnlockMaster
    <2>3. CASE fs.side.pending
      <3>1. pc' = "resume" /\ dek' = fs.side.dek /\ told' = told
        BY <1>5, <2>1, <2>3 DEF UnlockMaster
      <3>2. HoldsDek' BY <2>1, <2>2, <2>3, <3>1 DEF HoldsDek
      <3>3. Mode' BY <3>1, <3>2 DEF Mode
      <3> QED BY <1>1, <2>2, <3>1, <3>3 DEF NeverCalledWrong
    <2>4. CASE ~fs.side.pending
      BY <1>5, <2>1, <2>2, <2>4, OpenNextRot DEF UnlockMaster
    <2> QED BY <2>3, <2>4
  <1>6. CASE UnlockRecovery
    <2>1. fs.side.ver = 2 /\ via = "none" BY <1>1, <1>6 DEF UnlockRecovery, Mode
    <2>2. Vault' /\ fs' = fs BY <1>3, <1>6 DEF UnlockRecovery
    <2> QED BY <1>6, <2>1, <2>2, OpenNextRot DEF UnlockRecovery
  <1>7. CASE OpenWith
    <2>1. Vault' /\ fs' = fs /\ kek_master' = kek_master BY <1>3, <1>7 DEF OpenWith
    <2>2. CASE Opens(fs.db, fs.wal, hand)
      <3>1. pc' = "session" /\ hand' = hand /\ via' = via /\ told' = "opened" /\ hand = fs.db.key
        BY <1>7, <2>2 DEF OpenWith, Opens
      <3>2. /\ hand = IF fs.side.ver = 1 THEN kek_master ELSE fs.side.dek
            /\ via \in {"branch1", "branch2"} /\ fs.db.health = "page"
                  => ~RollbackUsable(fs, kek_master)
        BY <1>1, <1>7 DEF OpenWith, Mode
      <3>3. Mode' BY <2>1, <3>1, <3>2 DEF Mode
      <3> QED BY <2>1, <3>1, <3>3 DEF NeverCalledWrong
    <2>3. CASE ~Opens(fs.db, fs.wal, hand)
      <3>1. pc' = "locked" /\ via' = "none" /\ told' = "broken" BY <1>7, <2>3 DEF OpenWith
      <3> QED BY <2>1, <3>1 DEF Mode, NeverCalledWrong
    <2> QED BY <2>2, <2>3
  <1> QED BY <1>4, <1>5, <1>6, <1>7 DEF Unlock

(* S0: the copy is taken of the live database, closed, or not at all.        *)
LEMMA CopyRot ==
    ASSUME RotInv, S0
    PROVE  Vault' /\ Mode' /\ NeverCalledWrong'
  <1> USE DEF CopySteps, ConvertSteps, FinishSteps
  <1>1. TypeOK /\ Vault /\ Mode /\ NeverCalledWrong /\ fs \in Image
    BY DEF RotInv, TypeOK, DiskTypeOK
  <1>2. pw \in Nat /\ draws \in Nat BY <1>1 DEF TypeOK
  <1>3. /\ pc \in CopySteps /\ pw' = pw
    BY DEF S0, S0CopyDbStart, S0CopyDb, S0CopySideStart, S0CopySide, S0Verify, Same, user
  <1>4. /\ fs.wal = NoDb
        /\ \/ via = "v1" /\ fs.side.ver = 1
           \/ /\ via = "branch2" /\ OnV2
              /\ fs.mwal = NoDb /\ ReadsEndToEnd(fs.mdb, NoDb, dek)
           \/ via = "branch3" /\ OnV2 /\ ~Exists(fs.mdb)
    BY <1>1, <1>3 DEF Mode
  <1>5. fs.db.key = kek_master BY <1>1, <1>4, VaultSays DEF OnV2
  <1>6. ASSUME fs'.db = fs.db, fs'.wal = fs.wal, fs'.side = fs.side, fs'.mdb = fs.mdb,
               fs'.mwal = fs.mwal, kek_master' = kek_master,
               NEW l \in CopySteps, Goto(l), l \notin {"S0.db", "S0.db.write"} => CopyAgrees'
        PROVE  Mode' /\ NeverCalledWrong'
    <2>1. pc' = l /\ via' = via /\ dek' = dek /\ told' = told BY <1>6 DEF Goto
    <2>2. OnV2' = OnV2 BY <1>6, <2>1 DEF OnV2, HoldsDek
    <2>3. Mode' BY <1>4, <1>6, <2>1, <2>2 DEF Mode
    <2> QED BY <1>1, <2>1, <2>3 DEF NeverCalledWrong
  <1>7. CASE S0CopyDbStart
    <2>1. /\ fs'.db = fs.db /\ fs'.wal = fs.wal /\ fs'.side = fs.side /\ fs'.mdb = fs.mdb
          /\ fs'.mwal = fs.mwal /\ fs'.pdb = TornDb /\ draws' = draws
      BY <1>1, <1>7 DEF S0CopyDbStart, Change, RemoveCopyDb, Image, Same, user
    <2>2. CopyAgrees' BY <2>1 DEF CopyAgrees, ReadsEndToEnd, TornDb
    <2>3. fs.side.ver = 2 /\ fs.db.key = kek_master => ReplacementAgrees'
      BY <1>1, <2>1, VaultSays DEF ReplacementAgrees, Held
    <2>4. \A n \in Nat : fs'.pdb.key = Kek(n) => n < draws
      BY <2>1 DEF TornDb, NoKey, Kek
    <2>5. Vault' /\ kek_master' = kek_master
      BY <1>1, <1>2, <1>3, <2>1, <2>2, <2>3, <2>4, SpareKept, VaultSays DEF Vault
    <2> QED BY <1>6, <1>7, <2>1, <2>5 DEF S0CopyDbStart
  <1>8. CASE S0CopyDb
    <2>1. /\ fs'.db = fs.db /\ fs'.wal = fs.wal /\ fs'.side = fs.side /\ fs'.mdb = fs.mdb
          /\ fs'.mwal = fs.mwal /\ fs'.pdb = fs.db /\ draws' = draws
      BY <1>1, <1>8 DEF S0CopyDb, Change, WriteCopyDb, Image, Same, user
    <2>2. CopyAgrees'
      <3>1. fs.db.rows = RowsOf(fs.db, NoDb) BY DEF RowsOf, NoDb
      <3> QED BY <1>4, <2>1, <3>1 DEF CopyAgrees, Held
    <2>3. fs.side.ver = 2 /\ fs.db.key = kek_master => ReplacementAgrees'
      BY <1>1, <2>1, VaultSays DEF ReplacementAgrees, Held
    <2>4. \A n \in Nat : fs'.pdb.key = Kek(n) => n < draws
      <3>1. ASSUME NEW n \in Nat, Kek(pw) = Kek(n) PROVE n = pw BY <3>1 DEF Kek
      <3> QED BY <1>1, <1>5, <2>1, <3>1 DEF kek_master, Vault, Fresh
    <2>5. Vault' /\ kek_master' = kek_master
      BY <1>1, <1>2, <1>3, <2>1, <2>2, <2>3, <2>4, SpareKept, VaultSays DEF Vault
    <2> QED BY <1>6, <1>8, <2>1, <2>2, <2>5 DEF S0CopyDb
  <1>9. CASE S0CopySideStart \/ S0CopySide
    <2>1. /\ fs'.db = fs.db /\ fs'.wal = fs.wal /\ fs'.side = fs.side /\ fs'.mdb = fs.mdb
          /\ fs'.mwal = fs.mwal /\ fs'.pdb = fs.pdb /\ draws' = draws
      BY <1>1, <1>9 DEF S0CopySideStart, S0CopySide, Change, ChangeAndSync, RemoveCopySide,
                        WriteCopySide, Image, Same, user
    <2>2. Vault' /\ kek_master' = kek_master /\ CopyAgrees' = CopyAgrees
      BY <1>1, <1>2, <1>3, <2>1, VaultKept
    <2>3. CopyAgrees BY <1>1, <1>9 DEF S0CopySideStart, S0CopySide, Mode
    <2> QED BY <1>6, <1>9, <2>1, <2>2, <2>3 DEF S0CopySideStart, S0CopySide
  <1>10. CASE S0Verify
    <2>1. fs' = fs BY <1>10 DEF S0Verify, NoDisk, disk
    <2>2. draws' \in {draws, draws + 1} BY <1>10 DEF S0Verify, user
    <2>3. draws' \in Nat /\ draws <= draws' BY <1>2, <2>2
    <2>4. Vault' /\ kek_master' = kek_master /\ CopyAgrees' = CopyAgrees
      BY <1>1, <1>2, <1>3, <2>1, <2>3, VaultKept
    <2>5. CopyAgrees BY <1>1, <1>10 DEF S0Verify, Mode
    <2>6. CASE ~RollbackUsable(fs, kek_master)
      <3>1. Raise(fs.side.ver) BY <1>10, <2>6 DEF S0Verify
      <3>2. fs.side.ver = 2 => fs.side.pending BY <1>4 DEF OnV2, HoldsDek
      <3> QED BY <2>1, <2>4, <3>1, <3>2, RaiseRot
    <2>7. CASE via = "v1" /\ RollbackUsable(fs, kek_master)
      <3>1. pc' = "S1" /\ via' = "v1" /\ dek' = Dek(draws) /\ told' = told
        BY <1>10, <2>7 DEF S0Verify, Goto
      <3>2. fs.side.ver = 1 BY <1>4, <2>7
      <3>3. IsDek(dek') BY <3>1, KeysDiffer
      <3>4. Mode' BY <2>1, <2>4, <2>5, <3>1, <3>2, <3>3 DEF Mode, IsDek
      <3> QED BY <1>1, <2>4, <3>1, <3>4 DEF NeverCalledWrong
    <2>8. CASE via = "branch2" /\ RollbackUsable(fs, kek_master)
      <3>1. pc' = "S5" /\ via' = via /\ dek' = dek /\ told' = told
        BY <1>10, <2>8 DEF S0Verify, Goto
      <3>2. OnV2' BY <1>4, <2>1, <2>4, <2>8, <3>1 DEF OnV2, HoldsDek
      <3>3. Mode' BY <1>4, <2>1, <2>8, <3>1, <3>2 DEF Mode
      <3> QED BY <1>1, <2>4, <3>1, <3>3 DEF NeverCalledWrong
    <2>9. CASE via = "branch3" /\ RollbackUsable(fs, kek_master)
      <3>1. pc' = "S1" /\ via' = via /\ dek' = dek /\ told' = told
        BY <1>10, <2>9 DEF S0Verify, Goto
      <3>2. OnV2' BY <1>4, <2>1, <2>4, <2>9, <3>1 DEF OnV2, HoldsDek
      <3>3. IsDek(dek) BY <1>1, <1>4, <2>9, VaultSays DEF OnV2, HoldsDek
      <3>4. Mode' BY <1>4, <2>1, <2>4, <2>5, <2>9, <3>1, <3>2, <3>3 DEF Mode, IsDek
      <3> QED BY <1>1, <2>4, <3>1, <3>4 DEF NeverCalledWrong
    <2> QED BY <1>4, <2>6, <2>7, <2>8, <2>9
  <1> QED BY <1>7, <1>8, <1>9, <1>10 DEF S0

(* S1..S4: the replacement is made of what the live database holds.          *)
LEMMA ConvertRot ==
    ASSUME RotInv, Convert
    PROVE  Vault' /\ Mode' /\ NeverCalledWrong'
  <1> USE DEF CopySteps, ConvertSteps, FinishSteps
  <1>1. TypeOK /\ Vault /\ Mode /\ NeverCalledWrong /\ fs \in Image
    BY DEF RotInv, TypeOK, DiskTypeOK
  <1>2. pw \in Nat /\ draws \in Nat BY <1>1 DEF TypeOK
  <1>3. /\ pc \in ConvertSteps /\ pw' = pw /\ draws' = draws
    BY DEF Convert, S1Start, S1Export, S2Open, S2Check, S3, S4, Same, user
  <1>4. /\ IsDek(dek) /\ CopyAgrees
        /\ \/ via = "v1" /\ fs.side.ver = 1
           \/ via = "branch3" /\ OnV2
    BY <1>1, <1>3 DEF Mode
  <1>5. fs.db.key = kek_master BY <1>1, <1>4, VaultSays DEF OnV2
  <1>6. kek_master' = kek_master BY <1>3 DEF kek_master
  <1>7. fs.side.ver = 2 => fs.side.pending BY <1>4 DEF OnV2, HoldsDek
  <1>8. Opens(fs.db, fs.wal, kek_master) BY <1>1, <1>5, VaultSays
  <1>9. fs.side.ver \in {1, 2} /\ (fs.side.ver = 2 => fs.db.key # fs.side.dek)
    BY <1>1, <1>5, VaultSays
  (* Where the live pair's keys stay, so does the route. *)
  <1>10. ASSUME fs'.db.key = fs.db.key, fs'.side = fs.side, NEW l \in ConvertSteps \ {"S1"},
                Goto(l), CopyAgrees',
                l # "S2.check" => fs'.mwal = NoDb,
                l = "S2.check" => fs'.mwal = NewDb(dek, {}),
                l # "S1.export" => fs'.mdb = NewDb(dek, Held') /\ fs'.wal = NoDb,
                l = "S4" => fs'.mside = V2Side(kek_master, dek, TRUE)
         PROVE  Mode' /\ NeverCalledWrong'
    <2>1. pc' = l /\ via' = via /\ dek' = dek /\ told' = told BY <1>10 DEF Goto
    <2>2. \/ via' = "v1" /\ fs'.side.ver = 1
          \/ via' = "branch3" /\ OnV2'
      BY <1>4, <1>6, <1>10, <2>1 DEF OnV2, HoldsDek
    <2>3. IsDek(dek)' BY <1>4, <2>1 DEF IsDek
    <2>4. Mode' BY <1>6, <1>10, <2>1, <2>2, <2>3 DEF Mode
    <2> QED BY <1>1, <2>1, <2>4 DEF NeverCalledWrong
  <1>11. CASE S1Start
    <2>1. Change(StartExport) /\ Goto("S1.export") BY <1>8, <1>11 DEF S1Start
    <2>2. /\ fs'.db = fs.db /\ fs'.side = fs.side /\ fs'.mdb = TornDb /\ fs'.mwal = NoDb
          /\ fs'.pdb = fs.pdb
          /\ fs'.wal = IF Exists(fs.wal) THEN fs.wal ELSE NewDb(kek_master, {})
      BY <1>1, <2>1 DEF Change, StartExport, CreateMigrating, Image
    <2>3. Held' = Held
      <3>1. CASE Exists(fs.wal) BY <2>2, <3>1 DEF Held
      <3>2. CASE ~Exists(fs.wal)
        <4>1. fs.wal = NoDb BY <1>1, <3>2 DEF Vault, LiveOpens
        <4>2. fs.wal.rows = {} /\ fs'.wal.rows = {} BY <2>2, <3>2, <4>1 DEF NoDb, NewDb
        <4> QED BY <2>2, <4>2 DEF Held, RowsOf
      <3> QED BY <3>1, <3>2
    <2>4. CopyAgrees' BY <1>4, <1>6, <2>2, <2>3 DEF CopyAgrees
    <2>5. ReplacementAgrees' BY <2>2 DEF ReplacementAgrees, ReadsEndToEnd, TornDb
    <2>6. LiveOpens'
      <3>1. Exists(NewDb(kek_master, {})) /\ NewDb(kek_master, {}).key = kek_master
        BY DEF NewDb, Exists
      <3> QED BY <1>1, <1>5, <2>2, <3>1 DEF Vault, LiveOpens
    <2>7. Owned' BY <1>1, <1>5, <1>6, <1>9, <2>2, <2>4, <2>5 DEF Vault, Owned
    <2>8. Fresh' BY <1>1, <1>3, <2>2 DEF Vault, Fresh
    <2>9. Vault' BY <2>2, <2>6, <2>7, <2>8 DEF Vault, NoDb
    <2> QED BY <1>10, <2>1, <2>2, <2>4, <2>9
  <1>12. CASE S1Export
    <2>1. CASE CloseLive(kek_master) /\ Raise(fs.side.ver)
      <3>1. Vault' /\ fs'.side = fs.side BY <1>1, <1>3, <2>1, CloseKept
      <3> QED BY <1>6, <1>7, <2>1, <3>1, RaiseRot
    <2>2. CASE Change(ExportDone) /\ Goto("S2")
      <3> DEFINE w == WriteMigrating(fs)
      <3>1. /\ w.db = fs.db /\ w.wal = fs.wal /\ w.side = fs.side /\ w.mwal = fs.mwal
            /\ w.pdb = fs.pdb /\ w.mdb = NewDb(dek, Held) /\ w \in Image
        <4>1. Held \in SUBSET Rows BY <1>1 DEF Held, RowsOf, Image, DbFile
        <4>2. NewDb(dek, Held) \in DbFile BY <1>1, <4>1, BuiltTypes DEF TypeOK
        <4>3. w = [fs EXCEPT !.mdb = NewDb(dek, Held)] BY DEF WriteMigrating, Held
        <4> QED BY <1>1, <4>2, <4>3 DEF Image
      <3> HIDE DEF w
      <3>2. fs' = FoldLive(w, kek_master) BY <2>2 DEF Change, ExportDone, w
      <3>3. /\ fs'.side = fs.side /\ fs'.mdb = NewDb(dek, Held) /\ fs'.mwal = fs.mwal
            /\ fs'.pdb = fs.pdb /\ fs'.db.key = fs.db.key /\ fs'.db.health = fs.db.health
            /\ fs'.wal = NoDb
        BY <1>8, <3>1, <3>2 DEF FoldLive, Folded, FoldedWal, Image, DbFile
      <3>4. Held' = Held BY <3>1, <3>2, FoldFacts DEF Held
      <3>5. CopyAgrees' BY <1>4, <1>6, <3>3, <3>4 DEF CopyAgrees
      <3>6. fs.mwal = NoDb BY <1>1, <1>12 DEF S1Export, Mode
      <3>7. ReplacementAgrees'
        <4>1. RowsOf(fs'.mdb, fs'.mwal) = Held
          BY <3>3, <3>6 DEF RowsOf, NewDb, NoDb
        <4> QED BY <3>4, <4>1 DEF ReplacementAgrees
      <3>8. LiveOpens' BY <1>1, <3>3 DEF Vault, LiveOpens, Exists, NoDb
      <3>9. Owned' BY <1>1, <1>5, <1>6, <1>9, <3>3, <3>5, <3>7 DEF Vault, Owned
      <3>10. Fresh' BY <1>1, <1>3, <3>3 DEF Vault, Fresh
      <3>11. Vault' BY <3>3, <3>6, <3>8, <3>9, <3>10 DEF Vault, NoDb
      <3> QED BY <1>10, <2>2, <3>3, <3>4, <3>5, <3>6, <3>11
    <2> QED BY <1>12, <2>1, <2>2 DEF S1Export
  (* S2 and S3 touch the replacement's own files. *)
  <1>13. ASSUME fs'.db = fs.db, fs'.wal = fs.wal, fs'.side = fs.side, fs'.mdb = fs.mdb,
                fs'.pdb = fs.pdb, fs'.mwal \in {NoDb, NewDb(dek, {})},
                fs.mdb = NewDb(dek, Held)
         PROVE  Vault' /\ Held' = Held /\ CopyAgrees'
    <2>1. fs'.mwal.rows = {} BY <1>13 DEF NoDb, NewDb
    <2>2. RowsOf(fs'.mdb, fs'.mwal) = Held BY <1>13, <2>1 DEF RowsOf, NewDb
    <2>3. Held' = Held BY <1>13 DEF Held
    <2>4. CopyAgrees' /\ ReplacementAgrees'
      BY <1>4, <1>6, <1>13, <2>2, <2>3 DEF CopyAgrees, ReplacementAgrees
    <2>5. \A n \in Nat : fs'.pdb.key = Kek(n) => n < draws BY <1>1, <1>13 DEF Vault, Fresh
    <2> QED BY <1>1, <1>2, <1>3, <1>9, <1>13, <2>1, <2>3, <2>4, <2>5, SpareKept
  <1>14. CASE S2Open
    <2>1. fs.mdb = NewDb(dek, Held) /\ fs.mwal = NoDb /\ fs.wal = NoDb
      BY <1>1, <1>14 DEF S2Open, Mode
    <2>2. Opens(fs.mdb, fs.mwal, dek) BY <2>1 DEF Opens, NewDb, NoDb, Exists
    <2>3. Change(OpenReplacement) /\ Goto("S2.check") BY <1>14, <2>2 DEF S2Open
    <2>4. /\ fs'.db = fs.db /\ fs'.wal = fs.wal /\ fs'.side = fs.side /\ fs'.mdb = fs.mdb
          /\ fs'.pdb = fs.pdb /\ fs'.mwal = NewDb(dek, {})
      BY <1>1, <2>3 DEF Change, OpenReplacement, Image
    <2>5. Vault' /\ Held' = Held /\ CopyAgrees' BY <1>13, <2>1, <2>4
    <2> QED BY <1>10, <2>1, <2>3, <2>4, <2>5
  <1>15. CASE S2Check
    <2>1. fs.mdb = NewDb(dek, Held) /\ fs.mwal = NewDb(dek, {}) /\ fs.wal = NoDb
      BY <1>1, <1>15 DEF S2Check, Mode
    <2>2. ReadsEndToEnd(fs.mdb, fs.mwal, dek) BY <2>1 DEF ReadsEndToEnd, Opens, NewDb
    <2>3. RowCounts(fs.mdb, fs.mwal) = RowCounts(fs.db, fs.wal)
      <3>1. RowsOf(fs.mdb, fs.mwal) = RowsOf(fs.db, fs.wal) BY <2>1 DEF RowsOf, NewDb, Held
      <3> QED BY <3>1 DEF RowCounts
    <2>4. Change(CloseReplacement) /\ Goto("S3") BY <1>15, <2>2, <2>3 DEF S2Check
    <2>5. /\ fs'.db = fs.db /\ fs'.wal = fs.wal /\ fs'.side = fs.side /\ fs'.mdb = fs.mdb
          /\ fs'.pdb = fs.pdb /\ fs'.mwal = NoDb
      BY <1>1, <2>4 DEF Change, CloseReplacement, Image
    <2>6. Vault' /\ Held' = Held /\ CopyAgrees' BY <1>13, <2>1, <2>5
    <2> QED BY <1>10, <2>1, <2>4, <2>5, <2>6
  <1>16. CASE S3
    <2>1. fs.mdb = NewDb(dek, Held) /\ fs.mwal = NoDb /\ fs.wal = NoDb
      BY <1>1, <1>16 DEF S3, Mode
    <2>2. /\ fs'.db = fs.db /\ fs'.wal = fs.wal /\ fs'.side = fs.side /\ fs'.mdb = fs.mdb
          /\ fs'.pdb = fs.pdb /\ fs'.mwal = fs.mwal /\ fs'.mside = V2Side(kek_master, dek, TRUE)
          /\ Goto("S4")
      BY <1>1, <1>16 DEF S3, ChangeAndSync, WriteNewSidecar, Image
    <2>3. Vault' /\ Held' = Held /\ CopyAgrees' BY <1>13, <2>1, <2>2
    <2> QED BY <1>10, <2>1, <2>2, <2>3
  <1>17. CASE S4
    <2>1. /\ fs.mdb = NewDb(dek, Held) /\ fs.mwal = NoDb /\ fs.wal = NoDb
          /\ fs.mside = V2Side(kek_master, dek, TRUE)
      BY <1>1, <1>17 DEF S4, Mode
    <2>2. /\ fs'.db = fs.db /\ fs'.wal = fs.wal /\ fs'.side = fs.mside /\ fs'.mdb = fs.mdb
          /\ fs'.pdb = fs.pdb /\ fs'.mwal = fs.mwal
          /\ pc' = "S5" /\ via' = via /\ dek' = dek /\ told' = told
      BY <1>1, <1>17 DEF S4, ChangeAndSync, SwapSidecar, Image, Goto
    <2>3. /\ fs'.side.ver = 2 /\ fs'.side.kek = kek_master /\ fs'.side.dek = dek
          /\ fs'.side.pending
      BY <2>1, <2>2 DEF V2Side
    <2>4. Held' = Held BY <2>2 DEF Held
    <2>5. CopyAgrees' BY <1>4, <1>6, <2>2, <2>4 DEF CopyAgrees
    <2>6. ReplacementAgrees'
      <3>1. RowsOf(fs'.mdb, fs'.mwal) = Held BY <2>1, <2>2 DEF RowsOf, NewDb, NoDb
      <3> QED BY <2>4, <3>1 DEF ReplacementAgrees
    <2>7. IsDek(fs'.side.dek) BY <1>4, <2>3
    <2>8. Owned' BY <1>5, <1>6, <2>2, <2>3, <2>5, <2>6, <2>7 DEF Owned, IsDek
    <2>9. LiveOpens' BY <1>1, <2>2 DEF Vault, LiveOpens
    <2>10. Fresh' BY <1>1, <1>3, <2>2 DEF Vault, Fresh
    <2>11. Vault' BY <1>1, <2>2, <2>8, <2>9, <2>10 DEF Vault
    <2>12. OnV2' BY <1>5, <1>6, <2>2, <2>3 DEF OnV2, HoldsDek
    <2>13. ReadsEndToEnd(fs'.mdb, NoDb, dek')
      BY <2>1, <2>2 DEF ReadsEndToEnd, Opens, NewDb, NoDb, Exists
    <2>14. Mode' BY <2>1, <2>2, <2>12, <2>13 DEF Mode
    <2> QED BY <1>1, <2>2, <2>11, <2>14 DEF NeverCalledWrong
  <1> QED BY <1>11, <1>12, <1>14, <1>15, <1>16, <1>17 DEF Convert

(* S5 and S6: the replacement becomes the live database, and only over one   *)
(* that reads is the copy burned.                                            *)
LEMMA SwapRot ==
    ASSUME RotInv, SwapAndFinish
    PROVE  Vault' /\ Mode' /\ NeverCalledWrong'
  <1> USE DEF CopySteps, ConvertSteps, FinishSteps
  <1>1. TypeOK /\ Vault /\ Mode /\ NeverCalledWrong /\ fs \in Image
    BY DEF RotInv, TypeOK, DiskTypeOK
  <1>2. pw \in Nat /\ draws \in Nat BY <1>1 DEF TypeOK
  <1>3. pw' = pw /\ draws' = draws
    BY DEF SwapAndFinish, S5Drop, S5Swap, S5Sync, S6Db, S6Side, S6Sync, S6Clear, Same, user
  <1>4. kek_master' = kek_master BY <1>3 DEF kek_master
  <1>5. CASE S5Drop
    <2>1. OnV2 /\ fs.mwal = NoDb /\ ReadsEndToEnd(fs.mdb, NoDb, dek) /\ fs.wal = NoDb
      BY <1>1, <1>5 DEF S5Drop, Mode
    <2>2. /\ fs'.db = fs.db /\ fs'.wal = NoDb /\ fs'.side = fs.side /\ fs'.mdb = fs.mdb
          /\ fs'.pdb = fs.pdb /\ fs'.mwal = NoDb
          /\ pc' = "S5.swap" /\ via' = via /\ dek' = dek /\ told' = told
      BY <1>1, <1>5 DEF S5Drop, Change, DropWals, Image, Goto
    <2>3. Vault' BY <1>1, <1>2, <1>3, <2>1, <2>2, VaultKept
    <2>4. OnV2' BY <1>4, <2>1, <2>2 DEF OnV2, HoldsDek
    <2>5. Mode' BY <2>1, <2>2, <2>4 DEF Mode
    <2> QED BY <1>1, <2>2, <2>3, <2>5 DEF NeverCalledWrong
  <1>6. CASE S5Swap
    <2>1. OnV2 /\ fs.mwal = NoDb /\ ReadsEndToEnd(fs.mdb, NoDb, dek) /\ fs.wal = NoDb
      BY <1>1, <1>6 DEF S5Swap, Mode
    <2>2. /\ fs'.db = fs.mdb /\ fs'.wal = fs.wal /\ fs'.side = fs.side /\ fs'.mdb = NoDb
          /\ fs'.pdb = fs.pdb /\ fs'.mwal = fs.mwal
          /\ pc' = "S5.sync" /\ dek' = dek /\ via' = via /\ told' = told
      BY <1>1, <1>6 DEF S5Swap, Change, SwapDb, Image, Goto
    <2>3. fs'.db.key = dek /\ fs'.db.health = "ok" BY <2>1, <2>2 DEF ReadsEndToEnd, Opens
    <2>4. LiveOpens' BY <2>1, <2>2, <2>3 DEF LiveOpens, Exists, NoDb
    <2>5. ~Exists(fs'.mdb) BY <2>2 DEF Exists, NoDb
    <2>6. fs.side.ver = 2 /\ fs.side.kek = kek_master /\ IsDek(fs.side.dek) /\ dek = fs.side.dek
      BY <1>1, <2>1, VaultSays DEF OnV2, HoldsDek
    <2>7. Owned' BY <1>4, <2>2, <2>3, <2>5, <2>6 DEF Owned
    <2>8. Fresh' BY <1>1, <1>3, <2>2 DEF Vault, Fresh
    <2>9. Vault' BY <1>1, <2>2, <2>4, <2>7, <2>8 DEF Vault
    <2>10. HoldsDek' BY <2>1, <2>2 DEF OnV2, HoldsDek
    <2>11. Mode' BY <2>2, <2>3, <2>10 DEF Mode
    <2> QED BY <1>1, <2>2, <2>9, <2>11 DEF NeverCalledWrong
  <1>7. CASE S5Sync \/ S6Db \/ S6Side \/ S6Sync
    <2>1. HoldsDek /\ fs.db.key = dek /\ fs.db.health = "ok"
      BY <1>1, <1>7 DEF S5Sync, S6Db, S6Side, S6Sync, Mode
    <2>2. /\ fs'.db = fs.db /\ fs'.wal = fs.wal /\ fs'.side = fs.side /\ fs'.mdb = fs.mdb
          /\ fs'.mwal = fs.mwal /\ fs'.pdb \in {fs.pdb, NoDb}
          /\ pc' \in {"readback", "S6", "S6.side", "S6.sync", "S6.clear"}
          /\ dek' = dek /\ told' = told
      BY <1>1, <1>7 DEF S5Sync, S6Db, S6Side, S6Sync, Change, fsync_dir, BurnCopyDb,
                        BurnCopySide, Image, Goto
    <2>3. \A n \in Nat : fs'.pdb.key = Kek(n) => n < draws
      BY <1>1, <2>2 DEF Vault, Fresh, NoDb, NoKey, Kek
    <2>4. fs.side.ver = 2 /\ fs.db.key = fs.side.dek BY <2>1 DEF HoldsDek
    <2>5. ~Exists(fs.mdb) /\ fs.db.key # kek_master BY <1>1, <2>4, VaultSays
    <2>6. Vault'
      BY <1>1, <1>2, <1>3, <2>2, <2>3, <2>5, SpareKept DEF Vault
    <2>7. HoldsDek' BY <2>1, <2>2 DEF HoldsDek
    <2>8. Mode' BY <2>1, <2>2, <2>7 DEF Mode
    <2> QED BY <1>1, <2>2, <2>6, <2>8 DEF NeverCalledWrong
  <1>8. CASE S6Clear
    <2>1. HoldsDek /\ fs.db.key = dek /\ fs.db.health = "ok" BY <1>1, <1>8 DEF S6Clear, Mode
    <2>2. /\ fs'.db = fs.db /\ fs'.wal = fs.wal /\ fs'.mdb = fs.mdb /\ fs'.mwal = fs.mwal
          /\ fs'.pdb = fs.pdb /\ fs'.side.ver = fs.side.ver /\ fs'.side.kek = fs.side.kek
          /\ fs'.side.dek = fs.side.dek
          /\ pc' = "open" /\ hand' = dek /\ told' = told
      BY <1>1, <1>8 DEF S6Clear, ChangeAndSync, ClearPending, Image, Sidecar
    <2>3. fs.side.ver = 2 /\ fs.db.key = fs.side.dek /\ dek = fs.side.dek
      BY <2>1 DEF HoldsDek
    <2>4. ~Exists(fs.mdb) /\ fs.side.kek = kek_master /\ IsDek(fs.side.dek)
      BY <1>1, <2>3, VaultSays
    <2>5. Owned' BY <1>4, <2>2, <2>3, <2>4 DEF Owned
    <2>6. LiveOpens' BY <1>1, <2>2 DEF Vault, LiveOpens
    <2>7. Fresh' BY <1>1, <1>3, <2>2 DEF Vault, Fresh
    <2>8. Vault' BY <1>1, <2>2, <2>5, <2>6, <2>7 DEF Vault
    <2>9. Mode' BY <2>1, <2>2, <2>3 DEF Mode
    <2> QED BY <1>1, <2>2, <2>8, <2>9 DEF NeverCalledWrong
  <1> QED BY <1>5, <1>6, <1>7, <1>8 DEF SwapAndFinish

(* Branch 2's probes close what they open, and lose nothing.                 *)
LEMMA ProbesClose ==
    ASSUME TypeOK, Vault, Change(CloseProbes), pw' = pw, draws' = draws,
           fs.side.ver = 2, dek = fs.side.dek, fs.db.key = kek_master
    PROVE  /\ Vault' /\ kek_master' = kek_master
           /\ fs'.wal = NoDb /\ fs'.side = fs.side /\ fs'.mdb = fs.mdb
           /\ fs'.db.key = fs.db.key /\ fs'.db.health = fs.db.health
           /\ fs'.pdb = fs.pdb /\ fs'.pside = fs.pside
           /\ Opens(fs.mdb, fs.mwal, dek) => fs'.mwal = NoDb
  <1> DEFINE f == FoldLive(fs, kek_master)
  <1>1. fs \in Image /\ kek_master \in Key
    BY BuiltTypes DEF TypeOK, DiskTypeOK, kek_master
  <1>2. f \in Image BY <1>1, FoldTypes DEF FoldLive, Image
  <1>3. Opens(fs.db, fs.wal, kek_master) BY VaultSays
  <1>4. /\ f.side = fs.side /\ f.mdb = fs.mdb /\ f.mwal = fs.mwal
        /\ f.pdb = fs.pdb /\ f.pside = fs.pside /\ f.wal = NoDb
    BY <1>1, <1>3 DEF FoldLive, FoldedWal, Image
  <1>5. f.db.key = fs.db.key /\ f.db.health = fs.db.health /\ RowsOf(f.db, f.wal) = Held
    BY <1>1, FoldFacts DEF Held
  <1> HIDE DEF f
  <1>6. fs' = FoldMigrating(f, dek) BY DEF Change, CloseProbes, f
  <1>7. /\ fs'.db = f.db /\ fs'.wal = f.wal /\ fs'.side = f.side
        /\ fs'.pdb = f.pdb /\ fs'.pside = f.pside
        /\ fs'.mdb = Folded(f.mdb, f.mwal, dek) /\ fs'.mwal = FoldedWal(f.mdb, f.mwal, dek)
    BY <1>2, <1>6 DEF FoldMigrating, Image
  <1>8. fs.mwal.rows = {} BY DEF Vault
  <1>9. Folded(fs.mdb, fs.mwal, dek) = fs.mdb
    BY <1>1, <1>8 DEF Folded, RowsOf, Image, DbFile
  <1>10. fs'.mdb = fs.mdb /\ fs'.mwal = FoldedWal(fs.mdb, fs.mwal, dek) BY <1>4, <1>7, <1>9
  <1>11. Opens(fs.mdb, fs.mwal, dek) => fs'.mwal = NoDb BY <1>10 DEF FoldedWal
  <1>12. fs'.mwal \in {fs.mwal, NoDb} BY <1>10 DEF FoldedWal
  <1>13. fs'.mwal.rows = {} BY <1>8, <1>12 DEF NoDb
  <1>14. kek_master' = kek_master /\ Held' = Held BY <1>5, <1>7 DEF kek_master, Held
  <1>15. CopyAgrees /\ ReplacementAgrees BY VaultSays
  <1>16. CopyAgrees' BY <1>4, <1>7, <1>14, <1>15 DEF CopyAgrees
  <1>17. ReplacementAgrees'
    <2>1. RowsOf(fs'.mdb, fs'.mwal) = RowsOf(fs.mdb, fs.mwal)
      BY <1>8, <1>10, <1>13 DEF RowsOf
    <2>2. fs'.side = fs.side BY <1>4, <1>7
    <2>3. ReadsEndToEnd(fs'.mdb, fs'.mwal, fs.side.dek) => ReadsEndToEnd(fs.mdb, fs.mwal, fs.side.dek)
      BY <1>10 DEF FoldedWal, ReadsEndToEnd
    <2> QED BY <1>14, <1>15, <2>1, <2>2, <2>3 DEF ReplacementAgrees
  <1>18. LiveOpens' BY <1>4, <1>5, <1>7 DEF Vault, LiveOpens, Exists, NoDb
  <1>19. Owned' BY <1>4, <1>5, <1>7, <1>14, <1>16, <1>17 DEF Vault, Owned
  <1>20. Fresh' BY <1>4, <1>7 DEF Vault, Fresh
  <1> QED
    BY <1>4, <1>5, <1>7, <1>10, <1>11, <1>13, <1>14, <1>18, <1>19, <1>20 DEF Vault

(* A replacement is found unsound only when it does not read.                *)
LEMMA UnsoundUnread ==
    ASSUME ReplacementAgrees, dek = fs.side.dek, "unsound" \in Verdicts
    PROVE  ~ReadsEndToEnd(fs.mdb, fs.mwal, dek)
  <1> SUFFICES ASSUME ReadsEndToEnd(fs.mdb, fs.mwal, dek) PROVE FALSE OBVIOUS
  <1>1. RowCounts(fs.mdb, fs.mwal) = RowCounts(fs.db, fs.wal)
    BY DEF ReplacementAgrees, Held, RowCounts
  <1> QED BY <1>1 DEF Verdicts

(* The resume ladder.                                                        *)
LEMMA ResumeRot ==
    ASSUME RotInv, Resume
    PROVE  Vault' /\ Mode' /\ NeverCalledWrong'
  <1> USE DEF CopySteps, ConvertSteps, FinishSteps
  <1>1. TypeOK /\ Vault /\ Mode /\ NeverCalledWrong /\ fs \in Image
    BY DEF RotInv, TypeOK, DiskTypeOK
  <1>2. pw \in Nat /\ draws \in Nat BY <1>1 DEF TypeOK
  <1>3. pw' = pw /\ draws' = draws
    BY DEF Resume, ResumeBranch1, ResumeBranch2, ResumeNoReplacement, ResumeBranch3, ReadBack,
           Same, user
  <1>4. kek_master' = kek_master BY <1>3 DEF kek_master
  <1>5. CASE ResumeBranch1
    <2>1. HoldsDek /\ Opens(fs.db, fs.wal, dek) /\ CloseLive(dek) /\ via' = "branch1"
          /\ FinishIfReadable(fs)
      BY <1>1, <1>5 DEF ResumeBranch1, Mode
    <2>2. /\ Vault' /\ fs'.db.key = dek /\ fs'.db.health = fs.db.health /\ fs'.wal = NoDb
          /\ fs'.side = fs.side /\ fs'.pdb = fs.pdb /\ fs'.pside = fs.pside
      BY <1>1, <1>3, <2>1, CloseKept DEF Opens
    <2>3. RollbackUsable(fs, kek_master)' = RollbackUsable(fs, kek_master)
      BY <1>4, <2>2 DEF RollbackUsable
    <2>4. CASE ReadsEndToEnd(fs.db, fs.wal, dek)
      <3>1. pc' = "S6" /\ dek' = dek /\ told' = told BY <2>1, <2>4 DEF FinishIfReadable
      <3>2. HoldsDek' /\ fs'.db.health = "ok"
        BY <2>1, <2>2, <2>4, <3>1 DEF HoldsDek, ReadsEndToEnd
      <3>3. Mode' BY <2>2, <3>1, <3>2 DEF Mode
      <3> QED BY <1>1, <2>2, <3>1, <3>3 DEF NeverCalledWrong
    <2>5. CASE ~ReadsEndToEnd(fs.db, fs.wal, dek) /\ RollbackUsable(fs, kek_master)
      <3>1. pc' = "offer" /\ dek' = dek /\ told' = "offer" BY <2>1, <2>5 DEF FinishIfReadable
      <3>2. HoldsDek' BY <2>1, <2>2, <3>1 DEF HoldsDek
      <3>3. Mode' BY <2>2, <2>3, <2>5, <3>1, <3>2 DEF Mode
      <3> QED BY <1>1, <2>2, <3>1, <3>3 DEF NeverCalledWrong
    <2>6. CASE ~ReadsEndToEnd(fs.db, fs.wal, dek) /\ ~RollbackUsable(fs, kek_master)
      <3>1. pc' = "open" /\ hand' = dek /\ told' = told BY <2>1, <2>6 DEF FinishIfReadable
      <3>2. hand' = fs'.side.dek /\ fs'.side.ver = 2 BY <2>1, <2>2, <3>1 DEF HoldsDek
      <3>3. Mode' BY <2>3, <2>6, <3>1, <3>2 DEF Mode
      <3> QED BY <1>1, <2>2, <3>1, <3>3 DEF NeverCalledWrong
    <2> QED BY <2>4, <2>5, <2>6
  <1>6. CASE ReadBack
    <2>1. HoldsDek /\ fs.db.key = dek /\ fs.db.health = "ok" /\ fs' = fs
      BY <1>1, <1>6 DEF ReadBack, Mode, NoDisk, disk
    <2>2. ReadsEndToEnd(fs.db, fs.wal, dek) BY <1>1, <2>1, VaultSays
    <2>3. pc' = "S6" /\ dek' = dek /\ told' = told BY <1>6, <2>2 DEF ReadBack, FinishIfReadable
    <2>4. Vault' BY <1>1, <1>2, <1>3, <2>1, VaultKept
    <2>5. HoldsDek' BY <2>1, <2>3 DEF HoldsDek
    <2>6. Mode' BY <2>1, <2>3, <2>5 DEF Mode
    <2> QED BY <1>1, <2>3, <2>4, <2>6 DEF NeverCalledWrong
  <1>7. CASE ResumeBranch2
    <2>1. HoldsDek /\ ~Opens(fs.db, fs.wal, dek) BY <1>1, <1>7 DEF ResumeBranch2, Mode
    <2>2. fs.side.ver = 2 /\ dek = fs.side.dek BY <2>1 DEF HoldsDek
    <2>3. fs.db.key = kek_master /\ CopyAgrees /\ ReplacementAgrees
      BY <1>1, <2>1, <2>2, VaultSays
    <2>4. CASE "sound" \in Verdicts /\ Change(CloseProbes) /\ EnsureRollbackCopy("S5", "branch2")
      <3>1. ReadsEndToEnd(fs.mdb, fs.mwal, dek) BY <2>4 DEF Verdicts
      <3>2. /\ Vault' /\ fs'.wal = NoDb /\ fs'.side = fs.side /\ fs'.mdb = fs.mdb
            /\ fs'.db.key = fs.db.key /\ fs'.mwal = NoDb
        BY <1>1, <1>3, <2>2, <2>3, <2>4, <3>1, ProbesClose DEF ReadsEndToEnd
      <3>3. pc' \in {"S5", "S0.db"} /\ via' = "branch2" /\ dek' = dek /\ told' = told
        BY <2>4 DEF EnsureRollbackCopy, GotoVia
      <3>4. OnV2' BY <1>4, <2>1, <2>3, <3>2, <3>3 DEF OnV2, HoldsDek
      <3>5. ReadsEndToEnd(fs'.mdb, NoDb, dek')
        BY <3>1, <3>2, <3>3 DEF ReadsEndToEnd, Opens, Exists, NoDb
      <3>6. Mode' BY <3>2, <3>3, <3>4, <3>5 DEF Mode
      <3> QED BY <1>1, <3>2, <3>3, <3>6 DEF NeverCalledWrong
    <2>5. CASE Change(CloseProbes) /\ OfferOrBroken
      <3>1. /\ Vault' /\ fs'.wal = NoDb /\ fs'.side = fs.side
            /\ fs'.pdb = fs.pdb /\ fs'.pside = fs.pside
        BY <1>1, <1>3, <2>2, <2>3, <2>5, ProbesClose
      <3>2. CASE RollbackUsable(fs, kek_master)
        <4>1. pc' = "offer" /\ told' = "offer" /\ dek' = dek BY <2>5, <3>2 DEF OfferOrBroken
        <4>2. HoldsDek' BY <2>1, <3>1, <4>1 DEF HoldsDek
        <4>3. RollbackUsable(fs, kek_master)' BY <1>4, <3>1, <3>2 DEF RollbackUsable
        <4>4. Mode' BY <3>1, <4>1, <4>2, <4>3 DEF Mode
        <4> QED BY <3>1, <4>1, <4>4 DEF NeverCalledWrong
      <3>3. CASE ~RollbackUsable(fs, kek_master)
        BY <2>5, <3>1, <3>3, EndRot DEF OfferOrBroken
      <3> QED BY <3>2, <3>3
    <2>6. CASE Change(DiscardReplacement) /\ Goto("branch3")
      <3> DEFINE f == FoldLive(fs, kek_master)
      <3>1. f \in Image BY <1>1, FoldTypes, BuiltTypes, <1>2 DEF FoldLive, Image, kek_master
      <3>2. Opens(fs.db, fs.wal, kek_master) BY <1>1, <2>3, VaultSays
      <3>3. /\ f.side = fs.side /\ f.pdb = fs.pdb /\ f.pside = fs.pside /\ f.wal = NoDb
        BY <1>1, <3>2 DEF FoldLive, FoldedWal, Image
      <3>4. f.db.key = fs.db.key /\ f.db.health = fs.db.health /\ RowsOf(f.db, f.wal) = Held
        BY <1>1, FoldFacts DEF Held
      <3> HIDE DEF f
      <3>5. fs' = RemoveMigrating(f) BY <2>6 DEF Change, DiscardReplacement, f
      <3>6. /\ fs'.db = f.db /\ fs'.wal = f.wal /\ fs'.side = f.side /\ fs'.mdb = NoDb
            /\ fs'.mwal = NoDb /\ fs'.pdb = f.pdb
        BY <3>1, <3>5 DEF RemoveMigrating, Image
      <3>7. Held' = Held BY <3>4, <3>6 DEF Held
      <3>8. CopyAgrees' BY <1>4, <2>3, <3>3, <3>6, <3>7 DEF CopyAgrees
      <3>9. ~Exists(fs'.mdb) /\ fs'.mwal.rows = {} BY <3>6 DEF Exists, NoDb
      <3>10. ReplacementAgrees' BY <3>9 DEF ReplacementAgrees, ReadsEndToEnd, Opens, Exists
      <3>11. LiveOpens' BY <1>1, <3>3, <3>4, <3>6 DEF Vault, LiveOpens, Exists, NoDb
      <3>12. Owned' BY <1>1, <1>4, <2>2, <2>3, <3>3, <3>4, <3>6, <3>8, <3>10 DEF Vault, Owned
      <3>13. Fresh' BY <1>1, <1>3, <3>3, <3>6 DEF Vault, Fresh
      <3>14. Vault' BY <3>9, <3>11, <3>12, <3>13 DEF Vault
      <3>15. pc' = "branch3" /\ dek' = dek /\ told' = told BY <2>6 DEF Goto
      <3>16. HoldsDek' /\ fs'.db.key = kek_master'
        BY <1>4, <2>1, <2>3, <3>3, <3>4, <3>6, <3>15 DEF HoldsDek
      <3>17. Mode' BY <3>9, <3>15, <3>16 DEF Mode
      <3> QED BY <1>1, <3>14, <3>15, <3>17 DEF NeverCalledWrong
    <2> QED BY <1>7, <2>4, <2>5, <2>6 DEF ResumeBranch2
  <1>8. CASE ResumeNoReplacement
    <2>1. HoldsDek /\ ~Opens(fs.db, fs.wal, dek) /\ ~Exists(fs.mdb) /\ fs' = fs
      BY <1>1, <1>8 DEF ResumeNoReplacement, Mode, NoDisk, disk
    <2>2. fs.db.key = kek_master BY <1>1, <2>1, VaultSays DEF HoldsDek
    <2>3. pc' = "branch3" /\ dek' = dek /\ told' = told BY <1>8 DEF ResumeNoReplacement, Goto
    <2>4. Vault' BY <1>1, <1>2, <1>3, <2>1, VaultKept
    <2>5. HoldsDek' BY <2>1, <2>3 DEF HoldsDek
    <2>6. Mode' BY <1>4, <2>1, <2>2, <2>3, <2>5 DEF Mode
    <2> QED BY <1>1, <2>3, <2>4, <2>6 DEF NeverCalledWrong
  <1>9. CASE ResumeBranch3
    <2>1. HoldsDek /\ fs.db.key = kek_master /\ ~Exists(fs.mdb)
      BY <1>1, <1>9 DEF ResumeBranch3, Mode
    <2>2. Opens(fs.db, fs.wal, kek_master) BY <1>1, <2>1, VaultSays
    <2>3. CloseLive(kek_master) /\ EnsureRollbackCopy("S1", "branch3")
      BY <1>9, <2>2 DEF ResumeBranch3
    <2>4. CopyAgrees /\ IsDek(dek) BY <1>1, <2>1, VaultSays DEF HoldsDek
    <2>5. /\ Vault' /\ fs'.wal = NoDb /\ fs'.side = fs.side /\ fs'.mdb = fs.mdb
          /\ fs'.db.key = fs.db.key /\ CopyAgrees'
      BY <1>1, <1>3, <2>2, <2>3, <2>4, CloseKept
    <2>6. pc' \in {"S1", "S0.db"} /\ via' = "branch3" /\ dek' = dek /\ told' = told
      BY <2>3 DEF EnsureRollbackCopy, GotoVia
    <2>7. OnV2' BY <1>4, <2>1, <2>5, <2>6 DEF OnV2, HoldsDek
    <2>8. IsDek(dek)' BY <2>4, <2>6 DEF IsDek
    <2>9. Mode' BY <2>1, <2>5, <2>6, <2>7, <2>8 DEF Mode
    <2> QED BY <1>1, <2>5, <2>6, <2>9 DEF NeverCalledWrong
  <1> QED BY <1>5, <1>6, <1>7, <1>8, <1>9 DEF Resume

(* The offer, declined or accepted: the copy takes the live database's place *)
(* before the old key record takes the new one's.                            *)
LEMMA RollbackRot ==
    ASSUME RotInv, Rollback \/ Answer
    PROVE  Vault' /\ Mode' /\ NeverCalledWrong'
  <1> USE DEF CopySteps, ConvertSteps, FinishSteps
  <1>1. TypeOK /\ Vault /\ Mode /\ NeverCalledWrong /\ fs \in Image
    BY DEF RotInv, TypeOK, DiskTypeOK
  <1>2. pw \in Nat /\ draws \in Nat BY <1>1 DEF TypeOK
  <1>3. pw' = pw /\ draws' = draws
    BY DEF Rollback, RollbackDb, RollbackSide, RollbackSync, Answer, AcceptRollback,
           DeclineRollback, Same, user
  <1>4. kek_master' = kek_master BY <1>3 DEF kek_master
  <1>5. CASE AcceptRollback
    <2>1. HoldsDek /\ RollbackUsable(fs, kek_master) /\ fs.wal = NoDb
      BY <1>1, <1>5 DEF AcceptRollback, Mode
    <2>2. /\ fs'.db = fs.db /\ fs'.wal = NoDb /\ fs'.side = fs.side /\ fs'.mdb = fs.mdb
          /\ fs'.mwal = fs.mwal /\ fs'.pdb = fs.pdb /\ fs'.pside = fs.pside
          /\ pc' = "rb.db" /\ dek' = dek /\ told' = told
      BY <1>1, <1>5 DEF AcceptRollback, Change, DropLiveWal, Image, Goto
    <2>3. Vault' BY <1>1, <1>2, <1>3, <2>1, <2>2, VaultKept
    <2>4. HoldsDek' /\ RollbackUsable(fs, kek_master)'
      BY <1>4, <2>1, <2>2 DEF HoldsDek, RollbackUsable
    <2>5. Mode' BY <2>2, <2>4 DEF Mode
    <2> QED BY <1>1, <2>2, <2>3, <2>5 DEF NeverCalledWrong
  <1>6. CASE DeclineRollback
    <2>1. fs' = fs /\ EndUnlock("offer") BY <1>6 DEF DeclineRollback, NoDisk, disk
    <2>2. Vault' BY <1>1, <1>2, <1>3, <2>1, VaultKept
    <2> QED BY <2>1, <2>2, EndRot
  <1>7. CASE RollbackDb
    <2>1. HoldsDek /\ RollbackUsable(fs, kek_master) /\ fs.wal = NoDb
      BY <1>1, <1>7 DEF RollbackDb, Mode
    <2>2. /\ fs'.db = fs.pdb /\ fs'.wal = fs.wal /\ fs'.side = fs.side /\ fs'.mdb = fs.mdb
          /\ fs'.mwal = fs.mwal /\ fs'.pdb = NoDb /\ fs'.pside = fs.pside
          /\ pc' = "rb.side" /\ dek' = dek /\ told' = told
      BY <1>1, <1>7 DEF RollbackDb, Change, RestoreDb, Image, Goto
    <2>3. /\ fs.pdb.key = kek_master /\ fs.pdb.health = "ok" /\ fs.pside.ver = 1
          /\ ReadsEndToEnd(fs.pdb, NoDb, kek_master)
      BY <2>1 DEF RollbackUsable, ReadsEndToEnd, Opens
    <2>4. fs.side.ver = 2 /\ fs.side.kek = kek_master /\ IsDek(fs.side.dek)
      BY <1>1, <2>1, VaultSays DEF HoldsDek
    <2>5. CopyAgrees'
      BY <2>2 DEF CopyAgrees, ReadsEndToEnd, NoDb
    <2>6. ReplacementAgrees'
      <3>1. CASE fs.db.key = fs.side.dek
        <4>1. ~Exists(fs.mdb) BY <1>1, <2>4, <3>1, VaultSays
        <4> QED BY <2>2, <4>1 DEF ReplacementAgrees, ReadsEndToEnd, Exists
      <3>2. CASE fs.db.key # fs.side.dek
        <4>1. CopyAgrees /\ ReplacementAgrees BY <1>1, <2>4, <3>2, VaultSays
        <4>2. fs.pdb.rows = Held BY <2>3, <4>1 DEF CopyAgrees
        <4>3. Held' = fs.pdb.rows BY <2>1, <2>2 DEF Held, RowsOf, NoDb
        <4> QED BY <2>2, <4>1, <4>2, <4>3 DEF ReplacementAgrees
      <3> QED BY <3>1, <3>2
    <2>7. LiveOpens' BY <2>1, <2>2, <2>3 DEF LiveOpens, Exists, NoDb
    <2>8. Owned' BY <1>4, <2>2, <2>3, <2>4, <2>5, <2>6 DEF Owned
    <2>9. Fresh' BY <1>1, <1>3, <2>2 DEF Vault, Fresh, NoDb, NoKey, Kek
    <2>10. Vault' BY <1>1, <2>2, <2>7, <2>8, <2>9 DEF Vault
    <2>11. HoldsDek' BY <2>1, <2>2 DEF HoldsDek
    <2>12. Mode' BY <1>4, <2>1, <2>2, <2>3, <2>11 DEF Mode
    <2> QED BY <1>1, <2>2, <2>10, <2>12 DEF NeverCalledWrong
  <1>8. CASE RollbackSide
    <2>1. fs.db.key = kek_master /\ fs.pside.ver = 1 BY <1>1, <1>8 DEF RollbackSide, Mode
    <2>2. /\ fs'.db = fs.db /\ fs'.wal = fs.wal /\ fs'.side = fs.pside /\ fs'.mdb = fs.mdb
          /\ fs'.mwal = fs.mwal /\ fs'.pdb = fs.pdb
          /\ pc' = "rb.sync" /\ told' = told
      BY <1>1, <1>8 DEF RollbackSide, Change, RestoreSide, Image, Goto
    <2>3. LiveOpens' BY <1>1, <2>2 DEF Vault, LiveOpens
    <2>4. Owned' BY <1>4, <2>1, <2>2 DEF Owned
    <2>5. Fresh' BY <1>1, <1>3, <2>2 DEF Vault, Fresh
    <2>6. Vault' BY <1>1, <2>2, <2>3, <2>4, <2>5 DEF Vault
    <2>7. Mode' BY <2>2 DEF Mode
    <2> QED BY <1>1, <2>2, <2>6, <2>7 DEF NeverCalledWrong
  <1>9. CASE RollbackSync
    <2>1. fs' = fs /\ EndUnlock("nothing") BY <1>9 DEF RollbackSync, fsync_dir
    <2>2. Vault' BY <1>1, <1>2, <1>3, <2>1, VaultKept
    <2> QED BY <2>1, <2>2, EndRot
  <1> QED BY <1>5, <1>6, <1>7, <1>8, <1>9 DEF Rollback, Answer

(* The session writes rows, changes the password, and locks.                 *)
LEMMA SessionRot ==
    ASSUME RotInv, Session
    PROVE  Vault' /\ Mode' /\ NeverCalledWrong'
  <1> USE DEF CopySteps, ConvertSteps, FinishSteps
  <1>1. TypeOK /\ Vault /\ Mode /\ NeverCalledWrong /\ fs \in Image
    BY DEF RotInv, TypeOK, DiskTypeOK
  <1>2. pw \in Nat /\ draws \in Nat BY <1>1 DEF TypeOK
  <1>3. /\ pc = "session" /\ hand = fs.db.key
        /\ hand = IF fs.side.ver = 1 THEN kek_master ELSE fs.side.dek
        /\ via \in {"branch1", "branch2"} /\ fs.db.health = "page"
              => ~RollbackUsable(fs, kek_master)
    BY <1>1 DEF Session, Write, Lock, SetMasterPassword, SetRecoverySlot, Mode
  <1>4. fs.side.ver = 2 => /\ fs.db.key = fs.side.dek /\ ~Exists(fs.mdb)
                           /\ fs.side.kek = kek_master /\ IsDek(fs.side.dek)
    BY <1>1, <1>3, VaultSays
  <1>5. ASSUME NEW r \in Rows, Write(r) PROVE Vault' /\ Mode' /\ NeverCalledWrong'
    <2>1. fs' = AppendWal(fs, r) /\ UNCHANGED <<proc, pw, draws>>
      BY <1>5 DEF Write, InPlace, ChangeAndSync
    <2>2. /\ fs'.db = fs.db /\ fs'.side = fs.side /\ fs'.mdb = fs.mdb /\ fs'.mwal = fs.mwal
          /\ fs'.pdb = fs.pdb /\ fs'.pside = fs.pside
          /\ fs'.wal = NewDb(hand, fs.wal.rows \cup {r})
      BY <1>1, <2>1 DEF AppendWal, Image
    <2>3. kek_master' = kek_master BY <2>1 DEF kek_master
    <2>4. LiveOpens'
      <3>1. fs'.wal.key = fs.db.key /\ Exists(fs'.wal) BY <1>3, <2>2 DEF NewDb, Exists
      <3> QED BY <1>1, <2>2, <3>1 DEF Vault, LiveOpens
    <2>5. Owned'
      <3>1. CASE fs.side.ver = 1 BY <1>3, <2>2, <2>3, <3>1 DEF Owned
      <3>2. CASE fs.side.ver # 1
        BY <1>1, <1>4, <2>2, <2>3, <3>2, VaultSays DEF Owned
      <3> QED BY <3>1, <3>2
    <2>6. Fresh' BY <1>1, <2>1, <2>2 DEF Vault, Fresh
    <2>7. Vault' BY <1>1, <2>2, <2>4, <2>5, <2>6 DEF Vault
    <2>8. /\ pc' = "session" /\ hand' = hand /\ via' = via /\ told' = told
      BY <1>3, <2>1 DEF proc
    <2>9. RollbackUsable(fs, kek_master)' = RollbackUsable(fs, kek_master)
      BY <2>2, <2>3 DEF RollbackUsable
    <2>10. Mode' BY <1>3, <2>2, <2>3, <2>8, <2>9 DEF Mode
    <2> QED BY <1>1, <2>7, <2>8, <2>10 DEF NeverCalledWrong
  <1>6. CASE Lock
    <2>1. CloseLive(hand) /\ pw' = pw /\ draws' = draws BY <1>6 DEF Lock, Same, user
    <2>2. Vault' BY <1>1, <2>1, CloseKept
    <2>3. pc' = "locked" /\ via' = "none" /\ told' = "nothing" BY <1>6 DEF Lock
    <2> QED BY <2>2, <2>3 DEF Mode, NeverCalledWrong
  (* A key record rewritten under the password in use, with the same DEK. *)
  <1>7. ASSUME NEW k, NEW b, fs.side.ver = 2, fs' = [fs EXCEPT !.side = Rekey(k, b)],
               k = kek_master', pw' < draws', draws <= draws', draws' \in Nat, pw' \in Nat,
               UNCHANGED proc,
               RollbackUsable(fs, kek_master)' => RollbackUsable(fs, kek_master)
        PROVE  Vault' /\ Mode' /\ NeverCalledWrong'
    <2>1. /\ fs'.db = fs.db /\ fs'.wal = fs.wal /\ fs'.mdb = fs.mdb /\ fs'.mwal = fs.mwal
          /\ fs'.pdb = fs.pdb /\ fs'.side.ver = 2 /\ fs'.side.kek = k
          /\ fs'.side.dek = fs.side.dek
      BY <1>1, <1>7 DEF Rekey, Image, Sidecar
    <2>2. LiveOpens' BY <1>1, <2>1 DEF Vault, LiveOpens
    <2>3. Owned' BY <1>4, <1>7, <2>1 DEF Owned
    <2>4. Fresh'
      <3>1. ASSUME NEW n \in Nat, fs'.pdb.key = Kek(n) PROVE n < draws'
        BY <1>1, <1>2, <1>7, <2>1, <3>1 DEF Vault, Fresh
      <3> QED BY <1>7, <3>1 DEF Fresh
    <2>5. Vault' BY <1>1, <2>1, <2>2, <2>3, <2>4 DEF Vault
    <2>6. pc' = "session" /\ hand' = hand /\ via' = via /\ told' = told
      BY <1>3, <1>7 DEF proc
    <2>7. /\ fs'.side.ver = 2 /\ hand' = fs'.side.dek /\ hand' = fs'.db.key
          /\ via' \in {"branch1", "branch2"} /\ fs'.db.health = "page"
                => ~RollbackUsable(fs, kek_master)'
      BY <1>3, <1>4, <1>7, <2>1, <2>6
    <2>8. Mode' BY <2>6, <2>7 DEF Mode
    <2> QED BY <1>1, <2>5, <2>6, <2>8 DEF NeverCalledWrong
  <1>8. CASE SetMasterPassword
    <2>1. /\ fs.side.ver = 2 /\ fs' = [fs EXCEPT !.side = Rekey(Kek(draws), fs.side.rec)]
          /\ pw' = draws /\ draws' = draws + 1 /\ UNCHANGED proc
      BY <1>8 DEF SetMasterPassword, ChangeAndSync
    <2>2. Kek(draws) = kek_master' BY <2>1 DEF kek_master
    <2>3. ~RollbackUsable(fs, kek_master)'
      <3>1. fs'.pdb = fs.pdb BY <1>1, <2>1 DEF Image
      <3>2. fs.pdb.key # Kek(draws) BY <1>1, <1>2 DEF Vault, Fresh
      <3> QED BY <2>2, <3>1, <3>2 DEF RollbackUsable, ReadsEndToEnd, Opens
    <2> QED BY <1>2, <1>7, <2>1, <2>2, <2>3
  <1>9. ASSUME NEW r \in BOOLEAN, SetRecoverySlot(r)
        PROVE  Vault' /\ Mode' /\ NeverCalledWrong'
    <2>1. /\ fs.side.ver = 2 /\ fs' = [fs EXCEPT !.side = Rekey(fs.side.kek, r)]
          /\ pw' = pw /\ draws' = draws /\ UNCHANGED proc
      BY <1>9 DEF SetRecoverySlot, ChangeAndSync, user
    <2>2. fs.side.kek = kek_master' BY <1>4, <2>1 DEF kek_master
    <2>3. fs'.pdb = fs.pdb /\ fs'.pside = fs.pside BY <1>1, <2>1 DEF Image
    <2>4. RollbackUsable(fs, kek_master)' => RollbackUsable(fs, kek_master)
      BY <2>1, <2>3 DEF RollbackUsable, kek_master
    <2>5. pw' < draws' BY <1>1, <2>1 DEF Vault, Fresh
    <2> QED BY <1>2, <1>7, <2>1, <2>2, <2>4, <2>5
  <1> QED BY <1>5, <1>6, <1>8, <1>9 DEF Session

(* Errors, crashes, and the damage itself.                                   *)
LEMMA FailureRot ==
    ASSUME EntriesSurvive, RotInv, Failure
    PROVE  Vault' /\ Mode' /\ NeverCalledWrong'
  <1> USE DEF CopySteps, ConvertSteps, FinishSteps
  <1>1. TypeOK /\ Vault /\ Mode /\ NeverCalledWrong /\ fs \in Image /\ maybe = {fs}
    BY DEF RotInv, TypeOK, DiskTypeOK
  <1>2. pw \in Nat /\ draws \in Nat BY <1>1 DEF TypeOK
  <1>3. pw' = pw /\ draws' = draws BY DEF Failure, Fault, Crash, Damage, user
  <1>4. kek_master' = kek_master BY <1>3 DEF kek_master
  <1>5. CASE Fault
    <2>1. fs.side.ver = 2 => fs.side.pending
      BY <1>1, <1>5 DEF Fault, FaultSteps, Steps, SwapSteps, RollbackSteps, Mode, OnV2, HoldsDek
    <2>2. Vault' /\ fs'.side = fs.side /\ (pc \in FinishSteps => fs'.db = fs.db)
      <3>1. CASE pc = "S1.export"
        <4>1. CloseLive(kek_master) BY <1>5, <3>1 DEF Fault
        <4> QED BY <1>1, <1>3, <3>1, <4>1, CloseKept
      <3>2. CASE pc \in {"S2", "S2.check"}
        <4>1. Change(RemoveMigrating) BY <1>5, <3>2 DEF Fault
        <4>2. /\ fs'.db = fs.db /\ fs'.wal = fs.wal /\ fs'.side = fs.side /\ fs'.mdb = NoDb
              /\ fs'.mwal = NoDb /\ fs'.pdb = fs.pdb
          BY <1>1, <4>1 DEF Change, RemoveMigrating, Image
        <4>3. ~Exists(fs'.mdb) /\ fs'.mwal.rows = {} BY <4>2 DEF Exists, NoDb
        <4>4. CopyAgrees BY <1>1, <3>2 DEF Mode
        <4>5. CopyAgrees' BY <1>4, <4>2, <4>4 DEF CopyAgrees, Held
        <4>6. ReplacementAgrees' BY <4>3 DEF ReplacementAgrees, ReadsEndToEnd, Exists
        <4>7. \A n \in Nat : fs'.pdb.key = Kek(n) => n < draws BY <1>1, <4>2 DEF Vault, Fresh
        <4> QED BY <1>1, <1>2, <1>3, <3>2, <4>2, <4>3, <4>5, <4>6, <4>7, SpareKept
      <3>3. CASE pc \notin {"S1.export", "S2", "S2.check"}
        <4>1. fs' = fs BY <1>5, <3>3 DEF Fault, NoDisk, disk
        <4> QED BY <1>1, <1>2, <1>3, <4>1, VaultKept
      <3> QED BY <3>1, <3>2, <3>3
    <2>3. CASE pc \in FinishSteps /\ via \in {"branch1", "branch2"}
      <3>1. HoldsDek /\ fs.db.health = "ok" BY <1>1, <2>3 DEF Mode
      <3>2. OpenWithNext(fs.side.dek) /\ fs.side.ver = 2
        BY <1>5, <2>3, <3>1 DEF Fault, HoldsDek
      <3> QED BY <2>2, <2>3, <3>1, <3>2, OpenNextRot
    <2>4. CASE ~(pc \in FinishSteps /\ via \in {"branch1", "branch2"})
      <3>1. Raise(fs.side.ver) BY <1>5, <2>4 DEF Fault
      <3> QED BY <1>4, <2>1, <2>2, <3>1, RaiseRot
    <2> QED BY <2>3, <2>4
  <1>6. CASE Crash
    <2>1. fs' = fs BY <1>1, <1>6 DEF Crash
    <2>2. Vault' BY <1>1, <1>2, <1>3, <2>1, VaultKept
    <2>3. pc' = "locked" /\ via' = "none" /\ told' = "nothing" BY <1>6 DEF Crash
    <2> QED BY <2>2, <2>3 DEF Mode, NeverCalledWrong
  <1>7. CASE Damage
    <2>1. pc' = "locked" /\ via' = "none" /\ told' = told
      BY <1>1, <1>7 DEF Damage, proc, Mode
    <2>2. ASSUME NEW f \in DbFile, f.health = "ok"
          PROVE  /\ Rotted(f).health = "page" /\ Rotted(f).key = f.key /\ Rotted(f).rows = f.rows
      BY <2>2 DEF Rotted, DbFile
    <2>3. fs.db \in DbFile /\ fs.mdb \in DbFile /\ fs.pdb \in DbFile BY <1>1 DEF Image
    <2>4. \/ fs.db.health = "ok" /\ fs' = RotDb(fs)
          \/ fs.mdb.health = "ok" /\ fs' = RotMigrating(fs)
          \/ fs.pdb.health = "ok" /\ fs' = RotCopy(fs)
      BY <1>7 DEF Damage, InPlace
    <2>5. Mode' /\ NeverCalledWrong' BY <1>1, <2>1 DEF Mode, NeverCalledWrong
    <2>6. CASE fs.db.health = "ok" /\ fs' = RotDb(fs)
      <3>1. /\ fs'.db = Rotted(fs.db) /\ fs'.wal = fs.wal /\ fs'.side = fs.side
            /\ fs'.mdb = fs.mdb /\ fs'.mwal = fs.mwal /\ fs'.pdb = fs.pdb
        BY <1>1, <2>6 DEF RotDb, Image
      <3>2. fs'.db.health = "page" /\ fs'.db.key = fs.db.key /\ fs'.db.rows = fs.db.rows
        BY <2>2, <2>3, <2>6, <3>1
      <3>3. Held' = Held BY <3>1, <3>2 DEF Held, RowsOf
      <3>4. CopyAgrees' = CopyAgrees /\ ReplacementAgrees' = ReplacementAgrees
        BY <1>4, <3>1, <3>3 DEF CopyAgrees, ReplacementAgrees
      <3>5. LiveOpens' BY <1>1, <3>1, <3>2 DEF Vault, LiveOpens
      <3>6. Owned' BY <1>1, <1>4, <3>1, <3>2, <3>4 DEF Vault, Owned
      <3>7. Fresh' BY <1>1, <1>3, <3>1 DEF Vault, Fresh
      <3> QED BY <1>1, <2>5, <3>1, <3>5, <3>6, <3>7 DEF Vault
    <2>7. CASE fs.mdb.health = "ok" /\ fs' = RotMigrating(fs)
      <3>1. /\ fs'.db = fs.db /\ fs'.wal = fs.wal /\ fs'.side = fs.side
            /\ fs'.mdb = Rotted(fs.mdb) /\ fs'.mwal = fs.mwal /\ fs'.pdb = fs.pdb
        BY <1>1, <2>7 DEF RotMigrating, Image
      <3>2. fs'.mdb.health = "page" BY <2>2, <2>3, <2>7, <3>1
      <3>3. CopyAgrees' = CopyAgrees BY <1>4, <3>1 DEF CopyAgrees, Held
      <3>4. ReplacementAgrees' BY <3>2 DEF ReplacementAgrees, ReadsEndToEnd
      <3>5. fs.side.ver = 2 => fs.db.key # fs.side.dek
        BY <1>1, <2>7, VaultSays DEF Exists
      <3>6. LiveOpens' BY <1>1, <3>1 DEF Vault, LiveOpens
      <3>7. Owned' BY <1>1, <1>4, <3>1, <3>3, <3>4, <3>5 DEF Vault, Owned
      <3>8. Fresh' BY <1>1, <1>3, <3>1 DEF Vault, Fresh
      <3> QED BY <1>1, <2>5, <3>1, <3>6, <3>7, <3>8 DEF Vault
    <2>8. CASE fs.pdb.health = "ok" /\ fs' = RotCopy(fs)
      <3>1. /\ fs'.db = fs.db /\ fs'.wal = fs.wal /\ fs'.side = fs.side
            /\ fs'.mdb = fs.mdb /\ fs'.mwal = fs.mwal /\ fs'.pdb = Rotted(fs.pdb)
        BY <1>1, <2>8 DEF RotCopy, Image
      <3>2. fs'.pdb.health = "page" /\ fs'.pdb.key = fs.pdb.key BY <2>2, <2>3, <2>8, <3>1
      <3>3. CopyAgrees' BY <3>2 DEF CopyAgrees, ReadsEndToEnd
      <3>4. ReplacementAgrees' = ReplacementAgrees BY <3>1 DEF ReplacementAgrees, Held
      <3>5. LiveOpens' BY <1>1, <3>1 DEF Vault, LiveOpens
      <3>6. Owned' BY <1>1, <1>4, <3>1, <3>3, <3>4 DEF Vault, Owned
      <3>7. Fresh' BY <1>1, <1>3, <3>1, <3>2 DEF Vault, Fresh
      <3> QED BY <1>1, <2>5, <3>1, <3>5, <3>6, <3>7 DEF Vault
    <2> QED BY <2>4, <2>6, <2>7, <2>8
  <1> QED BY <1>5, <1>6, <1>7 DEF Failure

(* A v1 vault in the field is whole, and nothing is running.                 *)
LEMMA InitRot == Init => RotInv
  <1> SUFFICES ASSUME Init PROVE RotInv OBVIOUS
  <1>1. TypeOK BY InitType
  <1>2. PICK r, w \in SUBSET Rows : fs = V1Vault(r, w) BY DEF Init
  <1>3. /\ maybe = {fs} /\ pc = "locked" /\ via = "none" /\ told = "nothing"
        /\ pw = 0 /\ draws = 1
    BY DEF Init
  <1>4. /\ fs.db = NewDb(Kek(0), r) /\ fs.side.ver = 1 /\ fs.mwal = NoDb /\ fs.pdb = NoDb
        /\ fs.wal = IF w = {} THEN NoDb ELSE NewDb(Kek(0), w)
    BY <1>2 DEF V1Vault, V1Side
  <1>5. LiveOpens BY <1>4 DEF LiveOpens, NewDb, NoDb, Exists
  <1>6. Owned BY <1>3, <1>4 DEF Owned, NewDb, kek_master
  <1>7. Fresh BY <1>3, <1>4 DEF Fresh, NoDb, NoKey, Kek
  <1>8. Vault BY <1>4, <1>5, <1>6, <1>7 DEF Vault, NoDb
  <1>9. Mode BY <1>3 DEF Mode, CopySteps, ConvertSteps, FinishSteps
  <1> QED BY <1>1, <1>3, <1>8, <1>9 DEF RotInv, NeverCalledWrong

(* While no power is lost every step keeps the invariant, damage included.   *)
LEMMA RotStep == ASSUME EntriesSurvive PROVE RotInv /\ [Next]_vars => RotInv'
  <1> SUFFICES ASSUME RotInv, [Next]_vars PROVE RotInv' OBVIOUS
  <1>1. TypeOK' BY TypeStep DEF RotInv
  <1>2. CASE Next
    <2>1. maybe' = {fs'} BY <1>2, OneImage DEF RotInv
    <2>2. Vault' /\ Mode' /\ NeverCalledWrong'
      BY <1>2, UnlockRot, CopyRot, ConvertRot, SwapRot, ResumeRot, RollbackRot, SessionRot,
         FailureRot
         DEF Next, Migrate
    <2> QED BY <1>1, <2>1, <2>2 DEF RotInv
  <1>3. CASE UNCHANGED vars
    <2>1. fs' = fs /\ maybe' = maybe /\ pw' = pw /\ draws' = draws /\ told' = told
      BY <1>3 DEF vars
    <2>2. pw \in Nat /\ draws \in Nat BY DEF RotInv, TypeOK
    <2>3. Vault' /\ kek_master' = kek_master /\ CopyAgrees' = CopyAgrees /\ Held' = Held
      BY <2>1, <2>2, VaultKept DEF RotInv
    <2>4. OnV2' = OnV2 /\ HoldsDek' = HoldsDek
      BY <1>3, <2>3 DEF vars, OnV2, HoldsDek
    <2>5. RollbackUsable(fs, kek_master)' = RollbackUsable(fs, kek_master) BY <2>1, <2>3
    <2>6. Mode'
      <3>1. pc' = pc /\ via' = via /\ dek' = dek /\ hand' = hand BY <1>3 DEF vars
      <3>2. IsDek(dek)' = IsDek(dek) BY <3>1 DEF IsDek
      <3>3. Mode BY DEF RotInv
      <3> QED BY ONLY <2>1, <2>3, <2>4, <2>5, <3>1, <3>2, <3>3
              DEF Mode, ReadsEndToEnd, Opens, Exists, NewDb, NoDb, NoKey, V2Side, CopySteps,
                  ConvertSteps, FinishSteps
    <2> QED BY <1>1, <2>1, <2>3, <2>6 DEF RotInv, NeverCalledWrong
  <1> QED BY <1>2, <1>3

(* The copy is burned, and the replacement dropped, as the invariant allows. *)
LEMMA BurnStep == RotInv /\ [Next]_vars => CopyBurnedOnlyWhenReadable /\ NeverDropsTheOnlyCopy
  <1> SUFFICES ASSUME RotInv, [Next]_vars
               PROVE  CopyBurnedOnlyWhenReadable /\ NeverDropsTheOnlyCopy
    OBVIOUS
  <1> USE DEF CopySteps, ConvertSteps, FinishSteps
  <1>1. TypeOK /\ Vault /\ Mode /\ maybe = {fs} /\ fs \in Image
    BY DEF RotInv, TypeOK, DiskTypeOK
  <1>2. CopyBurnedOnlyWhenReadable
    <2> SUFFICES ASSUME pc \in FinishSteps PROVE ReadsEndToEnd(fs.db, fs.wal, fs.side.dek)
      BY <1>1 DEF CopyBurnedOnlyWhenReadable
    <2>1. HoldsDek /\ fs.db.key = dek /\ fs.db.health = "ok" BY <1>1 DEF Mode
    <2> QED BY <1>1, <2>1, VaultSays DEF HoldsDek
  <1>3. NeverDropsTheOnlyCopy
    <2> SUFFICES ASSUME pc \in {"resume", "branch3", "S1"}, fs.side.ver = 2,
                        ReadsEndToEnd(fs.mdb, fs.mwal, dek), fs'.mdb # fs.mdb
                 PROVE  FALSE
      BY DEF NeverDropsTheOnlyCopy
    <2>1. Exists(fs.mdb) BY DEF ReadsEndToEnd, Opens, Exists
    <2>2. pc = "resume" BY <1>1, <2>1 DEF Mode
    <2>3. HoldsDek BY <1>1, <2>2 DEF Mode
    <2>4. ResumeBranch1 \/ ResumeBranch2 \/ ResumeNoReplacement \/ Crash
      <3>1. ~UNCHANGED vars BY DEF vars
      <3> QED BY <2>2, <3>1
              DEF Next, Unlock, UnlockV1, UnlockMaster, UnlockRecovery, Migrate, OpenWith, S0,
                  S0CopyDbStart, S0CopyDb, S0CopySideStart, S0CopySide, S0Verify, Convert,
                  S1Start, S1Export, S2Open, S2Check, S3, S4, SwapAndFinish, S5Drop, S5Swap,
                  S5Sync, S6Db, S6Side, S6Sync, S6Clear, Resume, ResumeBranch3, ReadBack,
                  Rollback, RollbackDb, RollbackSide, RollbackSync, Answer, AcceptRollback,
                  DeclineRollback, Session, Write, Lock, SetMasterPassword, SetRecoverySlot,
                  Failure, Fault, FaultSteps, Steps, SwapSteps, RollbackSteps, Damage
    <2>5. CASE ResumeBranch1
      <3>1. CloseLive(dek) /\ pw' = pw /\ draws' = draws BY <2>5 DEF ResumeBranch1, Same, user
      <3> QED BY <1>1, <3>1, CloseKept
    <2>6. CASE ResumeBranch2
      <3>1. dek = fs.side.dek /\ ~Opens(fs.db, fs.wal, dek) BY <2>3, <2>6 DEF HoldsDek, ResumeBranch2
      <3>2. fs.db.key = kek_master /\ ReplacementAgrees BY <1>1, <3>1, VaultSays
      <3>3. Change(CloseProbes) /\ pw' = pw /\ draws' = draws
        BY <2>6, <3>1, <3>2, UnsoundUnread DEF ResumeBranch2, Same, user
      <3> QED BY <1>1, <3>1, <3>2, <3>3, ProbesClose
    <2>7. CASE ResumeNoReplacement BY <2>1, <2>7 DEF ResumeNoReplacement
    <2>8. CASE Crash BY <1>1, <2>8 DEF Crash
    <2> QED BY <2>4, <2>5, <2>6, <2>7, <2>8
  <1> QED BY <1>2, <1>3

(* FIBR-0313 C1.  However many files rot while the vault lies locked, and    *)
(* whatever crashes, disk errors and password changes come between, the      *)
(* right password is never called wrong, and the ladder lets nobody into a   *)
(* damaged vault while a usable pre-upgrade copy sits beside it unmentioned. *)
THEOREM DamageOffered == ASSUME EntriesSurvive PROVE Spec => []DamageIsOffered
  <1>1. RotInv => DamageIsOffered BY DEF RotInv, Mode, DamageIsOffered
  <1> QED BY <1>1, InitRot, RotStep, PTL DEF Spec

(* FIBR-0310 P6 and FIBR-0337 H1.  Under the same failures S6 removes the    *)
(* pre-upgrade copy only over a database that reads end to end, and the      *)
(* ladder never discards a replacement that reads.                           *)
THEOREM OnlyCopyKept == ASSUME EntriesSurvive PROVE Spec => NeverBurnsTheOnlyCopy
  <1>1. RotInv /\ [Next]_vars
          => [CopyBurnedOnlyWhenReadable /\ NeverDropsTheOnlyCopy]_vars
    BY BurnStep
  <1> QED BY <1>1, InitRot, RotStep, PTL DEF Spec, NeverBurnsTheOnlyCopy
=============================================================================
