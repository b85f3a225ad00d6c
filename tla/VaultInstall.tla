------------------------------ MODULE VaultInstall ------------------------------
(***************************************************************************)
(* Which vault is installed: first run (AuthService.complete_first_run),    *)
(* restoring a backup over it (BackupService.restore_backup and _install),  *)
(* "start over" (AuthService.reset_vault) and what a launch makes of an     *)
(* interrupted restore (MainWindow._reconcile_interrupted_restore).         *)
(*                                                                          *)
(* A vault is a database, its WAL and a sidecar.  A restore moves the three *)
(* aside under one time stamp and installs the new pair; every move is a    *)
(* step of its own, and the process may die, or the step may raise OSError, *)
(* before any of them.                                                      *)
(*                                                                          *)
(* Abstractions.  A sidecar is the key of the database it opens: the        *)
(* migration between its two shapes is VaultMigration's subject, and its    *)
(* files are the one flag art here.  The backup file is one that opens; one *)
(* that does not is refused before anything moves.                          *)
(***************************************************************************)
EXTENDS VaultDisk, FiniteSetsExt

CONSTANTS
    Stamps,       \* the time stamps a move-aside may use, in clock order
    MaxVaults,    \* database keys drawn in a behaviour
    MaxMishaps    \* kills, OSErrors and clock set-backs in a behaviour, together

ASSUME StampsAreNat == Stamps \subseteq Nat \ {0} /\ IsFiniteSet(Stamps)
ASSUME InstallBounds == MaxVaults \in Nat /\ MaxMishaps \in Nat

VARIABLES
    pc,       \* the surface shown, or the step about to run
    stamp,    \* the stamp in hand: _install's, or the set being recovered; 0 none
    new,      \* the vault the running restore or first run is making
    flushed,  \* whether the assembled database's contents have been fsynced
    told,     \* why no window is up: state() raised, or a recovery failed
    owned,    \* ghost: the vault the owner believes in
    prev,     \* ghost: the vault the last restore replaced
    draws,    \* keys drawn so far
    spent     \* the mishaps so far, by kind

proc == <<pc, stamp, new, flushed, told>>
ghosts == <<owned, prev>>
vars == <<fs, maybe, pc, stamp, new, flushed, told, owned, prev, draws, spent>>

VaultId == [key : Key, rows : SUBSET Rows]
NoVault == [key |-> NoKey, rows |-> {}]

OldSet == [db : DbFile, wal : DbFile, side : Key]
NoSet  == [db |-> NoDb, wal |-> NoDb, side |-> NoKey]

(* olds: the "*.<stamp>.old" copies; dirs: leftover temporary directories;   *)
(* art: whether any of the migration's artefacts is there.                   *)
Directory == [db : DbFile, wal : DbFile, side : Key, olds : [Stamps -> OldSet],
              dirs : SUBSET {"restore-assembly", "verify-staging"}, art : BOOLEAN]
EmptyDirectory == [db |-> NoDb, wal |-> NoDb, side |-> NoKey,
                   olds |-> [s \in Stamps |-> NoSet], dirs |-> {}, art |-> FALSE]

Surfaces == {"down", "unlock", "firstrun", "dialog", "session"}
CreateSteps == {"create.file", "create.db", "create.side"}
AsideSteps == {"aside.db", "aside.wal", "aside.side", "aside.sync"}
InstallSteps == {"install.flush", "install.db", "install.side", "install.sync"}
TidySteps == {"tidy.dir", "tidy.olds", "tidy.art"}
RecoverSteps == {"recover.db", "recover.wal", "recover.side", "recover.sync"}
UnpairedSteps == {"unpaired.db", "unpaired.wal", "unpaired.sync"}
ResetSteps == {"reset.dirs", "reset.art", "reset.olds", "reset.wal", "reset.db", "reset.side"}
Steps == CreateSteps \cup AsideSteps \cup InstallSteps \cup TidySteps
            \cup RecoverSteps \cup UnpairedSteps \cup ResetSteps

TypeOK ==
    /\ fs \in Directory /\ maybe \subseteq Directory /\ fs \in maybe
    /\ pc \in Surfaces \cup Steps
    /\ stamp \in Stamps \cup {0}
    /\ new \in VaultId /\ owned \in VaultId /\ prev \in VaultId
    /\ flushed \in BOOLEAN
    /\ told \in {"nothing", "incomplete", "interrupted"}
    /\ draws \in Nat
    /\ spent \in [crashes : 0..MaxMishaps, faults : 0..MaxMishaps, setbacks : 0..MaxMishaps]

(* An empty data directory, or a vault (possibly with a WAL a crash left)    *)
(* beside at most one whole *.old set an earlier restore kept.               *)
Installed(k, dbRows, walRows) ==
    [EmptyDirectory EXCEPT !.db = NewDb(k, dbRows), !.side = k,
                           !.wal = IF walRows = {} THEN NoDb ELSE NewDb(k, walRows)]
KeptSet == [db |-> NewDb(Dek(0), {}), wal |-> NoDb, side |-> Dek(0)]

Init ==
    /\ \/ fs = EmptyDirectory /\ owned = NoVault
       \/ \E r, w \in SUBSET Rows, s \in Stamps \cup {0}, a \in BOOLEAN :
            /\ fs = [Installed(Dek(1), r, w) EXCEPT
                        !.olds = [t \in Stamps |-> IF t = s THEN KeptSet ELSE NoSet],
                        !.art = a]
            /\ owned = [key |-> Dek(1), rows |-> r \cup w]
    /\ maybe = {fs}
    /\ pc = "down" /\ stamp = 0 /\ new = NoVault /\ flushed = FALSE
    /\ told = "nothing" /\ prev = NoVault
    /\ draws = 2
    /\ spent = [crashes |-> 0, faults |-> 0, setbacks |-> 0]

-----------------------------------------------------------------------------
(* Reading the directory.                                                    *)

Live(d) == [key |-> d.db.key, rows |-> RowsOf(d.db, d.wal)]
PairOpens(d) == d.side # NoKey /\ Opens(d.db, d.wal, d.side)

(* Vault.presence_state, with "mixed" for the VaultStateError it raises.     *)
presence_state(d) ==
    IF Exists(d.db) /\ d.side # NoKey THEN "unlock"
    ELSE IF ~Exists(d.db) /\ d.side = NoKey THEN "first_run"
    ELSE "mixed"

db_olds(d) == {s \in Stamps : Exists(d.olds[s].db)}
sidecar_olds(d) == {s \in Stamps : d.olds[s].side # NoKey}
old_copy_sets(d) == {s \in Stamps : d.olds[s] # NoSet}

Goto(l) == pc' = l /\ UNCHANGED <<stamp, new, flushed, told>>
Kept == UNCHANGED <<ghosts, draws, spent>>
MayGoWrong == spent.crashes + spent.faults + spent.setbacks < MaxMishaps
Mishap(kind) == spent' = [spent EXCEPT ![kind] = @ + 1]
NoDisk == UNCHANGED disk

(* AuthService.state() decides the surface; on a mixed pair it raises, and   *)
(* run() reports an incomplete install instead of showing a window.          *)
Route(d) ==
    /\ pc' = CASE presence_state(d) = "unlock" -> "unlock"
               [] presence_state(d) = "first_run" -> "firstrun"
               [] OTHER -> "down"
    /\ told' = IF presence_state(d) = "mixed" THEN "incomplete" ELSE "nothing"
    /\ stamp' = 0 /\ new' = NoVault /\ flushed' = FALSE

(* The last connection closes: the checkpoint is flushed into the database,  *)
(* the unlink of the WAL is not.                                             *)
Checkpointed(d, k) == [d EXCEPT !.db = Folded(d.db, d.wal, k)]
CloseLive(k) ==
    /\ fs' = FoldLive(fs, k)
    /\ maybe' = IF PowerLoss
                THEN UNION {{Checkpointed(d, k), FoldLive(d, k)} : d \in maybe}
                ELSE {FoldLive(fs, k)}

-----------------------------------------------------------------------------
(* _reconcile_interrupted_restore, at every launch.                          *)

(* The database went aside under a stamp its sidecar never got.              *)
NoUnpaired(d) == FALSE
Unpaired(d) ==
    /\ db_olds(d) # {} /\ ~Exists(d.db) /\ d.side # NoKey
    /\ Max(db_olds(d)) \notin sidecar_olds(d)

Recoverable(d) ==
    /\ db_olds(d) \cap sidecar_olds(d) # {}
    /\ presence_state(d) # "unlock"

OldestSet(d) == Min(db_olds(d) \cap sidecar_olds(d))
RecoveredSet(d) == Max(db_olds(d) \cap sidecar_olds(d))

Launch ==
    /\ pc = "down" /\ NoDisk /\ Kept
    /\ \/ /\ Unpaired(fs)
          /\ pc' = "unpaired.db" /\ stamp' = Max(db_olds(fs)) /\ told' = "nothing"
          /\ UNCHANGED <<new, flushed>>
       \/ /\ ~Unpaired(fs) /\ Recoverable(fs)
          /\ pc' = "recover.db" /\ stamp' = RecoveredSet(fs) /\ told' = "nothing"
          /\ UNCHANGED <<new, flushed>>
       \/ /\ ~Unpaired(fs) /\ ~Recoverable(fs)
          /\ Route(fs)

(* The paired route: each file of the set replaces the live one; a live WAL  *)
(* the set has no answer to belongs to the aborted restore and goes.         *)
BackDb(d) == [d EXCEPT !.db = fs.olds[stamp].db, !.olds[stamp].db = NoDb]
BackWal(d) == [d EXCEPT !.wal = fs.olds[stamp].wal, !.olds[stamp].wal = NoDb]
BackSide(d) == [d EXCEPT !.side = fs.olds[stamp].side, !.olds[stamp].side = NoKey]

RecoverDb == pc = "recover.db" /\ Change(BackDb) /\ Goto("recover.wal") /\ Kept
RecoverWal == pc = "recover.wal" /\ Change(BackWal) /\ Goto("recover.side") /\ Kept
RecoverSide == pc = "recover.side" /\ Change(BackSide) /\ Goto("recover.sync") /\ Kept
RecoverSync == pc = "recover.sync" /\ fsync_dir /\ Route(fs) /\ Kept

(* _recover_unpaired_db: a live WAL is the original's own and stays.         *)
BackOwnWal(d) == IF Exists(fs.olds[stamp].wal) THEN BackWal(d) ELSE d
UnpairedDb == pc = "unpaired.db" /\ Change(BackDb) /\ Goto("unpaired.wal") /\ Kept
UnpairedWal == pc = "unpaired.wal" /\ Change(BackOwnWal) /\ Goto("unpaired.sync") /\ Kept
UnpairedSync == pc = "unpaired.sync" /\ fsync_dir /\ Route(fs) /\ Kept

-----------------------------------------------------------------------------
(* complete_first_run: the database first, durable before the sidecar.       *)

FirstRun ==
    /\ pc = "firstrun" /\ presence_state(fs) = "first_run" /\ draws <= MaxVaults
    /\ new' = [key |-> Dek(draws), rows |-> {}] /\ draws' = draws + 1
    /\ pc' = "create.file"
    /\ NoDisk /\ UNCHANGED <<stamp, flushed, told, ghosts, spent>>

(* The file is created owner-only and empty before SQLCipher writes to it.   *)
CreatedFile(d) == [d EXCEPT !.db = TornDb]
CreateFile == pc = "create.file" /\ Change(CreatedFile) /\ Goto("create.db") /\ Kept

(* Building it in WAL mode flushes the directory.  A WAL already lying there *)
(* is one SQLite would read.                                                 *)
Created(d) == [d EXCEPT !.db = NewDb(new.key, {}),
                        !.wal = IF Exists(@) THEN @ ELSE NewDb(new.key, {})]
CreatedSide(d) == [d EXCEPT !.side = new.key]
CreateDb == pc = "create.db" /\ ChangeAndSync(Created) /\ Goto("create.side") /\ Kept
CreateSide ==
    /\ pc = "create.side" /\ ChangeAndSync(CreatedSide)
    /\ owned' = new /\ pc' = "session" /\ new' = NoVault
    /\ UNCHANGED <<stamp, flushed, told, prev, draws, spent>>

-----------------------------------------------------------------------------
(* restore_backup                                                            *)

OpenRestore == pc \in {"unlock", "firstrun"} /\ Goto("dialog") /\ NoDisk /\ Kept
CancelRestore == pc = "dialog" /\ Route(fs) /\ NoDisk /\ Kept

(* verify_backup sweeps its leftovers, stages a copy and removes it, which   *)
(* is best-effort.  It never touches the live vault.                         *)
VerifyBackup(left) ==
    /\ pc = "unlock" \/ pc = "session"
    /\ left => MayGoWrong
    /\ LET Op(d) == [d EXCEPT !.dirs = (@ \ {"verify-staging"})
                                         \cup (IF left THEN {"verify-staging"} ELSE {})]
       IN  Change(Op)
    /\ IF left THEN Mishap("faults") ELSE UNCHANGED spent
    /\ UNCHANGED <<proc, ghosts, draws>>

AnyLive(d) == Exists(d.db) \/ d.side # NoKey \/ Exists(d.wal)
InOrder(d, s) == \A t \in old_copy_sets(d) : t < s
FreshStamps(d) ==
    {s \in Stamps : /\ d.olds[s] = NoSet
                    /\ InOrder(d, s) \/ MayGoWrong}

(* The backup is opened in an assembly directory and re-keyed to a fresh     *)
(* DEK; its sidecar is written there.  Then _install begins.                 *)
MakeAssembly(d) == [d EXCEPT !.dirs = @ \cup {"restore-assembly"}]
Assemble(backup) ==
    /\ pc = "dialog" /\ draws <= MaxVaults
    /\ Change(MakeAssembly)
    /\ new' = [key |-> Dek(draws), rows |-> backup] /\ draws' = draws + 1
    /\ flushed' = FALSE
    /\ IF AnyLive(fs)
       THEN /\ stamp' \in FreshStamps(fs) /\ pc' = "aside.db"
            /\ IF InOrder(fs, stamp') THEN UNCHANGED spent ELSE Mishap("setbacks")
       ELSE stamp' = 0 /\ pc' = "install.flush" /\ UNCHANGED spent
    /\ UNCHANGED <<told, ghosts>>

(* _install, the move-aside.  A file that is not there moves nothing.        *)
AsideDb(d) == [d EXCEPT !.db = NoDb, !.olds[stamp].db = fs.db]
AsideWal(d) == [d EXCEPT !.wal = NoDb, !.olds[stamp].wal = fs.wal]
AsideSide(d) == [d EXCEPT !.side = NoKey, !.olds[stamp].side = fs.side]

InstallAsideDb == pc = "aside.db" /\ Change(AsideDb) /\ Goto("aside.wal") /\ Kept
InstallAsideWal == pc = "aside.wal" /\ Change(AsideWal) /\ Goto("aside.side") /\ Kept
InstallAsideSide == pc = "aside.side" /\ Change(AsideSide) /\ Goto("aside.sync") /\ Kept
InstallAsideSync == pc = "aside.sync" /\ fsync_dir /\ Goto("install.flush") /\ Kept

(* _fsync_file, then the two renames, then their entries.  An unflushed      *)
(* database renamed into place may be empty after a power loss.              *)
NoFlush == pc = "install.flush" /\ Goto("install.db") /\ NoDisk /\ Kept
InstallFlush ==
    /\ pc = "install.flush" /\ flushed' = TRUE /\ pc' = "install.db"
    /\ NoDisk /\ Kept /\ UNCHANGED <<stamp, new, told>>
PutDb(d) == [d EXCEPT !.db = NewDb(new.key, new.rows)]
PutSide(d) == [d EXCEPT !.side = new.key]
InstallDb ==
    /\ pc = "install.db" /\ fs' = PutDb(fs)
    /\ maybe' = IF ~PowerLoss THEN {fs'}
                ELSE maybe \cup {PutDb(d) : d \in maybe}
                      \cup (IF flushed THEN {} ELSE {[d EXCEPT !.db = TornDb] : d \in maybe})
    /\ Goto("install.side") /\ Kept
(* With its sidecar beside it, the restored vault is the owner's.            *)
InstallSide ==
    /\ pc = "install.side" /\ Change(PutSide) /\ Goto("install.sync")
    /\ owned' = new /\ prev' = owned /\ UNCHANGED <<draws, spent>>

InstallSync ==
    /\ pc = "install.sync" /\ fs' = fs
    /\ maybe' = {fs} \cup (IF PowerLoss /\ ~flushed THEN {[fs EXCEPT !.db = TornDb]} ELSE {})
    /\ Goto("tidy.dir") /\ Kept

(* The assembly directory, the superseded sets and the migration's artefacts *)
(* go, best-effort.                                                          *)
DropAssembly(d) == [d EXCEPT !.dirs = @ \ {"restore-assembly"}]
TidyDir == pc = "tidy.dir" /\ Change(DropAssembly) /\ Goto("tidy.olds") /\ Kept

whole(d) == sidecar_olds(d)
KeepNewest(d) == IF old_copy_sets(d) = {} THEN {} ELSE {Max(old_copy_sets(d))}
keep(d) ==
    IF stamp \in whole(d) THEN {stamp}
    ELSE {stamp} \cup (IF whole(d) = {} THEN {} ELSE {Max(whole(d))})
Superseded(d) == old_copy_sets(d) \ keep(d)

(* One file of one of these sets is unlinked.                                *)
DropFileOf(sets) ==
    \E s \in sets, f \in DOMAIN NoSet :
        /\ fs.olds[s][f] # NoSet[f]
        /\ LET Op(d) == [d EXCEPT !.olds[s][f] = NoSet[f]] IN Change(Op)

PruneOne == /\ pc = "tidy.olds" /\ DropFileOf(Superseded(fs))
            /\ Goto("tidy.olds") /\ Kept
PruneDone == /\ pc = "tidy.olds" /\ Superseded(fs) = {}
             /\ NoDisk /\ Goto("tidy.art") /\ Kept

(* The window then unlocks with the new password.                            *)
EnterRestored ==
    /\ pc' = (IF PairOpens(fs) THEN "session" ELSE "unlock")
    /\ stamp' = 0 /\ new' = NoVault /\ flushed' = FALSE
    /\ UNCHANGED told
DropArtefacts(d) == [d EXCEPT !.art = FALSE]
TidyArtefacts ==
    /\ pc = "tidy.art" /\ Change(DropArtefacts) /\ EnterRestored /\ Kept

-----------------------------------------------------------------------------
(* reset_vault, behind two confirmations on the unlock screen.               *)

StartOver ==
    /\ pc = "unlock" /\ Goto("reset.dirs")
    /\ owned' = NoVault /\ prev' = NoVault
    /\ NoDisk /\ UNCHANGED <<draws, spent>>

DropDirs(d) == [d EXCEPT !.dirs = {}]
DropWal(d) == [d EXCEPT !.wal = NoDb]
DropDb(d) == [d EXCEPT !.db = NoDb]
DropSide(d) == [d EXCEPT !.side = NoKey]

ResetDirs == pc = "reset.dirs" /\ Change(DropDirs) /\ Goto("reset.art") /\ Kept
ResetArtefacts == pc = "reset.art" /\ Change(DropArtefacts) /\ Goto("reset.olds") /\ Kept
ForgetOlds == pc = "reset.olds" /\ NoDisk /\ Goto("reset.wal") /\ Kept
ResetOlds ==
    /\ pc = "reset.olds" /\ Kept
    /\ IF old_copy_sets(fs) = {} THEN NoDisk /\ Goto("reset.wal")
       ELSE DropFileOf(old_copy_sets(fs)) /\ Goto("reset.olds")
ResetWal == pc = "reset.wal" /\ Change(DropWal) /\ Goto("reset.db") /\ Kept
ResetDb == pc = "reset.db" /\ Change(DropDb) /\ Goto("reset.side") /\ Kept
ResetSide == pc = "reset.side" /\ Change(DropSide) /\ Route(DropSide(fs)) /\ Kept

-----------------------------------------------------------------------------
(* The unlock screen and the session.                                        *)

(* The right password for whatever vault is live.  Connecting to a database  *)
(* a half-done reset removed creates an empty file that opens as nothing.    *)
Unlock ==
    /\ pc = "unlock"
    /\ \/ /\ PairOpens(fs) /\ NoDisk /\ Goto("session")
          /\ owned' = Live(fs) /\ UNCHANGED prev
       \/ /\ ~PairOpens(fs) /\ ~Exists(fs.db) /\ fs.side # NoKey
          /\ LET Op(d) == [d EXCEPT !.db = TornDb] IN Change(Op)
          /\ Goto("unlock") /\ UNCHANGED ghosts
    /\ UNCHANGED <<draws, spent>>

Write(r) ==
    /\ pc = "session" /\ r \notin owned.rows
    /\ LET Op(d) == [d EXCEPT !.wal = NewDb(fs.db.key, @.rows \cup {r})]
       IN  IF Exists(fs.wal) THEN InPlace(Op) ELSE ChangeAndSync(Op)
    /\ owned' = [owned EXCEPT !.rows = @ \cup {r}]
    /\ UNCHANGED <<proc, prev, draws, spent>>

Lock == pc = "session" /\ CloseLive(fs.db.key) /\ Goto("unlock") /\ Kept

Quit == pc \in Surfaces \ {"down", "session"} /\ NoDisk /\ Kept
        /\ pc' = "down" /\ told' = "nothing" /\ UNCHANGED <<stamp, new, flushed>>

-----------------------------------------------------------------------------
(* What goes wrong.                                                          *)

(* An OSError in the step about to run.  fsync_dir swallows its own.  A      *)
(* restore removes its assembly and leaves the dialog up; its tidying only   *)
(* logs; a recovery reports the interrupted restore; a first run closes the  *)
(* database it made; a reset stays on the unlock screen.                     *)
FailedRestore ==
    /\ pc \in AsideSteps \cup InstallSteps
    /\ Change(DropAssembly)
    /\ pc' = "dialog" /\ stamp' = 0 /\ new' = NoVault /\ flushed' = FALSE
    /\ UNCHANGED told
PrunedBut(d, s, f) ==
    [d EXCEPT !.olds = [t \in Stamps |->
        IF t \notin Superseded(fs) THEN @[t]
        ELSE [g \in DOMAIN NoSet |-> IF t = s /\ g = f THEN @[t][g] ELSE NoSet[g]]]]
FailedTidy ==
    \/ pc = "tidy.dir" /\ NoDisk /\ Goto("tidy.olds")
    \/ pc = "tidy.olds" /\ Goto("tidy.art")
       /\ \E s \in Superseded(fs), f \in DOMAIN NoSet : Change(LAMBDA d : PrunedBut(d, s, f))
    \/ pc = "tidy.art" /\ NoDisk /\ EnterRestored
FailedRecovery ==
    /\ pc \in RecoverSteps \cup UnpairedSteps /\ NoDisk
    /\ pc' = "down" /\ told' = "interrupted" /\ stamp' = 0
    /\ UNCHANGED <<new, flushed>>
FailedFirstRun ==
    /\ pc \in CreateSteps
    /\ IF pc = "create.side" THEN CloseLive(new.key) ELSE NoDisk
    /\ pc' = "firstrun" /\ new' = NoVault
    /\ UNCHANGED <<stamp, flushed, told>>
FailedReset == pc \in ResetSteps /\ NoDisk /\ Goto("unlock")

Fault ==
    /\ pc \in Steps \ {"aside.sync", "install.sync", "recover.sync", "unpaired.sync"}
    /\ MayGoWrong /\ Mishap("faults")
    /\ FailedRestore \/ FailedTidy \/ FailedRecovery \/ FailedFirstRun \/ FailedReset
    /\ UNCHANGED <<ghosts, draws>>

(* The process is killed; the kernel writes back what it had changed before  *)
(* anybody launches the program again.                                       *)
Crash ==
    /\ pc # "down" /\ MayGoWrong /\ Mishap("crashes")
    /\ fsync_dir
    /\ pc' = "down" /\ stamp' = 0 /\ new' = NoVault /\ flushed' = FALSE
    /\ told' = "nothing"
    /\ UNCHANGED <<ghosts, draws>>

-----------------------------------------------------------------------------
Recover == \/ RecoverDb \/ RecoverWal \/ RecoverSide \/ RecoverSync
           \/ UnpairedDb \/ UnpairedWal \/ UnpairedSync
Create == FirstRun \/ CreateFile \/ CreateDb \/ CreateSide
Install == \/ InstallAsideDb \/ InstallAsideWal \/ InstallAsideSide \/ InstallAsideSync
           \/ InstallFlush \/ InstallDb \/ InstallSide \/ InstallSync
Restore == \/ OpenRestore \/ CancelRestore
           \/ \E backup \in SUBSET Rows : Assemble(backup)
           \/ Install \/ TidyDir \/ PruneOne \/ PruneDone \/ TidyArtefacts
Reset == \/ StartOver \/ ResetDirs \/ ResetArtefacts \/ ResetOlds
         \/ ResetWal \/ ResetDb \/ ResetSide
Session == Unlock \/ Lock \/ Quit \/ \E r \in Rows : Write(r)
Verify == \E left \in BOOLEAN : VerifyBackup(left)

Next == \/ Launch \/ Recover \/ Create \/ Restore \/ Reset \/ Session \/ Verify
        \/ Fault \/ Crash

Spec == Init /\ [][Next]_vars

-----------------------------------------------------------------------------
(* Correctness.                                                              *)

Has(d, v) == Live(d).key = v.key /\ v.rows \subseteq Live(d).rows /\ PairOpens(d)

AllDbs(d) == {d.db} \cup {d.olds[s].db : s \in Stamps}
AllWals(d) == {d.wal} \cup {d.olds[s].wal : s \in Stamps}
AllSides(d) == {d.side} \cup {d.olds[s].side : s \in Stamps}

(* The files of vault v, wherever they are: its database, every row it was   *)
(* promised, and the sidecar that opens it.                                  *)
OnDisk(d, v) ==
    /\ v.key \in AllSides(d)
    /\ \E f \in AllDbs(d) : f.key = v.key /\ f.health = "ok"
    /\ v.rows \subseteq UNION {f.rows : f \in {g \in AllDbs(d) \cup AllWals(d) : g.key = v.key}}

(* INV-5: until the restored vault is installed, a restore that fails or is  *)
(* killed, and the recovery that follows, lose no file of the owner's vault. *)
(* One mishap is over before a recovery begins: of one that is itself        *)
(* disturbed SoleVaultSurvives and RecoversOwnSet speak.                     *)
OwnedSurvives == owned # NoVault => OnDisk(fs, owned)

(* main_window.py, "The *.old copies are untouched by a partial run", and    *)
(* app.py, "Your previous data is safe": while no restore has finished, so   *)
(* that no older set lies beside it, the owner's vault survives a mishap in  *)
(* the restore and another one in the recovery that follows.                 *)
SoleVaultSurvives == prev = NoVault => OwnedSurvives

(* INV-21, "An older complete *.old pair is not recovered in its place":     *)
(* what a launch moves back is the vault the owner had.                      *)
RecoversOwnSet ==
    (pc \in {"recover.db", "unpaired.db"} /\ owned # NoVault) =>
        fs.olds[stamp].db.key = owned.key

(* main_window.py, "a retry once the directory is writable finds the same    *)
(* signature and recovers then": the launch after a recovery that raised     *)
(* takes it up again, unless the owner's vault is live, whole.               *)
RetryRecovers ==
    [][(told = "interrupted" /\ told' # told) =>
            \/ pc' \in RecoverSteps \cup UnpairedSteps
            \/ owned # NoVault => Has(fs, owned)]_vars

(* INV-5, INV-21, CHANGELOG 0.1.23: wherever a restore was killed, or after  *)
(* a clock set back, the next launch neither reports an incomplete install   *)
(* over a vault the owner still has nor offers to create a new one over it.  *)
(* An OSError half-way through the move-aside does, until the next launch:   *)
(* _route_pre_login looks at the live pair only.  With one mishap no kill    *)
(* falls inside a recovery; with two it does not hold (RecoveryKilled.cfg).  *)
NoDeadEnd ==
    (owned # NoVault /\ spent.faults = 0) =>
        told # "incomplete" /\ pc \notin {"firstrun"} \cup CreateSteps

(* FIBR-0310 P5, FIBR-0337 L4: a database never stands beside a WAL that     *)
(* another database wrote, live or in a set moved aside.                     *)
OwnWal(db, wal) == (Exists(db) /\ Exists(wal)) => wal.key = db.key
NoForeignWal == /\ OwnWal(fs.db, fs.wal)
                /\ \A s \in Stamps : OwnWal(fs.olds[s].db, fs.olds[s].wal)

(* INV-18, INV-21 and D4: what the unlock screen would open is the vault the *)
(* owner believes in, rows left in its WAL included, never an older copy,    *)
(* half of a restore or one vault's rows over another's.  One mishap is a    *)
(* kill or a clock set back, not both, and none falls inside a recovery: for *)
(* those see RecoversOwnSet and RetryRecovers.                               *)
UnlockOpensOwnVault == /\ (pc = "unlock" /\ owned # NoVault) => Has(fs, owned)
                       /\ NoForeignWal

(* A set that is all of vault v: database, sidecar and every row.            *)
WholeSet(set, v) == /\ set.side = v.key /\ Opens(set.db, set.wal, v.key)
                    /\ v.rows \subseteq RowsOf(set.db, set.wal)

(* The vault a running restore is replacing.                                 *)
Incumbent == IF pc = "install.sync" THEN prev ELSE owned

(* INV-17 as far as _prune_superseded_old_copies keeps it: while no restore  *)
(* has failed half-way and been tried again, one that has finished kept the  *)
(* vault it replaced, whole, under one stamp: the owner's way back.          *)
UndoCopyKept ==
    (spent.faults = 0 /\ pc = "session" /\ prev # NoVault /\ owned.key # prev.key) =>
        \E s \in Stamps : WholeSet(fs.olds[s], prev)

(* INV-17, "so the original vault survives": nor does the vault a finished   *)
(* restore replaced vanish when an earlier try had failed half-way.          *)
RetryKeepsOriginal ==
    (pc = "session" /\ prev # NoVault /\ owned.key # prev.key) => OnDisk(fs, prev)

(* Neither the vault a restore replaces nor the way back to it is lost.      *)
NothingIsLost == OwnedSurvives /\ UndoCopyKept

(* security-model INV-12: a completed start-over leaves no file of any vault *)
(* behind - no set moved aside, no assembly, no artefact, no WAL.            *)
ResetLeavesNothing == [][(pc = "reset.side" /\ pc' = "firstrun") => fs' = EmptyDirectory]_vars

(* INV-15: from the moment the move-aside has been flushed until the restore *)
(* is installed, a vault the process sees whole under the restore's stamp is *)
(* so in every image a power loss may leave.                                 *)
AsideIsDurable ==
    (pc \in InstallSteps /\ stamp # 0 /\ WholeSet(fs.olds[stamp], Incumbent)) =>
        \A d \in maybe : WholeSet(d.olds[stamp], Incumbent)

(* INV-15, FIBR-0004 INV-5: whoever is let into a vault - after a restore, a *)
(* first run or a recovery - is in one no power loss can take away, and so   *)
(* is the copy a restore goes back to while it installs.                     *)
SessionIsDurable ==
    /\ pc = "session" => \A d \in maybe : Has(d, owned)
    /\ AsideIsDurable
=============================================================================
