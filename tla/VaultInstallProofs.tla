-------------------------- MODULE VaultInstallProofs --------------------------
(***************************************************************************)
(* First run, restore, recovery and start over, for any stamps, rows and    *)
(* vaults and any number of mishaps.                                        *)
(*                                                                          *)
(* TypeCorrect and ResetErases hold of every behaviour. The theorems about  *)
(* the owner's vault hold of every behaviour whose steps are Undisturbed:   *)
(* its comment says what that leaves out. Of that, the run install shows    *)
(* what one mishap does, RecoveryDisturbed.cfg what survives a second one,  *)
(* in a recovery, and RecoveryKilled.cfg and others what does not.          *)
(*                                                                          *)
(* The invariant, IInv, says where the program is (Place) and what it finds *)
(* there. The vault is live, or on its way under one stamp, the newest      *)
(* there is; and beside it there is no copy that a launch could take for it *)
(* (IsVault). From that follow what a launch does, file by file, after a    *)
(* kill at any point. KeepsWay is the way back from a finished restore;     *)
(* Images is what a power loss may leave.                                   *)
(***************************************************************************)
EXTENDS VaultInstall, FiniteSetTheorems, WellFoundedInduction, TLAPS

-------------------------------------------------------------------------------
(* Finite sets.                                                              *)

(* A family of subsets of a finite set has a minimal member.                 *)
LEMMA FiniteSetMinimal ==
  ASSUME NEW S, IsFiniteSet(S), NEW F \in SUBSET SUBSET S, F # {}
  PROVE  \E T \in F : \A U \in F : U \subseteq T => U = T
<1> DEFINE R == StrictSubsetOrdering(S)
<1>1. IsWellFoundedOn(R, FiniteSubsetsOf(S)) BY FS_StrictSubsetOrderingWellFounded
<1>2. F \subseteq FiniteSubsetsOf(S) BY FS_Subset DEF FiniteSubsetsOf
<1>3. PICK T \in F : \A U \in F : <<U, T>> \notin R
  <2> HIDE DEF R
  <2> QED BY <1>1, <1>2, WFMin
<1> QED BY <1>2, <1>3 DEF StrictSubsetOrdering

(* A finite set of integers has a largest element.                           *)
LEMMA GreatestInt ==
  ASSUME NEW S, IsFiniteSet(S), S # {}, \A x \in S : x \in Int
  PROVE  \E m \in S : \A y \in S : y <= m
<1> DEFINE Up(x) == {y \in S : x <= y}
<1>1. PICK F : F = {Up(x) : x \in S} OBVIOUS
<1>2. F \in SUBSET SUBSET S /\ F # {}
  <2>1. \A x \in S : Up(x) \in SUBSET S OBVIOUS
  <2> HIDE DEF Up
  <2> QED BY <1>1, <2>1
<1>3. PICK T \in F : \A U \in F : U \subseteq T => U = T
  <2> HIDE DEF Up
  <2>1. IsFiniteSet(S) OBVIOUS
  <2> QED BY ONLY <1>2, <2>1, FiniteSetMinimal
<1>4. PICK m \in S : T = Up(m) BY <1>1, <1>3
<1>5. ASSUME NEW y \in S PROVE y <= m
  <2> SUFFICES ASSUME ~(y <= m) PROVE FALSE OBVIOUS
  <2>1. m \in Int /\ y \in Int OBVIOUS
  <2>2. m < y BY <2>1
  <2>3. ASSUME NEW w \in Up(y) PROVE w \in Up(m)
    <3>1. w \in S /\ w \in Int /\ y <= w OBVIOUS
    <3>2. m <= w BY <2>1, <2>2, <3>1
    <3> QED BY <3>1, <3>2
  <2>4. m \in Up(m) /\ m \notin Up(y) BY <2>1, <2>2
  <2>5. Up(y) \in F BY <1>1
  <2> HIDE DEF Up
  <2> QED BY <1>3, <1>4, <2>3, <2>4, <2>5
<1> QED BY <1>5


-------------------------------------------------------------------------------
(* Types.                                                                   *)

(* The constants of the model are of their types, and a drawn key is a key.  *)
LEMMA KeyTypes ==
    /\ NoKey \in Key /\ NoDb \in DbFile /\ TornDb \in DbFile /\ NoSet \in OldSet /\ NoVault \in VaultId
    /\ EmptyDirectory \in Directory
    /\ \A n \in Nat : Dek(n) \in Key /\ Dek(n) # NoKey
    /\ \A k \in Key, rows \in SUBSET Rows : NewDb(k, rows) \in DbFile
<1>1. NoKey \in Key BY DEF NoKey, Key
<1>2. NoDb \in DbFile /\ TornDb \in DbFile BY <1>1 DEF NoDb, TornDb, DbFile, Health
<1>3. NoSet \in OldSet /\ NoVault \in VaultId BY <1>1, <1>2 DEF NoSet, OldSet, NoVault, VaultId
<1>4. EmptyDirectory \in Directory BY <1>1, <1>2, <1>3 DEF EmptyDirectory, Directory
<1>5. \A n \in Nat : Dek(n) \in Key /\ Dek(n) # NoKey BY DEF Dek, Key, NoKey
<1>6. \A k \in Key, rows \in SUBSET Rows : NewDb(k, rows) \in DbFile BY DEF NewDb, DbFile, Health
<1> QED BY <1>1, <1>2, <1>3, <1>4, <1>5, <1>6

(* Closing a connection leaves a directory.                                  *)
LEMMA FoldTypes ==
    ASSUME NEW d \in Directory, NEW k
    PROVE  Checkpointed(d, k) \in Directory /\ FoldLive(d, k) \in Directory
<1>1. RowsOf(d.db, d.wal) \in SUBSET Rows BY DEF Directory, DbFile, RowsOf
<1>2. Folded(d.db, d.wal, k) \in DbFile BY <1>1 DEF Directory, DbFile, Folded
<1>3. FoldedWal(d.db, d.wal, k) \in DbFile BY KeyTypes DEF Directory, FoldedWal
<1> QED BY <1>2, <1>3 DEF Checkpointed, FoldLive, Directory

(* So does unlinking one file of a copy.                                     *)
LEMMA DropTypes ==
    ASSUME NEW d \in Directory, NEW s \in Stamps, NEW f \in DOMAIN NoSet
    PROVE  [d EXCEPT !.olds[s][f] = NoSet[f]] \in Directory
<1>1. [d.olds[s] EXCEPT ![f] = NoSet[f]] \in OldSet
  BY KeyTypes DEF Directory, OldSet, NoSet
<1>2. [d.olds EXCEPT ![s] = [d.olds[s] EXCEPT ![f] = NoSet[f]]] \in [Stamps -> OldSet]
  BY <1>1 DEF Directory
<1> QED BY <1>2 DEF Directory

DiskOK == fs \in Directory /\ maybe \subseteq Directory /\ fs \in maybe

(* Every operation of the module takes a directory to a directory.           *)
LEMMA OpTypes ==
    ASSUME TypeOK, NEW d \in Directory
    PROVE  /\ stamp \in Stamps => /\ BackDb(d) \in Directory /\ BackWal(d) \in Directory
                                  /\ BackSide(d) \in Directory /\ BackOwnWal(d) \in Directory
                                  /\ AsideDb(d) \in Directory /\ AsideWal(d) \in Directory
                                  /\ AsideSide(d) \in Directory
           /\ CreatedFile(d) \in Directory /\ Created(d) \in Directory /\ CreatedSide(d) \in Directory
           /\ MakeAssembly(d) \in Directory /\ DropAssembly(d) \in Directory
           /\ PutDb(d) \in Directory /\ PutSide(d) \in Directory
           /\ DropArtefacts(d) \in Directory /\ DropDirs(d) \in Directory /\ DropWal(d) \in Directory
           /\ DropDb(d) \in Directory /\ DropSide(d) \in Directory
<1>1. ASSUME stamp \in Stamps
      PROVE  /\ BackDb(d) \in Directory /\ BackWal(d) \in Directory
             /\ BackSide(d) \in Directory /\ BackOwnWal(d) \in Directory
             /\ AsideDb(d) \in Directory /\ AsideWal(d) \in Directory
             /\ AsideSide(d) \in Directory
  <2>1. fs \in Directory BY DEF TypeOK
  <2>2. fs.olds[stamp] \in OldSet /\ d.olds[stamp] \in OldSet BY <1>1, <2>1 DEF Directory
  <2>3. PICK a \in OldSet, b \in OldSet, c \in OldSet :
           /\ a = [d.olds[stamp] EXCEPT !.db = NoDb] /\ b = [d.olds[stamp] EXCEPT !.wal = NoDb]
           /\ c = [d.olds[stamp] EXCEPT !.side = NoKey]
    BY <2>2, KeyTypes DEF OldSet
  <2>4. PICK a1 \in OldSet, b1 \in OldSet, c1 \in OldSet :
           /\ a1 = [d.olds[stamp] EXCEPT !.db = fs.db] /\ b1 = [d.olds[stamp] EXCEPT !.wal = fs.wal]
           /\ c1 = [d.olds[stamp] EXCEPT !.side = fs.side]
    BY <2>1, <2>2 DEF OldSet, Directory
  <2>5. BackDb(d) \in Directory BY <1>1, <2>2, <2>3 DEF BackDb, Directory, OldSet
  <2>6. BackWal(d) \in Directory BY <1>1, <2>2, <2>3 DEF BackWal, Directory, OldSet
  <2>7. BackSide(d) \in Directory BY <1>1, <2>2, <2>3 DEF BackSide, Directory, OldSet
  <2>8. AsideDb(d) \in Directory BY <1>1, <2>4, KeyTypes DEF AsideDb, Directory
  <2>9. AsideWal(d) \in Directory BY <1>1, <2>4, KeyTypes DEF AsideWal, Directory
  <2>10. AsideSide(d) \in Directory BY <1>1, <2>4, KeyTypes DEF AsideSide, Directory
  <2> QED BY <2>5, <2>6, <2>7, <2>8, <2>9, <2>10 DEF BackOwnWal
<1>2. new.key \in Key /\ new.rows \in SUBSET Rows BY DEF TypeOK, VaultId
<1>3. NewDb(new.key, {}) \in DbFile /\ NewDb(new.key, new.rows) \in DbFile BY <1>2, KeyTypes
<1>4. CreatedFile(d) \in Directory /\ Created(d) \in Directory /\ CreatedSide(d) \in Directory
  BY <1>2, <1>3, KeyTypes DEF Directory, CreatedFile, Created, CreatedSide
<1>5. MakeAssembly(d) \in Directory /\ DropAssembly(d) \in Directory /\ DropDirs(d) \in Directory
      /\ DropArtefacts(d) \in Directory
  BY DEF Directory, MakeAssembly, DropAssembly, DropDirs, DropArtefacts
<1>6. PutDb(d) \in Directory /\ PutSide(d) \in Directory
  BY <1>2, <1>3 DEF Directory, PutDb, PutSide
<1>7. DropWal(d) \in Directory /\ DropDb(d) \in Directory /\ DropSide(d) \in Directory
  BY KeyTypes DEF Directory, DropWal, DropDb, DropSide
<1> QED BY <1>1, <1>4, <1>5, <1>6, <1>7

Counts == [crashes : 0..MaxMishaps, faults : 0..MaxMishaps, setbacks : 0..MaxMishaps]
TInv == TypeOK /\ (pc \in RecoverSteps \cup UnpairedSteps \cup AsideSteps => stamp \in Stamps)

(* A set of stamps that is not empty has a newest.                           *)
LEMMA StampFacts ==
    ASSUME NEW S \in SUBSET Stamps, S # {}
    PROVE  Max(S) \in S /\ \A x \in S : x <= Max(S)
<1>1. IsFiniteSet(S) /\ S \in SUBSET Int
  <2>1. IsFiniteSet(Stamps) /\ S \subseteq Stamps /\ Stamps \subseteq Nat BY StampsAreNat
  <2>2. IsFiniteSet(S) BY <2>1, FS_Subset
  <2> QED BY <2>1, <2>2
<1>2. PICK m \in S : \A y \in S : y <= m BY <1>1, GreatestInt
<1>3. \A y \in S : m >= y BY <1>1, <1>2
<1>4. Max(S) \in S /\ \A y \in S : Max(S) >= y BY <1>3 DEF Max
<1> QED BY <1>1, <1>4

(* Where a launch, a cancelled dialog or a finished restore may go.          *)
LEMMA PcTypes ==
    /\ \A d : Route(d) => pc' \in Surfaces /\ told' \in {"nothing", "incomplete"}
                          /\ stamp' = 0 /\ new' = NoVault /\ flushed' = FALSE
    /\ EnterRestored => pc' \in Surfaces /\ stamp' = 0 /\ new' = NoVault /\ flushed' = FALSE
                        /\ told' = told
    /\ RecoverSteps \cap Surfaces = {} /\ UnpairedSteps \cap Surfaces = {} /\ AsideSteps \cap Surfaces = {}
BY DEF Route, EnterRestored, Surfaces, RecoverSteps, UnpairedSteps, AsideSteps

(* A mishap is counted up to the bound.                                      *)
LEMMA MishapTypes ==
    ASSUME TypeOK, NEW k \in {"crashes", "faults", "setbacks"}, MayGoWrong, Mishap(k)
    PROVE  spent' \in Counts
<1>1. spent \in Counts BY DEF TypeOK, Counts
<1>2. spent[k] + 1 \in 0..MaxMishaps BY <1>1, InstallBounds DEF MayGoWrong, Counts
<1>3. spent' = [spent EXCEPT ![k] = spent[k] + 1] BY DEF Mishap
<1> QED BY <1>1, <1>2, <1>3 DEF Counts

(* The last close keeps the disk a set of directories.                       *)
LEMMA CloseTypes ==
    ASSUME TypeOK, NEW k, CloseLive(k)
    PROVE  DiskOK'
<1>1. \A d \in Directory : Checkpointed(d, k) \in Directory /\ FoldLive(d, k) \in Directory BY FoldTypes
<1> QED BY <1>1 DEF TypeOK, DiskOK, CloseLive

(* So does unlinking a file of a copy.                                       *)
LEMMA DropOneTypes ==
    ASSUME TypeOK, NEW sets \in SUBSET Stamps, DropFileOf(sets)
    PROVE  DiskOK'
<1>1. PICK s \in sets, f \in DOMAIN NoSet :
         LET Op(d) == [d EXCEPT !.olds[s][f] = NoSet[f]] IN Change(Op)
  BY DEF DropFileOf
<1>2. \A d \in Directory : [d EXCEPT !.olds[s][f] = NoSet[f]] \in Directory BY DropTypes
<1> QED BY <1>1, <1>2 DEF Change, DiskOK, TypeOK

(* The initial states are typed.                                             *)
LEMMA TypesAtFirst == Init => TInv
<1> SUFFICES ASSUME Init PROVE TInv OBVIOUS
<1>1. fs \in Directory /\ owned \in VaultId
  <2>1. CASE fs = EmptyDirectory /\ owned = NoVault BY <2>1, KeyTypes
  <2>2. ASSUME NEW r \in SUBSET Rows, NEW x \in SUBSET Rows, NEW s \in Stamps \cup {0}, NEW a \in BOOLEAN,
               fs = [Installed(Dek(1), r, x) EXCEPT
                        !.olds = [t \in Stamps |-> IF t = s THEN KeptSet ELSE NoSet], !.art = a],
               owned = [key |-> Dek(1), rows |-> r \cup x]
        PROVE  fs \in Directory /\ owned \in VaultId
    <3>1. Dek(1) \in Key /\ Dek(0) \in Key BY KeyTypes
    <3>2. KeptSet \in OldSet BY <3>1, KeyTypes DEF KeptSet, OldSet
    <3>3. NewDb(Dek(1), r) \in DbFile /\ NewDb(Dek(1), x) \in DbFile BY <3>1, KeyTypes
    <3>4. Installed(Dek(1), r, x) \in Directory
      BY <3>1, <3>3, KeyTypes DEF Installed, Directory
    <3> QED BY <2>2, <3>1, <3>2, <3>4, KeyTypes DEF Directory, VaultId
  <2> QED BY <2>1, <2>2 DEF Init
<1>2. spent \in Counts
  <2>1. 0 \in 0..MaxMishaps BY InstallBounds
  <2> QED BY <2>1 DEF Init, Counts
<1>3. pc = "down" /\ stamp = 0 /\ new = NoVault /\ flushed = FALSE /\ told = "nothing"
      /\ prev = NoVault /\ draws = 2 /\ maybe = {fs}
  BY DEF Init
<1> QED BY <1>1, <1>2, <1>3, KeyTypes, InstallBounds
        DEF TInv, TypeOK, Counts, Surfaces, RecoverSteps, UnpairedSteps, AsideSteps

(* The operations, stated of every directory at once: of what the process    *)
(* sees and of what a power loss may leave.                                  *)
LEMMA OpsTyped ==
    ASSUME TypeOK
    PROVE  /\ fs \in Directory /\ maybe \subseteq Directory /\ fs \in maybe
           /\ stamp \in Stamps => \A d \in Directory :
                 /\ BackDb(d) \in Directory /\ BackWal(d) \in Directory
                 /\ BackSide(d) \in Directory /\ BackOwnWal(d) \in Directory
                 /\ AsideDb(d) \in Directory /\ AsideWal(d) \in Directory
                 /\ AsideSide(d) \in Directory
           /\ \A d \in Directory :
                 /\ CreatedFile(d) \in Directory /\ Created(d) \in Directory /\ CreatedSide(d) \in Directory
                 /\ MakeAssembly(d) \in Directory /\ DropAssembly(d) \in Directory
                 /\ PutDb(d) \in Directory /\ PutSide(d) \in Directory
                 /\ DropArtefacts(d) \in Directory /\ DropDirs(d) \in Directory /\ DropWal(d) \in Directory
                 /\ DropDb(d) \in Directory /\ DropSide(d) \in Directory
<1>1. fs \in Directory /\ maybe \subseteq Directory /\ fs \in maybe BY DEF TypeOK
<1>2. stamp \in Stamps => \A d \in Directory :
                 /\ BackDb(d) \in Directory /\ BackWal(d) \in Directory
                 /\ BackSide(d) \in Directory /\ BackOwnWal(d) \in Directory
                 /\ AsideDb(d) \in Directory /\ AsideWal(d) \in Directory
                 /\ AsideSide(d) \in Directory BY OpTypes
<1>3. \A d \in Directory :
                 /\ CreatedFile(d) \in Directory /\ Created(d) \in Directory /\ CreatedSide(d) \in Directory
                 /\ MakeAssembly(d) \in Directory /\ DropAssembly(d) \in Directory
                 /\ PutDb(d) \in Directory /\ PutSide(d) \in Directory
                 /\ DropArtefacts(d) \in Directory /\ DropDirs(d) \in Directory /\ DropWal(d) \in Directory
                 /\ DropDb(d) \in Directory /\ DropSide(d) \in Directory BY OpTypes
<1> QED BY <1>1, <1>2, <1>3

(* The steps of a launch keep the types.                                     *)
LEMMA LaunchTypes == ASSUME TInv, Launch PROVE TInv'
<1>1. UNCHANGED <<fs, maybe, owned, prev, draws, spent>> BY DEF Launch, NoDisk, disk, Kept, ghosts
<1>2. CASE Unpaired(fs) /\ pc' = "unpaired.db" /\ stamp' = Max(db_olds(fs)) /\ told' = "nothing"
          /\ UNCHANGED <<new, flushed>>
  <2>1. db_olds(fs) \in SUBSET Stamps /\ db_olds(fs) # {} BY <1>2 DEF Unpaired, db_olds
  <2>2. stamp' \in Stamps BY <1>2, <2>1, StampFacts
  <2> QED BY <1>1, <1>2, <2>2 DEF TInv, TypeOK, Steps, UnpairedSteps
<1>3. CASE Recoverable(fs) /\ pc' = "recover.db" /\ stamp' = RecoveredSet(fs) /\ told' = "nothing"
          /\ UNCHANGED <<new, flushed>>
  <2>1. PICK S : S = db_olds(fs) \cap sidecar_olds(fs) OBVIOUS
  <2>2. S \in SUBSET Stamps /\ S # {} BY <1>3, <2>1 DEF Recoverable, db_olds
  <2>3. Max(S) \in Stamps BY <2>2, StampFacts
  <2>4. stamp' \in Stamps BY <1>3, <2>1, <2>3 DEF RecoveredSet
  <2> QED BY <1>1, <1>3, <2>4 DEF TInv, TypeOK, Steps, RecoverSteps
<1>4. CASE Route(fs)
  BY <1>1, <1>4, PcTypes, KeyTypes DEF TInv, TypeOK
<1> QED BY <1>2, <1>3, <1>4 DEF Launch

(* So do those of a recovery.                                                *)
LEMMA RecoverTypes == ASSUME TInv, Recover PROVE TInv'
<1>0. TypeOK /\ (pc \in RecoverSteps \cup UnpairedSteps => stamp \in Stamps) BY DEF TInv
<1>1. UNCHANGED <<owned, prev, draws, spent>>
  BY DEF Recover, RecoverDb, RecoverWal, RecoverSide, RecoverSync, UnpairedDb, UnpairedWal, UnpairedSync,
         Kept, ghosts
<1>2. ASSUME pc \in RecoverSteps \cup UnpairedSteps, DiskOK', UNCHANGED <<stamp, new, flushed, told>>,
             pc' \in RecoverSteps \cup UnpairedSteps
      PROVE  TInv'
  BY <1>0, <1>1, <1>2 DEF TInv, TypeOK, DiskOK, Steps
<1>3. CASE RecoverDb \/ RecoverWal \/ RecoverSide \/ UnpairedDb \/ UnpairedWal
  <2>1. pc \in RecoverSteps \cup UnpairedSteps /\ pc' \in RecoverSteps \cup UnpairedSteps
        /\ UNCHANGED <<stamp, new, flushed, told>>
    BY <1>3 DEF RecoverDb, RecoverWal, RecoverSide, UnpairedDb, UnpairedWal, Goto, RecoverSteps, UnpairedSteps
  <2>2. Change(BackDb) \/ Change(BackWal) \/ Change(BackSide) \/ Change(BackOwnWal)
    BY <1>3 DEF RecoverDb, RecoverWal, RecoverSide, UnpairedDb, UnpairedWal
  <2>3. DiskOK' BY <1>0, <2>1, <2>2, OpsTyped DEF Change, DiskOK
  <2> QED BY <1>2, <2>1, <2>3
<1>4. CASE RecoverSync \/ UnpairedSync
  <2>1. fs' = fs /\ maybe' = {fs} /\ Route(fs) BY <1>4 DEF RecoverSync, UnpairedSync, fsync_dir
  <2> QED BY <1>0, <1>1, <2>1, PcTypes, KeyTypes DEF TInv, TypeOK
<1> QED BY <1>3, <1>4 DEF Recover

(* So does a first run.                                                      *)
LEMMA CreateTypes == ASSUME TInv, Create PROVE TInv'
<1>0. TypeOK BY DEF TInv
<1>1. CASE FirstRun
  <2>1. Dek(draws) \in Key BY <1>0, KeyTypes DEF TypeOK
  <2> QED BY <1>0, <1>1, <2>1 DEF FirstRun, TInv, TypeOK, VaultId, NoDisk, disk, ghosts, Steps, CreateSteps,
          RecoverSteps, UnpairedSteps, AsideSteps
<1>2. CASE CreateFile
  <2>1. DiskOK' BY <1>0, <1>2, OpsTyped DEF CreateFile, Change, DiskOK
  <2> QED BY <1>0, <1>2, <2>1 DEF CreateFile, Goto, Kept, ghosts, TInv, TypeOK, DiskOK, Steps, CreateSteps,
          RecoverSteps, UnpairedSteps, AsideSteps
<1>3. CASE CreateDb
  <2>1. DiskOK' BY <1>0, <1>3, OpsTyped DEF CreateDb, ChangeAndSync, DiskOK
  <2> QED BY <1>0, <1>3, <2>1 DEF CreateDb, Goto, Kept, ghosts, TInv, TypeOK, DiskOK, Steps, CreateSteps,
          RecoverSteps, UnpairedSteps, AsideSteps
<1>4. CASE CreateSide
  <2>1. DiskOK' BY <1>0, <1>4, OpsTyped DEF CreateSide, ChangeAndSync, DiskOK
  <2> QED BY <1>0, <1>4, <2>1, KeyTypes DEF CreateSide, TInv, TypeOK, DiskOK, Surfaces,
          RecoverSteps, UnpairedSteps, AsideSteps
<1> QED BY <1>1, <1>2, <1>3, <1>4 DEF Create

(* So does an installation.                                                  *)
LEMMA InstallTypes == ASSUME TInv, Install PROVE TInv'
<1>0. TypeOK BY DEF TInv
<1>1. CASE InstallAsideDb \/ InstallAsideWal \/ InstallAsideSide \/ InstallAsideSync
  <2>1. /\ pc \in AsideSteps /\ pc' \in AsideSteps \cup {"install.flush"}
        /\ UNCHANGED <<stamp, new, flushed, told, owned, prev, draws, spent>>
    BY <1>1 DEF InstallAsideDb, InstallAsideWal, InstallAsideSide, InstallAsideSync, Goto, AsideSteps, Kept, ghosts
  <2>2. stamp \in Stamps BY <2>1 DEF TInv
  <2>3. Change(AsideDb) \/ Change(AsideWal) \/ Change(AsideSide) \/ fsync_dir
    BY <1>1 DEF InstallAsideDb, InstallAsideWal, InstallAsideSide, InstallAsideSync
  <2>4. DiskOK' BY <1>0, <2>2, <2>3, OpsTyped DEF Change, fsync_dir, DiskOK
  <2> QED BY <1>0, <2>1, <2>2, <2>4 DEF TInv, TypeOK, DiskOK, Steps, InstallSteps
<1>2. CASE InstallFlush
  BY <1>0, <1>2 DEF InstallFlush, NoDisk, disk, Kept, ghosts, TInv, TypeOK, Steps, InstallSteps,
          RecoverSteps, UnpairedSteps, AsideSteps
<1>3. CASE InstallDb
  <2>1. \A d \in Directory : PutDb(d) \in Directory BY <1>0, OpsTyped
  <2>2. \A d \in Directory : [d EXCEPT !.db = TornDb] \in Directory BY KeyTypes DEF Directory
  <2>3. DiskOK' BY <1>0, <1>3, <2>1, <2>2 DEF InstallDb, DiskOK, TypeOK
  <2> QED BY <1>0, <1>3, <2>3 DEF InstallDb, Goto, Kept, ghosts, TInv, TypeOK, DiskOK, Steps, InstallSteps,
          RecoverSteps, UnpairedSteps, AsideSteps
<1>4. CASE InstallSide
  <2>1. \A d \in Directory : PutSide(d) \in Directory BY <1>0, OpsTyped
  <2>3. DiskOK' BY <1>0, <1>4, <2>1 DEF InstallSide, DiskOK, TypeOK, Change
  <2> QED BY <1>0, <1>4, <2>3 DEF InstallSide, Goto, TInv, TypeOK, DiskOK, Steps, InstallSteps,
          RecoverSteps, UnpairedSteps, AsideSteps
<1>5. CASE InstallSync
  <2>2. \A d \in Directory : [d EXCEPT !.db = TornDb] \in Directory BY KeyTypes DEF Directory
  <2>3. DiskOK' BY <1>0, <1>5, <2>2 DEF InstallSync, DiskOK, TypeOK
  <2> QED BY <1>0, <1>5, <2>3 DEF InstallSync, Goto, Kept, ghosts, TInv, TypeOK, DiskOK, Steps, TidySteps,
          RecoverSteps, UnpairedSteps, AsideSteps
<1> QED BY <1>1, <1>2, <1>3, <1>4, <1>5 DEF Install

(* What may be pruned, and what a start-over removes, are stamps.            *)
LEMMA SupersededAreStamps == ASSUME NEW d PROVE Superseded(d) \in SUBSET Stamps /\ old_copy_sets(d) \in SUBSET Stamps
BY DEF Superseded, old_copy_sets

(* So does the tidying.                                                      *)
LEMMA TidyTypes ==
    ASSUME TInv, TidyDir \/ PruneOne \/ PruneDone \/ TidyArtefacts PROVE TInv'
<1>0. TypeOK BY DEF TInv
<1>1. CASE TidyDir
  <2>1. \A d \in Directory : DropAssembly(d) \in Directory BY <1>0, OpsTyped
  <2>2. DiskOK' BY <1>0, <1>1, <2>1 DEF TidyDir, DiskOK, TypeOK, Change
  <2> QED BY <1>0, <1>1, <2>2 DEF TidyDir, Goto, Kept, ghosts, TInv, TypeOK, DiskOK, Steps, TidySteps,
          RecoverSteps, UnpairedSteps, AsideSteps
<1>2. CASE PruneOne
  <2>1. DropFileOf(Superseded(fs)) /\ Superseded(fs) \in SUBSET Stamps BY <1>2, SupersededAreStamps DEF PruneOne
  <2>2. DiskOK' BY <1>0, <2>1, DropOneTypes
  <2> QED BY <1>0, <1>2, <2>2 DEF PruneOne, Goto, Kept, ghosts, TInv, TypeOK, DiskOK, Steps, TidySteps,
          RecoverSteps, UnpairedSteps, AsideSteps
<1>3. CASE PruneDone
  BY <1>0, <1>3 DEF PruneDone, NoDisk, disk, Goto, Kept, ghosts, TInv, TypeOK, DiskOK, Steps, TidySteps,
          RecoverSteps, UnpairedSteps, AsideSteps
<1>4. CASE TidyArtefacts
  <2>1. \A d \in Directory : DropArtefacts(d) \in Directory BY <1>0, OpsTyped
  <2>2. DiskOK' BY <1>0, <1>4, <2>1 DEF TidyArtefacts, DiskOK, TypeOK, Change
  <2> QED BY <1>0, <1>4, <2>2, PcTypes, KeyTypes DEF TidyArtefacts, Kept, ghosts, TInv, TypeOK, DiskOK
<1> QED BY <1>1, <1>2, <1>3, <1>4

(* So does assembling a restore.                                             *)
LEMMA AssembleTypes == ASSUME TInv, NEW backup \in SUBSET Rows, Assemble(backup) PROVE TInv'
<1>0. TypeOK BY DEF TInv
<1>1. \A d \in Directory : MakeAssembly(d) \in Directory BY <1>0, OpsTyped
<1>2. DiskOK' BY <1>0, <1>1 DEF Assemble, DiskOK, TypeOK, Change
<1>3. Dek(draws) \in Key BY <1>0, KeyTypes DEF TypeOK
<1>4. new' \in VaultId /\ draws' \in Nat /\ flushed' = FALSE /\ UNCHANGED <<told, owned, prev>>
  BY <1>0, <1>3 DEF Assemble, TypeOK, VaultId, ghosts
<1>5. CASE AnyLive(fs)
  <2>1. stamp' \in FreshStamps(fs) /\ pc' = "aside.db"
        /\ (IF InOrder(fs, stamp') THEN UNCHANGED spent ELSE Mishap("setbacks"))
    BY <1>5 DEF Assemble
  <2>2. stamp' \in Stamps /\ (InOrder(fs, stamp') \/ MayGoWrong) BY <2>1 DEF FreshStamps
  <2>3. spent' \in Counts
    <3>1. CASE InOrder(fs, stamp') BY <1>0, <2>1, <3>1 DEF TypeOK, Counts
    <3>2. CASE ~InOrder(fs, stamp') BY <1>0, <2>1, <2>2, <3>2, MishapTypes
    <3> QED BY <3>1, <3>2
  <2> QED BY <1>0, <1>2, <1>4, <2>1, <2>2, <2>3 DEF TInv, TypeOK, DiskOK, Counts, Steps, AsideSteps
<1>6. CASE ~AnyLive(fs)
  <2>1. stamp' = 0 /\ pc' = "install.flush" /\ UNCHANGED spent BY <1>6 DEF Assemble
  <2> QED BY <1>0, <1>2, <1>4, <2>1 DEF TInv, TypeOK, DiskOK, Steps, InstallSteps, RecoverSteps, UnpairedSteps, AsideSteps
<1> QED BY <1>5, <1>6

(* So does every step of a restore.                                          *)
LEMMA RestoreTypes == ASSUME TInv, Restore PROVE TInv'
<1>0. TypeOK BY DEF TInv
<1>1. CASE OpenRestore
  BY <1>0, <1>1 DEF OpenRestore, Goto, NoDisk, disk, Kept, ghosts, TInv, TypeOK, Surfaces, RecoverSteps, UnpairedSteps, AsideSteps
<1>2. CASE CancelRestore
  BY <1>0, <1>2, PcTypes, KeyTypes DEF CancelRestore, NoDisk, disk, Kept, ghosts, TInv, TypeOK
<1> QED BY <1>1, <1>2, AssembleTypes, InstallTypes, TidyTypes DEF Restore

(* So does a start-over.                                                     *)
LEMMA ResetTypes == ASSUME TInv, Reset PROVE TInv'
<1>0. TypeOK BY DEF TInv
<1>1. CASE StartOver
  BY <1>0, <1>1, KeyTypes DEF StartOver, Goto, NoDisk, disk, TInv, TypeOK, Steps, ResetSteps, RecoverSteps, UnpairedSteps, AsideSteps
<1>2. ASSUME DiskOK', pc' \in ResetSteps, UNCHANGED <<stamp, new, flushed, told, owned, prev, draws, spent>>
      PROVE  TInv'
  BY <1>0, <1>2 DEF TInv, TypeOK, DiskOK, Steps, ResetSteps, RecoverSteps, UnpairedSteps, AsideSteps
<1>3. CASE ResetDirs \/ ResetArtefacts \/ ResetWal \/ ResetDb
  <2>1. Change(DropDirs) \/ Change(DropArtefacts) \/ Change(DropWal) \/ Change(DropDb)
    BY <1>3 DEF ResetDirs, ResetArtefacts, ResetWal, ResetDb
  <2>2. DiskOK' BY <1>0, <2>1, OpsTyped DEF Change, DiskOK
  <2> QED BY <1>2, <1>3, <2>2 DEF ResetDirs, ResetArtefacts, ResetWal, ResetDb, Goto, Kept, ghosts, ResetSteps
<1>4. CASE ResetOlds
  <2>1. DiskOK'
    <3>1. CASE old_copy_sets(fs) = {} BY <1>0, <1>4, <3>1 DEF ResetOlds, NoDisk, disk, DiskOK, TypeOK
    <3>2. CASE old_copy_sets(fs) # {}
      <4>1. DropFileOf(old_copy_sets(fs)) BY <1>4, <3>2 DEF ResetOlds
      <4> QED BY <1>0, <4>1, SupersededAreStamps, DropOneTypes
    <3> QED BY <3>1, <3>2
  <2>2. pc' \in ResetSteps /\ UNCHANGED <<stamp, new, flushed, told, owned, prev, draws, spent>>
    BY <1>4 DEF ResetOlds, Goto, Kept, ghosts, ResetSteps
  <2> QED BY <1>2, <2>1, <2>2
<1>5. CASE ResetSide
  <2>1. \A d \in Directory : DropSide(d) \in Directory BY <1>0, OpsTyped
  <2>2. DiskOK' BY <1>0, <1>5, <2>1 DEF ResetSide, DiskOK, TypeOK, Change
  <2> QED BY <1>0, <1>5, <2>2, PcTypes, KeyTypes DEF ResetSide, Kept, ghosts, TInv, TypeOK, DiskOK
<1> QED BY <1>1, <1>3, <1>4, <1>5 DEF Reset

(* What the unlock screen opens is a vault.                                  *)
LEMMA LiveTypes == ASSUME TypeOK PROVE Live(fs) \in VaultId
<1>1. fs.db \in DbFile /\ fs.wal \in DbFile BY DEF TypeOK, Directory
<1>2. RowsOf(fs.db, fs.wal) \in SUBSET Rows BY <1>1 DEF DbFile, RowsOf
<1> QED BY <1>1, <1>2 DEF Live, VaultId, DbFile

(* So does a session.                                                        *)
LEMMA SessionTypes == ASSUME TInv, Session PROVE TInv'
<1>0. TypeOK BY DEF TInv
<1>1. CASE Unlock
  <2>1. \A d \in Directory : [d EXCEPT !.db = TornDb] \in Directory BY KeyTypes DEF Directory
  <2>2. DiskOK' BY <1>0, <1>1, <2>1 DEF Unlock, NoDisk, disk, Change, DiskOK, TypeOK
  <2>3. owned' \in VaultId /\ UNCHANGED <<prev, draws, spent, stamp, new, flushed, told>>
        /\ pc' \in {"unlock", "session"}
    BY <1>0, <1>1, LiveTypes DEF Unlock, Goto, ghosts, TypeOK
  <2> QED BY <1>0, <2>2, <2>3 DEF TInv, TypeOK, DiskOK, Surfaces, RecoverSteps, UnpairedSteps, AsideSteps
<1>2. CASE Lock
  <2>1. DiskOK' BY <1>0, <1>2, CloseTypes DEF Lock
  <2> QED BY <1>0, <1>2, <2>1 DEF Lock, Goto, Kept, ghosts, TInv, TypeOK, DiskOK, Surfaces, RecoverSteps, UnpairedSteps, AsideSteps
<1>3. CASE Quit
  BY <1>0, <1>3 DEF Quit, NoDisk, disk, Kept, ghosts, TInv, TypeOK, Surfaces, RecoverSteps, UnpairedSteps, AsideSteps
<1>4. ASSUME NEW r \in Rows, Write(r) PROVE TInv'
  <2>1. fs.db.key \in Key BY <1>0 DEF TypeOK, Directory, DbFile
  <2>2. \A d \in Directory : [d EXCEPT !.wal = NewDb(fs.db.key, d.wal.rows \cup {r})] \in Directory
    <3> TAKE d \in Directory
    <3>1. d.wal.rows \cup {r} \in SUBSET Rows BY DEF Directory, DbFile
    <3>2. NewDb(fs.db.key, d.wal.rows \cup {r}) \in DbFile BY <2>1, <3>1, KeyTypes
    <3> QED BY <3>2 DEF Directory
  <2>3. DiskOK'
    <3> DEFINE Op(d) == [d EXCEPT !.wal = NewDb(fs.db.key, d.wal.rows \cup {r})]
    <3>1. fs' = Op(fs) /\ (maybe' = {Op(d) : d \in maybe} \/ maybe' = {Op(fs)})
      BY <1>4 DEF Write, InPlace, ChangeAndSync
    <3>2. \A d \in Directory : Op(d) \in Directory BY <2>2
    <3> HIDE DEF Op
    <3> QED BY <1>0, <3>1, <3>2 DEF DiskOK, TypeOK
  <2>4. owned' \in VaultId BY <1>0, <1>4 DEF Write, TypeOK, VaultId
  <2> QED BY <1>0, <1>4, <2>3, <2>4 DEF Write, proc, TInv, TypeOK, DiskOK
<1> QED BY <1>1, <1>2, <1>3, <1>4 DEF Session

(* So does checking a backup.                                                *)
LEMMA VerifyTypes == ASSUME TInv, Verify PROVE TInv'
<1>0. TypeOK BY DEF TInv
<1>1. PICK left \in BOOLEAN : VerifyBackup(left) BY DEF Verify
<1>2. \A d \in Directory :
         [d EXCEPT !.dirs = (d.dirs \ {"verify-staging"}) \cup (IF left THEN {"verify-staging"} ELSE {})]
            \in Directory
  BY DEF Directory
<1>3. DiskOK' BY <1>0, <1>1, <1>2 DEF VerifyBackup, Change, DiskOK, TypeOK
<1>4. spent' \in Counts
  <2>1. CASE left
    <3>1. MayGoWrong /\ Mishap("faults") BY <1>1, <2>1 DEF VerifyBackup
    <3> QED BY <1>0, <3>1, MishapTypes
  <2>2. CASE ~left BY <1>0, <1>1, <2>2 DEF VerifyBackup, TypeOK, Counts
  <2> QED BY <2>1, <2>2
<1> QED BY <1>0, <1>1, <1>3, <1>4 DEF VerifyBackup, proc, ghosts, TInv, TypeOK, DiskOK, Counts

(* An interrupted pruning leaves a directory.                                *)
LEMMA PrunedTypes == ASSUME TypeOK, NEW d \in Directory, NEW s, NEW f PROVE PrunedBut(d, s, f) \in Directory
<1>1. \A t \in Stamps : [g \in DOMAIN NoSet |-> IF t = s /\ g = f THEN d.olds[t][g] ELSE NoSet[g]] \in OldSet
  <2> TAKE t \in Stamps
  <2>1. d.olds[t] \in OldSet BY DEF Directory
  <2>2. DOMAIN NoSet = {"db", "wal", "side"} BY DEF NoSet
  <2>3. PICK a : a = IF t = s /\ "db" = f THEN d.olds[t].db ELSE NoDb OBVIOUS
  <2>4. PICK b : b = IF t = s /\ "wal" = f THEN d.olds[t].wal ELSE NoDb OBVIOUS
  <2>5. PICK c : c = IF t = s /\ "side" = f THEN d.olds[t].side ELSE NoKey OBVIOUS
  <2>6. [g \in DOMAIN NoSet |-> IF t = s /\ g = f THEN d.olds[t][g] ELSE NoSet[g]]
          = [db |-> a, wal |-> b, side |-> c]
    BY <2>2, <2>3, <2>4, <2>5 DEF NoSet
  <2>7. [db |-> a, wal |-> b, side |-> c] \in OldSet BY <2>1, <2>3, <2>4, <2>5, KeyTypes DEF OldSet
  <2> QED BY <2>6, <2>7
<1>2. [t \in Stamps |->
        IF t \notin Superseded(fs) THEN d.olds[t]
        ELSE [g \in DOMAIN NoSet |-> IF t = s /\ g = f THEN d.olds[t][g] ELSE NoSet[g]]] \in [Stamps -> OldSet]
  BY <1>1 DEF Directory
<1> QED BY <1>2 DEF PrunedBut, Directory

(* So does an OSError.                                                       *)
LEMMA FaultTypes == ASSUME TInv, Fault PROVE TInv'
<1>0. TypeOK BY DEF TInv
<1>1. spent' \in Counts /\ UNCHANGED <<owned, prev, draws>>
  BY <1>0, MishapTypes DEF Fault, ghosts
<1>2. ASSUME DiskOK', stamp' \in Stamps \cup {0}, new' \in VaultId, flushed' \in BOOLEAN,
             told' \in {"nothing", "incomplete", "interrupted"},
             pc' \in Surfaces \cup TidySteps
      PROVE  TInv'
  BY <1>0, <1>1, <1>2 DEF TInv, TypeOK, DiskOK, Counts, Steps, Surfaces, TidySteps, RecoverSteps, UnpairedSteps, AsideSteps
<1>3. CASE FailedRestore
  <2>1. \A d \in Directory : DropAssembly(d) \in Directory BY <1>0, OpsTyped
  <2>2. DiskOK' BY <1>0, <1>3, <2>1 DEF FailedRestore, DiskOK, TypeOK, Change
  <2> QED BY <1>0, <1>2, <1>3, <2>2, KeyTypes DEF FailedRestore, Surfaces, TypeOK
<1>4. CASE FailedTidy
  <2>1. CASE pc = "tidy.dir" /\ NoDisk /\ Goto("tidy.olds")
    BY <1>0, <1>2, <2>1 DEF NoDisk, disk, Goto, TypeOK, DiskOK, TidySteps
  <2>2. ASSUME NEW s \in Superseded(fs), NEW f \in DOMAIN NoSet, Change(LAMBDA d : PrunedBut(d, s, f)),
               Goto("tidy.art")
        PROVE  TInv'
    <3>1. \A d \in Directory : PrunedBut(d, s, f) \in Directory BY <1>0, PrunedTypes
    <3>2. DiskOK' BY <1>0, <2>2, <3>1 DEF Change, DiskOK, TypeOK
    <3> QED BY <1>0, <1>2, <2>2, <3>2 DEF Goto, TidySteps, TypeOK
  <2>3. CASE pc = "tidy.art" /\ NoDisk /\ EnterRestored
    BY <1>0, <1>2, <2>3, PcTypes, KeyTypes DEF NoDisk, disk, DiskOK, TypeOK
  <2> QED BY <1>4, <2>1, <2>2, <2>3 DEF FailedTidy
<1>5. CASE FailedRecovery
  BY <1>0, <1>2, <1>5 DEF FailedRecovery, NoDisk, disk, DiskOK, TypeOK, Surfaces
<1>6. CASE FailedFirstRun
  <2>1. DiskOK' BY <1>0, <1>6, CloseTypes DEF FailedFirstRun, NoDisk, disk, DiskOK, TypeOK
  <2> QED BY <1>0, <1>2, <1>6, <2>1, KeyTypes DEF FailedFirstRun, TypeOK, Surfaces
<1>7. CASE FailedReset
  BY <1>0, <1>2, <1>7 DEF FailedReset, Goto, NoDisk, disk, DiskOK, TypeOK, Surfaces
<1> QED BY <1>3, <1>4, <1>5, <1>6, <1>7 DEF Fault

(* So does a kill.                                                           *)
LEMMA CrashTypes == ASSUME TInv, Crash PROVE TInv'
<1>0. TypeOK BY DEF TInv
<1>1. spent' \in Counts BY <1>0, MishapTypes DEF Crash
<1> QED BY <1>0, <1>1, KeyTypes DEF Crash, fsync_dir, ghosts, TInv, TypeOK, Counts, Surfaces, RecoverSteps, UnpairedSteps, AsideSteps

(* Every step keeps the types, and the stamp a recovery or a move-aside      *)
(* works on.                                                                 *)
LEMMA TypesStep == TInv /\ [Next]_vars => TInv'
<1> SUFFICES ASSUME TInv, [Next]_vars PROVE TInv' OBVIOUS
<1>1. CASE UNCHANGED vars BY <1>1 DEF vars, TInv, TypeOK
<1> QED BY <1>1, LaunchTypes, RecoverTypes, CreateTypes, RestoreTypes, ResetTypes, SessionTypes, VerifyTypes,
           FaultTypes, CrashTypes DEF Next

(* Every variable keeps its type, for any stamps, rows and bounds, whatever  *)
(* fails.                                                                    *)
THEOREM TypeCorrect == Spec => []TypeOK
<1>1. TInv => TypeOK BY DEF TInv
<1> QED BY <1>1, TypesAtFirst, TypesStep, PTL DEF Spec

-----------------------------------------------------------------------------
(* Start over.  What each of its steps may count on.                         *)
Erased ==
    /\ pc \in ResetSteps \ {"reset.dirs"} => fs.dirs = {}
    /\ pc \in ResetSteps \ {"reset.dirs", "reset.art"} => fs.art = FALSE
    /\ pc \in {"reset.wal", "reset.db", "reset.side"} => \A s \in Stamps : fs.olds[s] = NoSet
    /\ pc \in {"reset.db", "reset.side"} => fs.wal = NoDb
    /\ pc = "reset.side" => fs.db = NoDb

(* A start-over is entered from the unlock screen only.                      *)
LEMMA OnlyResetResets ==
    ASSUME TypeOK, [Next]_vars, ~Reset
    PROVE  pc' \notin ResetSteps \/ UNCHANGED vars
<1>1. CASE Launch BY <1>1 DEF Launch, Route, ResetSteps
<1>2. CASE Recover
  BY <1>2 DEF Recover, RecoverDb, RecoverWal, RecoverSide, RecoverSync, UnpairedDb, UnpairedWal, UnpairedSync,
              Goto, Route, ResetSteps
<1>3. CASE Create BY <1>3 DEF Create, FirstRun, CreateFile, CreateDb, CreateSide, Goto, ResetSteps
<1>4. CASE Restore
  <2>1. CASE Install
    BY <2>1 DEF Install, InstallAsideDb, InstallAsideWal, InstallAsideSide, InstallAsideSync, InstallFlush,
                InstallDb, InstallSide, InstallSync, Goto, ResetSteps
  <2>2. CASE OpenRestore \/ CancelRestore \/ \E backup \in SUBSET Rows : Assemble(backup)
    BY <2>2 DEF OpenRestore, CancelRestore, Assemble, Goto, Route, ResetSteps
  <2>3. CASE TidyDir \/ PruneOne \/ PruneDone \/ TidyArtefacts
    BY <2>3 DEF TidyDir, PruneOne, PruneDone, TidyArtefacts, Goto, EnterRestored, ResetSteps
  <2> QED BY <1>4, <2>1, <2>2, <2>3 DEF Restore
<1>5. CASE Session
  BY <1>5 DEF Session, Unlock, Lock, Quit, Write, proc, Goto, ResetSteps
<1>6. CASE Verify BY <1>6 DEF Verify, VerifyBackup, proc, ResetSteps
<1>7. CASE Fault
  BY <1>7 DEF Fault, FailedRestore, FailedTidy, FailedRecovery, FailedFirstRun, FailedReset, Goto, EnterRestored, ResetSteps
<1>8. CASE Crash BY <1>8 DEF Crash, ResetSteps
<1> QED BY <1>1, <1>2, <1>3, <1>4, <1>5, <1>6, <1>7, <1>8 DEF Next

(* Every step keeps what a start-over has removed so far.                    *)
LEMMA ErasedStep == ASSUME TInv, Erased, [Next]_vars PROVE Erased'
<1>0. TypeOK /\ fs \in Directory BY DEF TInv, TypeOK
<1>1. CASE UNCHANGED vars BY <1>1 DEF vars, Erased
<1>2. CASE ~Reset /\ pc' \notin ResetSteps BY <1>2 DEF Erased, ResetSteps
<1>3. CASE Reset
  <2>1. CASE StartOver BY <2>1 DEF StartOver, Goto, Erased, ResetSteps
  <2>2. CASE ResetDirs
    BY <1>0, <2>2 DEF ResetDirs, Change, DropDirs, Goto, Erased, ResetSteps, Directory
  <2>3. CASE ResetArtefacts
    BY <1>0, <2>3 DEF ResetArtefacts, Change, DropArtefacts, Goto, Erased, ResetSteps, Directory
  <2>4. CASE ResetOlds
    <3>1. CASE old_copy_sets(fs) = {}
      BY <1>0, <2>4, <3>1 DEF ResetOlds, NoDisk, disk, old_copy_sets, Goto, Erased, ResetSteps
    <3>2. CASE old_copy_sets(fs) # {}
      <4>1. pc = "reset.olds" /\ pc' = "reset.olds" /\ DropFileOf(old_copy_sets(fs))
        BY <2>4, <3>2 DEF ResetOlds, Goto
      <4>2. fs'.dirs = fs.dirs /\ fs'.art = fs.art BY <1>0, <4>1 DEF DropFileOf, Change, Directory
      <4> QED BY <4>1, <4>2 DEF Erased, ResetSteps
    <3> QED BY <3>1, <3>2
  <2>5. CASE ResetWal
    BY <1>0, <2>5 DEF ResetWal, Change, DropWal, Goto, Erased, ResetSteps, Directory
  <2>6. CASE ResetDb
    BY <1>0, <2>6 DEF ResetDb, Change, DropDb, Goto, Erased, ResetSteps, Directory
  <2>7. CASE ResetSide
    BY <2>7 DEF ResetSide, Route, Erased, ResetSteps
  <2> QED BY <1>3, <2>1, <2>2, <2>3, <2>4, <2>5, <2>6, <2>7 DEF Reset
<1> QED BY <1>0, <1>1, <1>2, <1>3, OnlyResetResets

(* So it holds in every state.                                               *)
LEMMA ErasedAlways == Spec => [](TInv /\ Erased)
<1>1. Init => Erased BY DEF Init, Erased, ResetSteps
<1>2. TInv /\ Erased /\ [Next]_vars => (TInv /\ Erased)' BY TypesStep, ErasedStep
<1> QED BY <1>1, <1>2, TypesAtFirst, PTL DEF Spec

(* Whatever failed or was killed before, and however many copies there were, *)
(* a start-over that completes leaves an empty directory (reset_vault;       *)
(* security-model INV-12).                                                   *)
THEOREM ResetErases == Spec => ResetLeavesNothing
<1>1. TInv /\ Erased /\ [Next]_vars => [(pc = "reset.side" /\ pc' = "firstrun") => fs' = EmptyDirectory]_vars
  <2> SUFFICES ASSUME TInv, Erased, [Next]_vars, pc = "reset.side", pc' = "firstrun" PROVE fs' = EmptyDirectory OBVIOUS
  <2>0. TypeOK /\ fs \in Directory BY DEF TInv, TypeOK
  <2>1. ResetSide
    <3>1. CASE UNCHANGED vars BY <3>1 DEF vars
    <3>2. CASE Launch \/ Create BY <3>2 DEF Launch, Create, FirstRun, CreateFile, CreateDb, CreateSide
    <3>3. CASE Recover
      BY <3>3 DEF Recover, RecoverDb, RecoverWal, RecoverSide, RecoverSync, UnpairedDb, UnpairedWal, UnpairedSync
    <3>4. CASE Restore
      BY <3>4 DEF Restore, OpenRestore, CancelRestore, Assemble, Install, InstallAsideDb, InstallAsideWal,
                InstallAsideSide, InstallAsideSync, InstallFlush, InstallDb, InstallSide, InstallSync,
                TidyDir, PruneOne, PruneDone, TidyArtefacts
    <3>5. CASE Session \/ Verify
      BY <3>5 DEF Session, Unlock, Lock, Quit, Write, Verify, VerifyBackup, Surfaces
    <3>6. CASE Fault
      BY <3>6 DEF Fault, FailedRestore, FailedTidy, FailedRecovery, FailedFirstRun, FailedReset, Goto,
              AsideSteps, InstallSteps, RecoverSteps, UnpairedSteps, CreateSteps
    <3>7. CASE Crash BY <3>7 DEF Crash
    <3>8. CASE Reset
      BY <3>8 DEF Reset, StartOver, ResetDirs, ResetArtefacts, ResetOlds, ResetWal, ResetDb
    <3> QED BY <3>1, <3>2, <3>3, <3>4, <3>5, <3>6, <3>7, <3>8 DEF Next
  <2>2. /\ fs.dirs = {} /\ fs.art = FALSE /\ fs.wal = NoDb /\ fs.db = NoDb
        /\ \A s \in Stamps : fs.olds[s] = NoSet
    BY DEF Erased, ResetSteps
  <2>3. fs' = [fs EXCEPT !.side = NoKey] BY <2>1 DEF ResetSide, Change, DropSide
  <2>4. fs.olds = [s \in Stamps |-> NoSet] BY <2>0, <2>2 DEF Directory
  <2> QED BY <2>0, <2>2, <2>3, <2>4 DEF Directory, EmptyDirectory
<1> QED BY <1>1, ErasedAlways, PTL DEF Spec, ResetLeavesNothing

-----------------------------------------------------------------------------
(* The owner's vault, when no two things go wrong at once: the clock is not  *)
(* set back, nothing happens between two renames of a recovery, and no       *)
(* OSError interrupts a restore's move-aside or its installation.  Kills are *)
(* free everywhere else, in any number, as are the other OSErrors.           *)
Mid == {"recover.wal", "recover.side", "unpaired.wal"}
Undisturbed ==
    /\ spent'.setbacks = spent.setbacks
    /\ pc \in Mid => spent' = spent
    /\ pc \in AsideSteps \cup InstallSteps => spent'.faults = spent.faults

(* No page of a database is damaged here; "absent" is the one value NoDb.    *)
Proper(f) == f.health \in {"absent", "torn", "ok"} /\ (f.health = "absent" => f = NoDb)
Files == /\ Proper(fs.db) /\ Proper(fs.wal)
         /\ \A s \in Stamps : /\ Proper(fs.olds[s].db) /\ Proper(fs.olds[s].wal)
                              /\ OwnWal(fs.olds[s].db, fs.olds[s].wal)

Holds(db, wal, side, v) ==
    side = v.key /\ Opens(db, wal, v.key) /\ v.rows \subseteq RowsOf(db, wal)

(* These three files are a vault, or what there is of one, beside the copies *)
(* of the stamps S: they are v, if there is a v, and where one of them is    *)
(* missing no copy could be taken for the vault they were.                   *)
IsVault(olds, S, db, wal, side, v) ==
    /\ Exists(wal) => Exists(db) /\ wal.key = db.key
    /\ side = NoKey => \A s \in S : ~Exists(olds[s].db) \/ olds[s].side = NoKey
    /\ side # NoKey /\ ~Exists(db) => \A s \in S : ~Exists(olds[s].db)
    /\ v # NoVault => Holds(db, wal, side, v)

Others(s) == Stamps \ {s}
Top(d, s) == s \in Stamps /\ \A t \in Stamps : d.olds[t] # NoSet => t <= s

(* The live vault; a launch that finds it so routes and recovers nothing.    *)
Settled(d, v) == IsVault(d.olds, Stamps, d.db, d.wal, d.side, v)
Quiet(d, v) == Settled(d, v) /\ (d.side = NoKey => ~Exists(d.wal))

(* The database went aside, and the WAL perhaps, but not the sidecar.        *)
HalfAside(d, s, v) ==
    /\ Top(d, s) /\ d.db = NoDb /\ d.side # NoKey
    /\ Exists(d.olds[s].db) /\ d.olds[s].side = NoKey
    /\ \/ /\ ~Exists(d.olds[s].wal)
          /\ IsVault(d.olds, Others(s), d.olds[s].db, d.wal, d.side, v)
       \/ /\ ~Exists(d.wal)
          /\ IsVault(d.olds, Others(s), d.olds[s].db, d.olds[s].wal, d.side, v)

(* All three went; a database of the aborted restore may have come.          *)
AllAside(d, s, v) ==
    /\ Top(d, s) /\ d.wal = NoDb /\ d.side = NoKey
    /\ Exists(d.olds[s].db) /\ d.olds[s].side # NoKey
    /\ IsVault(d.olds, Others(s), d.olds[s].db, d.olds[s].wal, d.olds[s].side, v)

(* Whatever was live is under the stamp s; 0 if there was nothing.           *)
Aside(d, s, v) ==
    /\ d.wal = NoDb /\ d.side = NoKey
    /\ \/ s = 0 /\ v = NoVault /\ IsVault(d.olds, Stamps, NoDb, NoDb, NoKey, v)
       \/ /\ Top(d, s) /\ (d.olds[s].side = NoKey => ~Exists(d.olds[s].wal))
          /\ IsVault(d.olds, Others(s), d.olds[s].db, d.olds[s].wal, d.olds[s].side, v)

Resting(d, v) ==
    Settled(d, v) \/ \E s \in Stamps : HalfAside(d, s, v) \/ AllAside(d, s, v)

(* Where the program is, and what it finds there.                            *)
Down == pc = "down" /\ Resting(fs, owned) /\ (told = "incomplete" => owned = NoVault)
Calm == pc \in {"unlock", "dialog", "recover.sync", "unpaired.sync"} /\ Quiet(fs, owned)
Entered == pc \in {"session"} \cup TidySteps /\ Quiet(fs, owned) /\ owned # NoVault
Resetting == pc \in ResetSteps /\ Quiet(fs, owned) /\ owned = NoVault
Offering == pc = "firstrun" /\ Quiet(fs, owned) /\ owned = NoVault
Creating ==
    /\ pc \in CreateSteps /\ Settled(fs, owned) /\ owned = NoVault
    /\ new.key # NoKey /\ new.rows = {} /\ fs.side = NoKey
    /\ IF pc = "create.side" THEN fs.db = NewDb(new.key, {}) /\ fs.wal = fs.db ELSE fs.wal = NoDb
MovingAside ==
    /\ new.key # NoKey /\ Top(fs, stamp) /\ fs.olds[stamp].side = NoKey
    /\ \/ pc = "aside.db" /\ Quiet(fs, owned) /\ fs.olds[stamp] = NoSet
       \/ /\ pc = "aside.wal" /\ fs.db = NoDb /\ fs.olds[stamp].wal = NoDb
          /\ fs.side = NoKey => ~Exists(fs.wal)
          /\ IsVault(fs.olds, Others(stamp), fs.olds[stamp].db, fs.wal, fs.side, owned)
       \/ /\ pc = "aside.side" /\ fs.db = NoDb /\ fs.wal = NoDb
          /\ fs.side = NoKey => ~Exists(fs.olds[stamp].wal)
          /\ IsVault(fs.olds, Others(stamp), fs.olds[stamp].db, fs.olds[stamp].wal, fs.side, owned)
Installing ==
    /\ new.key # NoKey /\ Aside(fs, stamp, owned)
    /\ \/ pc \in {"aside.sync", "install.flush"} /\ fs.db = NoDb
       \/ pc = "install.db" /\ fs.db = NoDb /\ flushed
       \/ pc = "install.side" /\ fs.db = NewDb(new.key, new.rows) /\ flushed
Restored == pc = "install.sync" /\ Quiet(fs, owned) /\ owned # NoVault /\ flushed
TakingBack ==
    \/ pc = "recover.db" /\ AllAside(fs, stamp, owned)
    \/ /\ pc \in {"recover.wal", "recover.side"} /\ stamp \in Stamps
       /\ Exists(fs.db) /\ fs.olds[stamp].side # NoKey /\ fs.olds[stamp].db = NoDb
       /\ IF pc = "recover.wal"
          THEN fs.wal = NoDb /\ IsVault(fs.olds, Others(stamp), fs.db, fs.olds[stamp].wal,
                                        fs.olds[stamp].side, owned)
          ELSE IsVault(fs.olds, Others(stamp), fs.db, fs.wal, fs.olds[stamp].side, owned)
    \/ pc = "unpaired.db" /\ HalfAside(fs, stamp, owned)
    \/ /\ pc = "unpaired.wal" /\ stamp \in Stamps
       /\ Exists(fs.db) /\ fs.olds[stamp].db = NoDb /\ fs.side # NoKey
       /\ \/ /\ ~Exists(fs.olds[stamp].wal)
             /\ IsVault(fs.olds, Others(stamp), fs.db, fs.wal, fs.side, owned)
          \/ /\ ~Exists(fs.wal)
             /\ IsVault(fs.olds, Others(stamp), fs.db, fs.olds[stamp].wal, fs.side, owned)
Place == \/ Down \/ Calm \/ Entered \/ Resetting \/ Offering \/ Creating
         \/ MovingAside \/ Installing \/ Restored \/ TakingBack

Shape == Files /\ Place /\ (told # "nothing" => pc = "down")

Named == /\ owned # NoVault => owned.key # NoKey
         /\ prev # NoVault => prev.key # NoKey

(* The way back from a restore.                                              *)
KeepsWay ==
    /\ owned = NoVault => prev = NoVault
    /\ prev # NoVault /\ owned.key # prev.key => \E s \in Stamps : WholeSet(fs.olds[s], prev)
    /\ pc \in {"install.sync", "tidy.dir", "tidy.olds"} /\ prev # NoVault =>
         stamp \in Stamps /\ WholeSet(fs.olds[stamp], prev)

(* What a power loss may leave of a live vault, and of one that went aside.  *)
Same(d) == /\ d.side = fs.side /\ PairOpens(d) /\ fs.db.rows \subseteq d.db.rows
           /\ fs.wal.rows \subseteq RowsOf(d.db, d.wal)
Images ==
    /\ pc \in Surfaces \cup TidySteps \cup ResetSteps /\ PairOpens(fs) => \A d \in maybe : Same(d)
    /\ pc \in InstallSteps /\ stamp # 0 => \A d \in maybe : d.olds[stamp] = fs.olds[stamp]

IInv == TInv /\ Erased /\ Shape /\ Named /\ KeepsWay /\ Images

(* A vault stays one beside fewer copies.                                    *)
LEMMA FewerCopies ==
    ASSUME NEW o1, NEW o2, NEW S1, NEW S2 \in SUBSET S1, NEW db, NEW wal, NEW side, NEW v,
           IsVault(o1, S1, db, wal, side, v),
           \A s \in S2 : /\ Exists(o2[s].db) => Exists(o1[s].db)
                         /\ o1[s].side = NoKey => o2[s].side = NoKey
    PROVE  IsVault(o2, S2, db, wal, side, v)
BY DEF IsVault

(* The files of the model, as files go.                                      *)
LEMMA ProperFiles ==
    /\ Proper(NoDb) /\ Proper(TornDb) /\ \A k, rows : Proper(NewDb(k, rows))
    /\ ~Exists(NoDb) /\ Exists(TornDb) /\ \A k, rows : Exists(NewDb(k, rows))
    /\ \A f : Proper(f) /\ ~Exists(f) => f = NoDb
    /\ ~Exists(NoSet.db) /\ NoSet.side = NoKey /\ NoSet.wal = NoDb /\ NoSet.db = NoDb
BY DEF Proper, NoDb, TornDb, NewDb, Exists, NoSet

(* What each rename of a recovery moves, and what it leaves.                 *)
LEMMA BackFields ==
    ASSUME fs \in Directory, stamp \in Stamps
    PROVE  /\ BackDb(fs).db = fs.olds[stamp].db /\ BackDb(fs).wal = fs.wal /\ BackDb(fs).side = fs.side
           /\ BackDb(fs).olds[stamp].db = NoDb /\ BackDb(fs).olds[stamp].wal = fs.olds[stamp].wal
           /\ BackDb(fs).olds[stamp].side = fs.olds[stamp].side
           /\ \A s \in Others(stamp) : BackDb(fs).olds[s] = fs.olds[s]
           /\ BackWal(fs).wal = fs.olds[stamp].wal /\ BackWal(fs).db = fs.db /\ BackWal(fs).side = fs.side
           /\ BackWal(fs).olds[stamp].wal = NoDb /\ BackWal(fs).olds[stamp].db = fs.olds[stamp].db
           /\ BackWal(fs).olds[stamp].side = fs.olds[stamp].side
           /\ \A s \in Others(stamp) : BackWal(fs).olds[s] = fs.olds[s]
           /\ BackSide(fs).side = fs.olds[stamp].side /\ BackSide(fs).db = fs.db /\ BackSide(fs).wal = fs.wal
           /\ BackSide(fs).olds[stamp].side = NoKey /\ BackSide(fs).olds[stamp].db = fs.olds[stamp].db
           /\ BackSide(fs).olds[stamp].wal = fs.olds[stamp].wal
           /\ \A s \in Others(stamp) : BackSide(fs).olds[s] = fs.olds[s]
BY DEF BackDb, BackWal, BackSide, Directory, OldSet, Others

(* What each rename of the move-aside moves, and what it leaves.             *)
LEMMA AsideFields ==
    ASSUME fs \in Directory, stamp \in Stamps
    PROVE  /\ AsideDb(fs).db = NoDb /\ AsideDb(fs).wal = fs.wal /\ AsideDb(fs).side = fs.side
           /\ AsideDb(fs).olds[stamp].db = fs.db /\ AsideDb(fs).olds[stamp].wal = fs.olds[stamp].wal
           /\ AsideDb(fs).olds[stamp].side = fs.olds[stamp].side
           /\ \A s \in Others(stamp) : AsideDb(fs).olds[s] = fs.olds[s]
           /\ AsideWal(fs).wal = NoDb /\ AsideWal(fs).db = fs.db /\ AsideWal(fs).side = fs.side
           /\ AsideWal(fs).olds[stamp].wal = fs.wal /\ AsideWal(fs).olds[stamp].db = fs.olds[stamp].db
           /\ AsideWal(fs).olds[stamp].side = fs.olds[stamp].side
           /\ \A s \in Others(stamp) : AsideWal(fs).olds[s] = fs.olds[s]
           /\ AsideSide(fs).side = NoKey /\ AsideSide(fs).db = fs.db /\ AsideSide(fs).wal = fs.wal
           /\ AsideSide(fs).olds[stamp].side = fs.side /\ AsideSide(fs).olds[stamp].db = fs.olds[stamp].db
           /\ AsideSide(fs).olds[stamp].wal = fs.olds[stamp].wal
           /\ \A s \in Others(stamp) : AsideSide(fs).olds[s] = fs.olds[s]
BY DEF AsideDb, AsideWal, AsideSide, Directory, OldSet, Others

(* Where the vault is live and no WAL lies beside a missing sidecar.         *)
QuietAt == {"unlock", "session", "dialog", "firstrun", "aside.db", "install.sync", "recover.sync",
            "unpaired.sync"} \cup TidySteps \cup ResetSteps

(* What each place says, by place.                                           *)
LEMMA PlaceIs ==
    ASSUME Shape
    PROVE  /\ pc = "down" => Down
           /\ pc \in QuietAt => Quiet(fs, owned)
           /\ pc \in {"session", "install.sync"} \cup TidySteps => owned # NoVault
           /\ pc \in {"firstrun"} \cup CreateSteps \cup ResetSteps => owned = NoVault
           /\ pc \in CreateSteps => Creating
           /\ pc \in {"aside.db", "aside.wal", "aside.side"} => MovingAside
           /\ pc \in {"aside.sync", "install.flush", "install.db", "install.side"} => Installing
           /\ pc = "install.sync" => Restored
           /\ pc \in {"recover.db", "recover.wal", "recover.side", "unpaired.db", "unpaired.wal"} =>
                TakingBack
           /\ pc \in {"unlock", "session"} => Calm \/ Entered
           /\ pc \in ResetSteps => Resetting
BY DEF Shape, Place, Down, Calm, Entered, Resetting, Offering, Creating, MovingAside, Installing,
       Restored, TakingBack, QuietAt, TidySteps, ResetSteps, CreateSteps

(* A launch that finds the vault settled recovers nothing.                   *)
LEMMA SettledRoutes ==
    ASSUME TypeOK, Settled(fs, owned), Files
    PROVE  ~Unpaired(fs) /\ ~Recoverable(fs)
BY DEF Settled, IsVault, Unpaired, Recoverable, presence_state, db_olds, sidecar_olds

(* And routes to a surface that says so.                                     *)
LEMMA RouteRests ==
    ASSUME TInv, Settled(fs, owned), Files, Named, Route(fs), UNCHANGED <<fs, owned>>
    PROVE  Shape'
<1>1. Files' /\ Settled(fs', owned')
  BY DEF Files
<1>2. CASE presence_state(fs) = "unlock"
  <2>1. pc' = "unlock" /\ told' = "nothing" /\ fs.side # NoKey BY <1>2 DEF Route, presence_state
  <2>2. Calm' BY <1>1, <2>1 DEF Calm, Quiet
  <2> QED BY <1>1, <2>1, <2>2 DEF Shape, Place
<1>3. CASE presence_state(fs) = "first_run"
  <2>1. pc' = "firstrun" /\ told' = "nothing" /\ fs.side = NoKey /\ ~Exists(fs.db)
    BY <1>3 DEF Route, presence_state
  <2>2. owned = NoVault /\ ~Exists(fs.wal)
    BY <2>1 DEF Settled, IsVault, Holds, Named
  <2>3. Offering' BY <1>1, <2>1, <2>2 DEF Offering, Quiet
  <2> QED BY <1>1, <2>1, <2>3 DEF Shape, Place
<1>4. CASE presence_state(fs) = "mixed"
  <2>1. pc' = "down" /\ told' = "incomplete" /\ (fs.side = NoKey \/ ~Exists(fs.db))
    BY <1>4 DEF Route, presence_state
  <2>2. owned = NoVault
    BY <2>1 DEF Settled, IsVault, Holds, Named, Opens, Exists
  <2>3. Down' BY <1>1, <2>1, <2>2 DEF Down, Resting
  <2> QED BY <1>1, <2>1, <2>3 DEF Shape, Place
<1> QED BY <1>2, <1>3, <1>4 DEF presence_state

(* The newest stamp is the one a launch takes.                               *)
LEMMA TopIsNewest ==
    ASSUME TypeOK, NEW s, Top(fs, s), NEW S \in SUBSET db_olds(fs), s \in S
    PROVE  Max(S) = s
<1>1. S \in SUBSET Stamps /\ S # {} BY DEF db_olds
<1>2. Max(S) \in S /\ s <= Max(S) BY <1>1, StampFacts
<1>3. Max(S) <= s
  <2>1. Max(S) \in Stamps /\ Exists(fs.olds[Max(S)].db) BY <1>2 DEF db_olds
  <2>2. fs.olds[Max(S)] # NoSet BY <2>1, ProperFiles
  <2> QED BY <2>1, <2>2 DEF Top
<1>4. s \in Nat /\ Max(S) \in Nat BY <1>1, <1>2, StampsAreNat
<1> QED BY <1>2, <1>3, <1>4

(* A launch finds the vault: where it is live, under the newest stamp whole, *)
(* or under it but for the sidecar.                                          *)
LEMMA LaunchShape == ASSUME TInv, Shape, Named, Launch PROVE Shape'
<1>0. TypeOK /\ Files /\ Down BY PlaceIs DEF TInv, Launch, Shape
<1>1. UNCHANGED <<fs, owned>> BY DEF Launch, NoDisk, disk, Kept, ghosts
<1>2. Files' BY <1>0, <1>1 DEF Files
<1>3. CASE Settled(fs, owned)
  <2>1. Route(fs) BY <1>0, <1>3, SettledRoutes DEF Launch
  <2> QED BY <1>0, <1>1, <1>3, <2>1, RouteRests
<1>4. ASSUME NEW s \in Stamps, HalfAside(fs, s, owned) PROVE Shape'
  <2>1. s \in db_olds(fs) /\ ~Exists(fs.db) /\ fs.side # NoKey /\ s \notin sidecar_olds(fs)
    BY <1>4, ProperFiles DEF HalfAside, db_olds, sidecar_olds
  <2>2. Max(db_olds(fs)) = s BY <1>0, <1>4, <2>1, TopIsNewest DEF HalfAside
  <2>3. Unpaired(fs) BY <2>1, <2>2 DEF Unpaired
  <2>4. pc' = "unpaired.db" /\ stamp' = s /\ told' = "nothing" BY <2>2, <2>3 DEF Launch
  <2>5. TakingBack' BY <1>1, <1>4, <2>4 DEF TakingBack
  <2> QED BY <1>2, <2>4, <2>5 DEF Shape, Place
<1>5. ASSUME NEW s \in Stamps, AllAside(fs, s, owned) PROVE Shape'
  <2> DEFINE S == db_olds(fs) \cap sidecar_olds(fs)
  <2>1. s \in S /\ fs.side = NoKey
    BY <1>5 DEF AllAside, db_olds, sidecar_olds
  <2>2. S \in SUBSET db_olds(fs) OBVIOUS
  <2> HIDE DEF S
  <2>3. Max(S) = s BY <1>0, <1>5, <2>1, <2>2, TopIsNewest DEF AllAside
  <2>4. RecoveredSet(fs) = s BY <2>3 DEF RecoveredSet, S
  <2>5. ~Unpaired(fs) /\ Recoverable(fs) BY <2>1 DEF Unpaired, Recoverable, presence_state, S
  <2>6. pc' = "recover.db" /\ stamp' = s /\ told' = "nothing" BY <2>4, <2>5 DEF Launch
  <2>7. TakingBack' BY <1>1, <1>5, <2>6 DEF TakingBack
  <2> QED BY <1>2, <2>6, <2>7 DEF Shape, Place
<1> QED BY <1>0, <1>3, <1>4, <1>5 DEF Down, Resting

(* A recovery nothing interrupts brings the vault back, its own WAL with it. *)
LEMMA RecoverShape == ASSUME TInv, Shape, Named, Recover PROVE Shape'
<1>0. TypeOK /\ Files /\ fs \in Directory BY DEF TInv, TypeOK, Shape
<1>1. UNCHANGED owned /\ told = "nothing" /\ stamp \in Stamps
  BY DEF Recover, RecoverDb, RecoverWal, RecoverSide, RecoverSync, UnpairedDb, UnpairedWal, UnpairedSync,
         Kept, ghosts, Shape, TInv, RecoverSteps, UnpairedSteps
<1>2. CASE RecoverDb
  <2>1. fs' = BackDb(fs) /\ pc = "recover.db" /\ pc' = "recover.wal" /\ stamp' = stamp /\ told' = told
    BY <1>2 DEF RecoverDb, Change, Goto
  <2>2. AllAside(fs, stamp, owned) BY <2>1, PlaceIs DEF TakingBack
  <2>3. Files' BY <1>0, <1>1, <2>1, BackFields, ProperFiles DEF Files, Others, OwnWal
  <2>4. IsVault(fs'.olds, Others(stamp), fs'.db, fs'.olds[stamp].wal, fs'.olds[stamp].side, owned)
    <3>1. IsVault(fs.olds, Others(stamp), fs.olds[stamp].db, fs.olds[stamp].wal, fs.olds[stamp].side, owned)
      BY <2>2 DEF AllAside
    <3>2. IsVault(fs'.olds, Others(stamp), fs.olds[stamp].db, fs.olds[stamp].wal, fs.olds[stamp].side, owned)
      BY <1>0, <1>1, <2>1, <3>1, BackFields, FewerCopies
    <3> QED BY <1>0, <1>1, <2>1, <3>2, BackFields
  <2>5. TakingBack' BY <1>0, <1>1, <2>1, <2>2, <2>4, BackFields DEF TakingBack, AllAside
  <2> QED BY <1>1, <2>1, <2>3, <2>5 DEF Shape, Place
<1>3. CASE RecoverWal
  <2>1. fs' = BackWal(fs) /\ pc = "recover.wal" /\ pc' = "recover.side" /\ stamp' = stamp /\ told' = told
    BY <1>3 DEF RecoverWal, Change, Goto
  <2>2. TakingBack BY <2>1, PlaceIs
  <2>3. Files' BY <1>0, <1>1, <2>1, BackFields, ProperFiles DEF Files, Others, OwnWal
  <2>4. IsVault(fs'.olds, Others(stamp), fs'.db, fs'.wal, fs'.olds[stamp].side, owned)
    <3>1. IsVault(fs.olds, Others(stamp), fs.db, fs.olds[stamp].wal, fs.olds[stamp].side, owned)
      BY <2>1, <2>2 DEF TakingBack
    <3>2. IsVault(fs'.olds, Others(stamp), fs.db, fs.olds[stamp].wal, fs.olds[stamp].side, owned)
      BY <1>0, <1>1, <2>1, <3>1, BackFields, FewerCopies
    <3> QED BY <1>0, <1>1, <2>1, <3>2, BackFields
  <2>5. TakingBack' BY <1>0, <1>1, <2>1, <2>2, <2>4, BackFields DEF TakingBack
  <2> QED BY <1>1, <2>1, <2>3, <2>5 DEF Shape, Place
<1>4. CASE RecoverSide
  <2>1. fs' = BackSide(fs) /\ pc = "recover.side" /\ pc' = "recover.sync" /\ stamp' = stamp /\ told' = told
    BY <1>4 DEF RecoverSide, Change, Goto
  <2>2. TakingBack BY <2>1, PlaceIs
  <2>3. Files' BY <1>0, <1>1, <2>1, BackFields, ProperFiles DEF Files, Others, OwnWal
  <2>4. IsVault(fs.olds, Others(stamp), fs.db, fs.wal, fs.olds[stamp].side, owned)
        /\ fs.olds[stamp].side # NoKey /\ fs.olds[stamp].db = NoDb /\ Exists(fs.db)
    BY <2>1, <2>2 DEF TakingBack
  <2>5. IsVault(fs.olds, Stamps, fs.db, fs.wal, fs.olds[stamp].side, owned)
    BY <2>4 DEF IsVault
  <2>6. IsVault(fs'.olds, Stamps, fs.db, fs.wal, fs.olds[stamp].side, owned)
    BY <1>0, <1>1, <2>1, <2>5, BackFields, FewerCopies DEF Others
  <2>7. Calm' BY <1>0, <1>1, <2>1, <2>4, <2>6, BackFields DEF Calm, Quiet, Settled
  <2> QED BY <1>1, <2>1, <2>3, <2>7 DEF Shape, Place
<1>5. CASE RecoverSync \/ UnpairedSync
  <2>1. Route(fs) /\ fs' = fs /\ pc \in {"recover.sync", "unpaired.sync"}
    BY <1>5 DEF RecoverSync, UnpairedSync, fsync_dir
  <2>2. Quiet(fs, owned) BY <2>1, PlaceIs DEF QuietAt
  <2> QED BY <1>0, <1>1, <2>1, <2>2, RouteRests DEF Quiet
<1>6. CASE UnpairedDb
  <2>1. fs' = BackDb(fs) /\ pc = "unpaired.db" /\ pc' = "unpaired.wal" /\ stamp' = stamp /\ told' = told
    BY <1>6 DEF UnpairedDb, Change, Goto
  <2>2. HalfAside(fs, stamp, owned) BY <2>1, PlaceIs DEF TakingBack
  <2>3. Files' BY <1>0, <1>1, <2>1, BackFields, ProperFiles DEF Files, Others, OwnWal
  <2>4. ASSUME NEW wal, IsVault(fs.olds, Others(stamp), fs.olds[stamp].db, wal, fs.side, owned)
        PROVE  IsVault(fs'.olds, Others(stamp), fs'.db, wal, fs'.side, owned)
    <3>2. IsVault(fs'.olds, Others(stamp), fs.olds[stamp].db, wal, fs.side, owned)
      BY <1>0, <1>1, <2>1, <2>4, BackFields, FewerCopies
    <3> QED BY <1>0, <1>1, <2>1, <3>2, BackFields
  <2>5. TakingBack' BY <1>0, <1>1, <2>1, <2>2, <2>4, BackFields DEF TakingBack, HalfAside
  <2> QED BY <1>1, <2>1, <2>3, <2>5 DEF Shape, Place
<1>7. CASE UnpairedWal
  <2>1. fs' = BackOwnWal(fs) /\ pc = "unpaired.wal" /\ pc' = "unpaired.sync" /\ stamp' = stamp /\ told' = told
    BY <1>7 DEF UnpairedWal, Change, Goto
  <2>2. TakingBack BY <2>1, PlaceIs
  <2>3. Files' BY <1>0, <1>1, <2>1, BackFields, ProperFiles DEF Files, Others, OwnWal, BackOwnWal
  <2>4. fs'.db = fs.db /\ fs'.side = fs.side /\ Exists(fs.db) /\ fs.side # NoKey /\ fs.olds[stamp].db = NoDb
        /\ \A s \in Stamps : fs'.olds[s].db = fs.olds[s].db /\ fs'.olds[s].side = fs.olds[s].side
    BY <1>0, <1>1, <2>1, <2>2, BackFields DEF TakingBack, BackOwnWal, Others
  <2>5. IsVault(fs.olds, Others(stamp), fs.db, fs'.wal, fs.side, owned)
    <3>1. CASE Exists(fs.olds[stamp].wal)
      BY <1>0, <1>1, <2>1, <2>2, <3>1, BackFields DEF TakingBack, BackOwnWal
    <3>2. CASE ~Exists(fs.olds[stamp].wal)
      <4>1. fs' = fs BY <2>1, <3>2 DEF BackOwnWal
      <4>2. CASE IsVault(fs.olds, Others(stamp), fs.db, fs.wal, fs.side, owned) BY <4>1, <4>2
      <4>3. CASE ~Exists(fs.wal) /\ IsVault(fs.olds, Others(stamp), fs.db, fs.olds[stamp].wal, fs.side, owned)
        <5>1. fs.wal = NoDb /\ fs.olds[stamp].wal = NoDb BY <1>0, <1>1, <3>2, <4>3, ProperFiles DEF Files
        <5> QED BY <4>1, <4>3, <5>1
      <4> QED BY <2>1, <2>2, <4>2, <4>3 DEF TakingBack
    <3> QED BY <3>1, <3>2
  <2>6. IsVault(fs.olds, Stamps, fs.db, fs'.wal, fs.side, owned)
    BY <2>4, <2>5 DEF IsVault
  <2>7. IsVault(fs'.olds, Stamps, fs.db, fs'.wal, fs.side, owned)
    BY <2>4, <2>6, FewerCopies
  <2>8. Calm' BY <1>1, <2>1, <2>4, <2>7 DEF Calm, Quiet, Settled
  <2> QED BY <1>1, <2>1, <2>3, <2>8 DEF Shape, Place
<1> QED BY <1>2, <1>3, <1>4, <1>5, <1>6, <1>7 DEF Recover

(* A first run builds a vault where there is none.                           *)
LEMMA CreateShape == ASSUME TInv, Shape, Named, KeepsWay, Create PROVE Shape'
<1>0. TypeOK /\ Files /\ fs \in Directory BY DEF TInv, TypeOK, Shape
<1>1. told = "nothing"
  BY DEF Create, FirstRun, CreateFile, CreateDb, CreateSide, Shape
<1>2. CASE FirstRun
  <2>1. fs' = fs /\ pc' = "create.file" /\ told' = told /\ owned' = owned /\ pc = "firstrun"
        /\ new'.key = Dek(draws) /\ new'.rows = {} /\ fs.side = NoKey
    BY <1>2 DEF FirstRun, NoDisk, disk, ghosts, presence_state
  <2>2. new'.key # NoKey BY <1>0, <2>1, KeyTypes DEF TypeOK
  <2>3. Offering BY <2>1, PlaceIs DEF QuietAt, Offering
  <2>4. fs.wal = NoDb BY <1>0, <2>1, <2>3, ProperFiles DEF Offering, Quiet, Files
  <2>5. Creating' BY <2>1, <2>2, <2>3, <2>4 DEF Creating, CreateSteps, Offering, Quiet
  <2>6. Files' BY <1>0, <2>1 DEF Files
  <2> QED BY <1>1, <2>1, <2>5, <2>6 DEF Shape, Place
<1>3. CASE CreateFile
  <2>1. fs' = CreatedFile(fs) /\ pc' = "create.db" /\ told' = told /\ owned' = owned /\ pc = "create.file"
        /\ new' = new
    BY <1>3 DEF CreateFile, Change, Goto, Kept, ghosts
  <2>2. fs'.db = TornDb /\ fs'.wal = fs.wal /\ fs'.side = fs.side /\ fs'.olds = fs.olds
    BY <1>0, <2>1 DEF CreatedFile, Directory
  <2>3. Creating BY <2>1, PlaceIs DEF CreateSteps
  <2>4. Settled(fs', owned') BY <2>1, <2>2, <2>3, ProperFiles DEF Creating, Settled, IsVault
  <2>5. Creating' BY <2>1, <2>2, <2>3, <2>4 DEF Creating, CreateSteps
  <2>6. Files' BY <1>0, <2>2, ProperFiles DEF Files
  <2> QED BY <1>1, <2>1, <2>5, <2>6 DEF Shape, Place
<1>4. CASE CreateDb
  <2>1. fs' = Created(fs) /\ pc' = "create.side" /\ told' = told /\ owned' = owned /\ pc = "create.db"
        /\ new' = new
    BY <1>4 DEF CreateDb, ChangeAndSync, Goto, Kept, ghosts
  <2>3. Creating BY <2>1, PlaceIs DEF CreateSteps
  <2>2. fs'.db = NewDb(new.key, {}) /\ fs'.wal = fs'.db /\ fs'.side = fs.side /\ fs'.olds = fs.olds
    BY <1>0, <2>1, <2>3, ProperFiles DEF Created, Directory, Creating
  <2>4. Settled(fs', owned') BY <2>1, <2>2, <2>3, ProperFiles DEF Creating, Settled, IsVault
  <2>5. Creating' BY <2>1, <2>2, <2>3, <2>4 DEF Creating, CreateSteps
  <2>6. Files' BY <1>0, <2>2, ProperFiles DEF Files
  <2> QED BY <1>1, <2>1, <2>5, <2>6 DEF Shape, Place
<1>5. CASE CreateSide
  <2>1. fs' = CreatedSide(fs) /\ pc' = "session" /\ told' = told /\ owned' = new /\ pc = "create.side"
    BY <1>5 DEF CreateSide, ChangeAndSync
  <2>2. fs'.db = fs.db /\ fs'.wal = fs.wal /\ fs'.side = new.key /\ fs'.olds = fs.olds
    BY <1>0, <2>1 DEF CreatedSide, Directory
  <2>3. Creating BY <2>1, PlaceIs DEF CreateSteps
  <2>4. fs.db = NewDb(new.key, {}) /\ fs.wal = NewDb(new.key, {}) /\ new.key # NoKey /\ new.rows = {}
    BY <2>1, <2>3 DEF Creating
  <2>5. Holds(fs'.db, fs'.wal, fs'.side, new)
    BY <2>2, <2>4 DEF Holds, Opens, NewDb, RowsOf
  <2>6. Settled(fs', owned') BY <2>1, <2>2, <2>4, <2>5, ProperFiles DEF Settled, IsVault
  <2>7. new # NoVault BY <2>4 DEF NoVault
  <2>8. Entered' BY <2>1, <2>2, <2>4, <2>6, <2>7 DEF Entered, Quiet
  <2>9. Files' BY <1>0, <2>2 DEF Files
  <2> QED BY <1>1, <2>1, <2>8, <2>9 DEF Shape, Place
<1> QED BY <1>2, <1>3, <1>4, <1>5 DEF Create

(* The move-aside puts the vault under one stamp, file by file; the          *)
(* installation puts another in its place.                                   *)
LEMMA InstallShape == ASSUME TInv, Shape, Named, Install PROVE Shape'
<1>0. TypeOK /\ Files /\ fs \in Directory BY DEF TInv, TypeOK, Shape
<1>1. told = "nothing" /\ told' = told /\ (pc \in AsideSteps => stamp \in Stamps)
  BY DEF Install, InstallAsideDb, InstallAsideWal, InstallAsideSide, InstallAsideSync, InstallFlush,
         InstallDb, InstallSide, InstallSync, Goto, Shape, TInv
<1>2. CASE InstallAsideDb
  <2>1. fs' = AsideDb(fs) /\ pc = "aside.db" /\ pc' = "aside.wal" /\ stamp' = stamp /\ new' = new /\ owned' = owned
    BY <1>2 DEF InstallAsideDb, Change, Goto, Kept, ghosts
  <2>2. stamp \in Stamps BY <1>1, <2>1 DEF AsideSteps
  <2>3. MovingAside BY <2>1, PlaceIs
  <2>4. Files' BY <1>0, <2>1, <2>2, <2>3, AsideFields, ProperFiles DEF Files, Others, OwnWal, MovingAside
  <2>5. Top(fs', stamp)
    BY <1>0, <2>1, <2>2, <2>3, AsideFields, StampsAreNat DEF MovingAside, Top, Others
  <2>6. IsVault(fs'.olds, Others(stamp), fs'.olds[stamp].db, fs'.wal, fs'.side, owned)
    <3>1. IsVault(fs.olds, Stamps, fs.db, fs.wal, fs.side, owned)
      BY <2>1, <2>3 DEF MovingAside, Quiet, Settled
    <3>2. Others(stamp) \in SUBSET Stamps /\ \A s \in Others(stamp) : fs'.olds[s] = fs.olds[s]
      BY <1>0, <2>1, <2>2, AsideFields DEF Others
    <3>3. IsVault(fs'.olds, Others(stamp), fs.db, fs.wal, fs.side, owned) BY <3>1, <3>2, FewerCopies
    <3> QED BY <1>0, <2>1, <2>2, <3>3, AsideFields
  <2>7. MovingAside'
    BY <1>0, <2>1, <2>2, <2>3, <2>5, <2>6, AsideFields, ProperFiles DEF MovingAside, Quiet
  <2> QED BY <1>1, <2>1, <2>4, <2>7 DEF Shape, Place
<1>3. CASE InstallAsideWal
  <2>1. fs' = AsideWal(fs) /\ pc = "aside.wal" /\ pc' = "aside.side" /\ stamp' = stamp /\ new' = new /\ owned' = owned
    BY <1>3 DEF InstallAsideWal, Change, Goto, Kept, ghosts
  <2>2. stamp \in Stamps BY <1>1, <2>1 DEF AsideSteps
  <2>3. MovingAside BY <2>1, PlaceIs
  <2>6. IsVault(fs'.olds, Others(stamp), fs'.olds[stamp].db, fs'.olds[stamp].wal, fs'.side, owned)
    <3>1. IsVault(fs.olds, Others(stamp), fs.olds[stamp].db, fs.wal, fs.side, owned)
      BY <2>1, <2>3 DEF MovingAside
    <3>3. IsVault(fs'.olds, Others(stamp), fs.olds[stamp].db, fs.wal, fs.side, owned)
      BY <1>0, <2>1, <2>2, <3>1, AsideFields, FewerCopies
    <3> QED BY <1>0, <2>1, <2>2, <3>3, AsideFields
  <2>4. Files'
    BY <1>0, <2>1, <2>2, <2>6, AsideFields, ProperFiles DEF Files, Others, OwnWal, IsVault
  <2>5. Top(fs', stamp)
    BY <1>0, <2>1, <2>2, <2>3, AsideFields, StampsAreNat DEF MovingAside, Top, Others
  <2>7. MovingAside'
    BY <1>0, <2>1, <2>2, <2>3, <2>5, <2>6, AsideFields, ProperFiles DEF MovingAside
  <2> QED BY <1>1, <2>1, <2>4, <2>7 DEF Shape, Place
<1>4. CASE InstallAsideSide
  <2>1. fs' = AsideSide(fs) /\ pc = "aside.side" /\ pc' = "aside.sync" /\ stamp' = stamp /\ new' = new /\ owned' = owned
    BY <1>4 DEF InstallAsideSide, Change, Goto, Kept, ghosts
  <2>2. stamp \in Stamps BY <1>1, <2>1 DEF AsideSteps
  <2>3. MovingAside BY <2>1, PlaceIs
  <2>4. Files' BY <1>0, <2>1, <2>2, AsideFields, ProperFiles DEF Files, Others, OwnWal
  <2>5. Top(fs', stamp)
    BY <1>0, <2>1, <2>2, <2>3, AsideFields, StampsAreNat DEF MovingAside, Top, Others
  <2>6. IsVault(fs'.olds, Others(stamp), fs'.olds[stamp].db, fs'.olds[stamp].wal, fs'.olds[stamp].side, owned)
    <3>1. IsVault(fs.olds, Others(stamp), fs.olds[stamp].db, fs.olds[stamp].wal, fs.side, owned)
      BY <2>1, <2>3 DEF MovingAside
    <3>3. IsVault(fs'.olds, Others(stamp), fs.olds[stamp].db, fs.olds[stamp].wal, fs.side, owned)
      BY <1>0, <2>1, <2>2, <3>1, AsideFields, FewerCopies
    <3> QED BY <1>0, <2>1, <2>2, <3>3, AsideFields
  <2>7. Aside(fs', stamp, owned)
    BY <1>0, <2>1, <2>2, <2>3, <2>5, <2>6, AsideFields DEF MovingAside, Aside
  <2>8. Installing'
    BY <1>0, <2>1, <2>2, <2>3, <2>7, AsideFields DEF MovingAside, Installing
  <2> QED BY <1>1, <2>1, <2>4, <2>8 DEF Shape, Place
<1>5. ASSUME pc \in {"aside.sync", "install.flush", "install.db", "install.side"} PROVE Installing
  BY <1>5, PlaceIs DEF QuietAt, TidySteps, ResetSteps, CreateSteps
<1>6. CASE InstallAsideSync
  <2>1. fs' = fs /\ pc = "aside.sync" /\ pc' = "install.flush" /\ stamp' = stamp /\ new' = new /\ owned' = owned
    BY <1>6 DEF InstallAsideSync, fsync_dir, Goto, Kept, ghosts
  <2>2. Installing' BY <1>5, <2>1 DEF Installing
  <2> QED BY <1>0, <1>1, <2>1, <2>2 DEF Shape, Place, Files
<1>7. CASE InstallFlush
  <2>1. fs' = fs /\ pc = "install.flush" /\ pc' = "install.db" /\ stamp' = stamp /\ new' = new /\ owned' = owned
        /\ flushed' = TRUE
    BY <1>7 DEF InstallFlush, NoDisk, disk, Kept, ghosts
  <2>2. Installing' BY <1>5, <2>1 DEF Installing
  <2> QED BY <1>0, <1>1, <2>1, <2>2 DEF Shape, Place, Files
<1>8. CASE InstallDb
  <2>1. fs' = PutDb(fs) /\ pc = "install.db" /\ pc' = "install.side" /\ stamp' = stamp /\ new' = new /\ owned' = owned
        /\ flushed' = flushed
    BY <1>8 DEF InstallDb, Goto, Kept, ghosts
  <2>2. fs'.db = NewDb(new.key, new.rows) /\ fs'.wal = fs.wal /\ fs'.side = fs.side /\ fs'.olds = fs.olds
    BY <1>0, <2>1 DEF PutDb, Directory
  <2>3. Aside(fs', stamp, owned) BY <1>5, <2>1, <2>2 DEF Installing, Aside, Top
  <2>4. Installing' BY <1>5, <2>1, <2>2, <2>3 DEF Installing
  <2>5. Files' BY <1>0, <2>2, ProperFiles DEF Files
  <2> QED BY <1>1, <2>1, <2>4, <2>5 DEF Shape, Place
<1>9. CASE InstallSide
  <2>1. fs' = PutSide(fs) /\ pc = "install.side" /\ pc' = "install.sync" /\ new' = new /\ owned' = new
        /\ flushed' = flushed
    BY <1>9 DEF InstallSide, Change, Goto
  <2>2. fs'.db = fs.db /\ fs'.wal = fs.wal /\ fs'.side = new.key /\ fs'.olds = fs.olds
    BY <1>0, <2>1 DEF PutSide, Directory
  <2>3. fs.db = NewDb(new.key, new.rows) /\ fs.wal = NoDb /\ new.key # NoKey /\ flushed
    BY <1>5, <2>1 DEF Installing, Aside
  <2>4. Holds(fs'.db, fs'.wal, fs'.side, new)
    BY <2>2, <2>3, ProperFiles DEF Holds, Opens, NewDb, RowsOf
  <2>5. Quiet(fs', new) BY <2>2, <2>3, <2>4, ProperFiles DEF Quiet, Settled, IsVault
  <2>6. new # NoVault BY <2>3 DEF NoVault
  <2>7. Restored' BY <2>1, <2>3, <2>5, <2>6 DEF Restored
  <2>8. Files' BY <1>0, <2>2 DEF Files
  <2> QED BY <1>1, <2>1, <2>7, <2>8 DEF Shape, Place
<1>10. CASE InstallSync
  <2>1. fs' = fs /\ pc = "install.sync" /\ pc' = "tidy.dir" /\ owned' = owned
    BY <1>10 DEF InstallSync, Goto, Kept, ghosts
  <2>2. Restored BY <2>1, PlaceIs
  <2>3. Entered' BY <2>1, <2>2 DEF Entered, Restored, TidySteps
  <2> QED BY <1>0, <1>1, <2>1, <2>3 DEF Shape, Place, Files
<1> QED BY <1>2, <1>3, <1>4, <1>6, <1>7, <1>8, <1>9, <1>10 DEF Install

(* Directory e is d with some files of the copies under these stamps gone.   *)
Thinned(d, e, sets) ==
    /\ e.db = d.db /\ e.wal = d.wal /\ e.side = d.side
    /\ \A s \in Stamps \ sets : e.olds[s] = d.olds[s]
    /\ \A s \in Stamps : /\ e.olds[s].db \in {d.olds[s].db, NoDb}
                         /\ e.olds[s].wal \in {d.olds[s].wal, NoDb}
                         /\ e.olds[s].side \in {d.olds[s].side, NoKey}

(* Unlinking a file of a copy thins the copies.                              *)
LEMMA DropThins ==
    ASSUME NEW d \in Directory, NEW sets \in SUBSET Stamps, NEW s \in sets, NEW f \in DOMAIN NoSet
    PROVE  Thinned(d, [d EXCEPT !.olds[s][f] = NoSet[f]], sets)
<1>1. f \in {"db", "wal", "side"} BY DEF NoSet
<1>2. d.olds[s] \in OldSet /\ s \in Stamps BY DEF Directory
<1>3. [d EXCEPT !.olds[s][f] = NoSet[f]].olds[s] = [d.olds[s] EXCEPT ![f] = NoSet[f]]
  BY <1>2 DEF Directory
<1>4. PICK o : o = [d.olds[s] EXCEPT ![f] = NoSet[f]] OBVIOUS
<1>5. o.db \in {d.olds[s].db, NoDb} /\ o.wal \in {d.olds[s].wal, NoDb} /\ o.side \in {d.olds[s].side, NoKey}
  <2>1. CASE f = "db" BY <1>2, <1>4, <2>1 DEF OldSet, NoSet
  <2>2. CASE f = "wal" BY <1>2, <1>4, <2>2 DEF OldSet, NoSet
  <2>3. CASE f = "side" BY <1>2, <1>4, <2>3 DEF OldSet, NoSet
  <2> QED BY <1>1, <2>1, <2>2, <2>3
<1>6. \A t \in Stamps \ {s} : [d EXCEPT !.olds[s][f] = NoSet[f]].olds[t] = d.olds[t]
  BY DEF Directory
<1>7. LET e == [d EXCEPT !.olds[s][f] = NoSet[f]] IN e.db = d.db /\ e.wal = d.wal /\ e.side = d.side
  BY DEF Directory
<1> QED BY <1>2, <1>3, <1>4, <1>5, <1>6, <1>7 DEF Thinned

(* So does a pruning that an OSError cut short.                              *)
LEMMA PrunedThins ==
    ASSUME NEW d \in Directory, NEW s, NEW f
    PROVE  Thinned(d, PrunedBut(d, s, f), Superseded(fs))
<1> DEFINE e == PrunedBut(d, s, f)
<1>1. e.db = d.db /\ e.wal = d.wal /\ e.side = d.side BY DEF PrunedBut, Directory
<1>2. ASSUME NEW t \in Stamps
      PROVE  e.olds[t] = IF t \notin Superseded(fs) THEN d.olds[t]
               ELSE [g \in DOMAIN NoSet |-> IF t = s /\ g = f THEN d.olds[t][g] ELSE NoSet[g]]
  BY DEF PrunedBut, Directory
<1>3. ASSUME NEW t \in Stamps
      PROVE  /\ e.olds[t].db \in {d.olds[t].db, NoDb} /\ e.olds[t].wal \in {d.olds[t].wal, NoDb}
             /\ e.olds[t].side \in {d.olds[t].side, NoKey}
  <2>1. CASE t \notin Superseded(fs) BY <1>2, <2>1
  <2>2. CASE t \in Superseded(fs)
    <3>1. e.olds[t] = [g \in DOMAIN NoSet |-> IF t = s /\ g = f THEN d.olds[t][g] ELSE NoSet[g]]
      BY <1>2, <2>2
    <3>2. DOMAIN NoSet = {"db", "wal", "side"} BY DEF NoSet
    <3> HIDE DEF e
    <3>3. e.olds[t]["db"] \in {d.olds[t]["db"], NoSet["db"]} /\ e.olds[t]["wal"] \in {d.olds[t]["wal"], NoSet["wal"]}
          /\ e.olds[t]["side"] \in {d.olds[t]["side"], NoSet["side"]}
      BY <3>1, <3>2
    <3> QED BY <3>3 DEF NoSet
  <2> QED BY <2>1, <2>2
<1>4. \A t \in Stamps \ Superseded(fs) : e.olds[t] = d.olds[t] BY <1>2
<1> HIDE DEF e
<1>5. Thinned(d, e, Superseded(fs)) BY <1>1, <1>3, <1>4 DEF Thinned
<1> QED BY <1>5 DEF e

(* Fewer copies leave the vault where it was.                                *)
LEMMA ThinnedKeeps ==
    ASSUME NEW sets, Thinned(fs, fs', sets)
    PROVE  /\ Files => Files'
           /\ \A v : Settled(fs, v) => Settled(fs', v)
           /\ \A v : Quiet(fs, v) => Quiet(fs', v)
<1>1. Files => Files' BY ProperFiles DEF Thinned, Files, OwnWal
<1>2. ASSUME NEW v, Settled(fs, v) PROVE Settled(fs', v)
  <2>1. IsVault(fs.olds, Stamps, fs.db, fs.wal, fs.side, v) BY <1>2 DEF Settled
  <2>2. \A s \in Stamps : /\ Exists(fs'.olds[s].db) => Exists(fs.olds[s].db)
                          /\ fs.olds[s].side = NoKey => fs'.olds[s].side = NoKey
    BY ProperFiles DEF Thinned
  <2>3. IsVault(fs'.olds, Stamps, fs.db, fs.wal, fs.side, v) BY <2>1, <2>2, FewerCopies
  <2> QED BY <2>3 DEF Settled, Thinned
<1> QED BY <1>1, <1>2 DEF Quiet, Thinned

(* A step that unlinks one file thins the copies.                            *)
LEMMA DropOneThins ==
    ASSUME TypeOK, NEW sets \in SUBSET Stamps, DropFileOf(sets)
    PROVE  Thinned(fs, fs', sets)
<1>1. PICK s \in sets, f \in DOMAIN NoSet :
         LET Op(d) == [d EXCEPT !.olds[s][f] = NoSet[f]] IN Change(Op)
  BY DEF DropFileOf
<1>2. fs' = [fs EXCEPT !.olds[s][f] = NoSet[f]] BY <1>1 DEF Change
<1> QED BY <1>2, DropThins DEF TypeOK

(* So does one that changes none, trivially.                                 *)
LEMMA SameVault ==
    ASSUME fs'.db = fs.db, fs'.wal = fs.wal, fs'.side = fs.side, fs'.olds = fs.olds
    PROVE  Thinned(fs, fs', {})
BY DEF Thinned

(* The operations on directories and artefacts touch no vault.               *)
LEMMA DirFields ==
    ASSUME NEW d \in Directory
    PROVE  /\ MakeAssembly(d).db = d.db /\ MakeAssembly(d).wal = d.wal /\ MakeAssembly(d).side = d.side
           /\ MakeAssembly(d).olds = d.olds
           /\ DropAssembly(d).db = d.db /\ DropAssembly(d).wal = d.wal /\ DropAssembly(d).side = d.side
           /\ DropAssembly(d).olds = d.olds
           /\ DropDirs(d).db = d.db /\ DropDirs(d).wal = d.wal /\ DropDirs(d).side = d.side
           /\ DropDirs(d).olds = d.olds
           /\ DropArtefacts(d).db = d.db /\ DropArtefacts(d).wal = d.wal /\ DropArtefacts(d).side = d.side
           /\ DropArtefacts(d).olds = d.olds
BY DEF MakeAssembly, DropAssembly, DropDirs, DropArtefacts, Directory

(* A restore starts under a stamp newer than every copy, when the clock was  *)
(* not set back.                                                             *)
LEMMA AssembleShape ==
    ASSUME TInv, Shape, Named, NEW backup \in SUBSET Rows, Assemble(backup), Undisturbed
    PROVE  Shape'
<1>0. TypeOK /\ Files /\ fs \in Directory /\ told = "nothing" BY DEF TInv, TypeOK, Shape, Assemble
<1>1. fs' = MakeAssembly(fs) /\ pc = "dialog" /\ UNCHANGED <<owned, told>> /\ new'.key = Dek(draws)
  BY DEF Assemble, Change, ghosts
<1>2. Thinned(fs, fs', {}) /\ fs'.olds = fs.olds BY <1>0, <1>1, DirFields, SameVault
<1>3. new'.key # NoKey BY <1>0, <1>1, KeyTypes DEF TypeOK
<1>4. Quiet(fs, owned)
  BY <1>1, PlaceIs DEF QuietAt, TidySteps, ResetSteps, CreateSteps
<1>5. Files' /\ Quiet(fs', owned) BY <1>0, <1>2, <1>4, ThinnedKeeps
<1>6. CASE AnyLive(fs)
  <2>1. stamp' \in FreshStamps(fs) /\ pc' = "aside.db"
        /\ (IF InOrder(fs, stamp') THEN UNCHANGED spent ELSE Mishap("setbacks"))
    BY <1>6 DEF Assemble
  <2>2. InOrder(fs, stamp')
    <3> SUFFICES ASSUME ~InOrder(fs, stamp') PROVE FALSE OBVIOUS
    <3>1. spent' = [spent EXCEPT !["setbacks"] = spent["setbacks"] + 1] BY <2>1 DEF Mishap
    <3>2. spent \in Counts BY <1>0 DEF TypeOK, Counts
    <3>3. spent'.setbacks = spent.setbacks + 1 /\ spent.setbacks \in Nat
      BY <3>1, <3>2, InstallBounds DEF Counts
    <3> QED BY <3>3 DEF Undisturbed
  <2>3. stamp' \in Stamps /\ fs.olds[stamp'] = NoSet BY <2>1 DEF FreshStamps
  <2>4. Top(fs', stamp')
    BY <1>2, <2>2, <2>3, StampsAreNat DEF Top, InOrder, old_copy_sets
  <2>5. MovingAside' BY <1>1, <1>2, <1>3, <1>5, <2>1, <2>3, <2>4, ProperFiles DEF MovingAside
  <2> QED BY <1>0, <1>1, <1>5, <2>1, <2>5 DEF Shape, Place
<1>7. CASE ~AnyLive(fs)
  <2>1. stamp' = 0 /\ pc' = "install.flush" BY <1>7 DEF Assemble
  <2>2. fs.db = NoDb /\ fs.wal = NoDb /\ fs.side = NoKey BY <1>0, <1>7, ProperFiles DEF AnyLive, Files
  <2>3. owned = NoVault BY <1>4, <2>2 DEF Quiet, Settled, IsVault, Holds, Named
  <2>4. Aside(fs', 0, owned)
    BY <1>2, <1>5, <2>2, <2>3 DEF Aside, Quiet, Settled, Thinned
  <2>5. Installing' BY <1>1, <1>2, <1>3, <2>1, <2>2, <2>4 DEF Installing, Thinned
  <2> QED BY <1>0, <1>1, <1>5, <2>1, <2>5 DEF Shape, Place
<1> QED BY <1>6, <1>7

(* The tidying leaves the vault live.                                        *)
LEMMA TidyShape ==
    ASSUME TInv, Shape, Named, TidyDir \/ PruneOne \/ PruneDone \/ TidyArtefacts
    PROVE  Shape'
<1>0. TypeOK /\ Files /\ fs \in Directory /\ told = "nothing" /\ pc \in TidySteps
  BY DEF TInv, TypeOK, Shape, TidyDir, PruneOne, PruneDone, TidyArtefacts, TidySteps
<1>1. Quiet(fs, owned) /\ owned # NoVault
  BY <1>0, PlaceIs DEF QuietAt, TidySteps, ResetSteps, CreateSteps
<1>2. Thinned(fs, fs', {}) \/ Thinned(fs, fs', Superseded(fs))
  <2>1. CASE TidyDir BY <1>0, <2>1, DirFields, SameVault DEF TidyDir, Change
  <2>2. CASE PruneOne BY <1>0, <2>2, SupersededAreStamps, DropOneThins DEF PruneOne
  <2>3. CASE PruneDone BY <2>3, SameVault DEF PruneDone, NoDisk, disk
  <2>4. CASE TidyArtefacts BY <1>0, <2>4, DirFields, SameVault DEF TidyArtefacts, Change
  <2> QED BY <2>1, <2>2, <2>3, <2>4
<1>3. Files' /\ Quiet(fs', owned) BY <1>0, <1>1, <1>2, ThinnedKeeps
<1>4. owned' = owned /\ told' = told /\ pc' \in TidySteps \cup {"session", "unlock"}
  BY DEF TidyDir, PruneOne, PruneDone, TidyArtefacts, Goto, Kept, ghosts, EnterRestored, TidySteps
<1>5. (Entered \/ Calm)' BY <1>1, <1>3, <1>4 DEF Entered, Calm
<1> QED BY <1>0, <1>3, <1>4, <1>5 DEF Shape, Place

(* Every step of a restore keeps the vault in its place.                     *)
LEMMA RestoreShape == ASSUME TInv, Shape, Named, Restore, Undisturbed PROVE Shape'
<1>1. CASE OpenRestore
  <2>1. fs' = fs /\ pc \in {"unlock", "firstrun"} /\ pc' = "dialog" /\ UNCHANGED <<owned, told>>
    BY <1>1 DEF OpenRestore, Goto, NoDisk, disk, Kept, ghosts
  <2>2. Quiet(fs, owned) BY <2>1, PlaceIs DEF QuietAt
  <2>3. Calm' BY <2>1, <2>2 DEF Calm
  <2> QED BY <2>1, <2>3 DEF Shape, Place, Files
<1>2. CASE CancelRestore
  <2>1. fs' = fs /\ pc = "dialog" /\ Route(fs) /\ UNCHANGED owned
    BY <1>2 DEF CancelRestore, NoDisk, disk, Kept, ghosts
  <2>2. Quiet(fs, owned) BY <2>1, PlaceIs DEF QuietAt
  <2> QED BY <2>1, <2>2, RouteRests DEF Quiet, Shape
<1> QED BY <1>1, <1>2, AssembleShape, InstallShape, TidyShape DEF Restore

(* What a start-over removes, file by file.                                  *)
LEMMA DropFields ==
    ASSUME NEW d \in Directory
    PROVE  /\ DropWal(d).db = d.db /\ DropWal(d).wal = NoDb /\ DropWal(d).side = d.side /\ DropWal(d).olds = d.olds
           /\ DropDb(d).db = NoDb /\ DropDb(d).wal = d.wal /\ DropDb(d).side = d.side /\ DropDb(d).olds = d.olds
           /\ DropSide(d).db = d.db /\ DropSide(d).wal = d.wal /\ DropSide(d).side = NoKey
           /\ DropSide(d).olds = d.olds
BY DEF DropWal, DropDb, DropSide, Directory

(* A start-over removes the WAL and every copy before the database, so that  *)
(* no launch takes what is left for a vault.                                 *)
LEMMA ResetShape == ASSUME TInv, Erased, Shape, Named, Reset PROVE Shape'
<1>0. TypeOK /\ Files /\ fs \in Directory /\ told = "nothing"
  BY DEF TInv, TypeOK, Shape, Reset, StartOver, ResetDirs, ResetArtefacts, ResetOlds, ResetWal, ResetDb, ResetSide
<1>1. CASE StartOver
  <2>1. fs' = fs /\ pc = "unlock" /\ pc' = "reset.dirs" /\ owned' = NoVault /\ told' = told
    BY <1>1 DEF StartOver, Goto, NoDisk, disk
  <2>2. Quiet(fs, owned) BY <2>1, PlaceIs DEF QuietAt
  <2>3. Quiet(fs, NoVault) BY <2>2 DEF Quiet, Settled, IsVault
  <2>4. Resetting' BY <2>1, <2>3 DEF Resetting, ResetSteps
  <2> QED BY <1>0, <2>1, <2>4 DEF Shape, Place, Files
<1>2. ASSUME pc \in ResetSteps PROVE Resetting
  BY <1>2, PlaceIs DEF QuietAt, TidySteps, ResetSteps, CreateSteps
<1>3. ASSUME pc \in ResetSteps, pc' \in ResetSteps, UNCHANGED <<owned, told>>, NEW sets, Thinned(fs, fs', sets)
      PROVE  Shape'
  <2>1. Files' /\ Quiet(fs', owned) BY <1>0, <1>2, <1>3, ThinnedKeeps DEF Resetting
  <2>2. Resetting' BY <1>2, <1>3, <2>1 DEF Resetting
  <2> QED BY <1>0, <1>3, <2>1, <2>2 DEF Shape, Place
<1>4. CASE ResetDirs \/ ResetArtefacts
  <2>1. Thinned(fs, fs', {}) BY <1>0, <1>4, DirFields, SameVault DEF ResetDirs, ResetArtefacts, Change
  <2> QED BY <1>3, <1>4, <2>1 DEF ResetDirs, ResetArtefacts, Goto, Kept, ghosts, ResetSteps
<1>5. CASE ResetOlds
  <2>1. pc \in ResetSteps /\ pc' \in ResetSteps /\ UNCHANGED <<owned, told>>
    BY <1>5 DEF ResetOlds, Goto, Kept, ghosts, ResetSteps
  <2>2. CASE old_copy_sets(fs) = {}
    <3>1. fs' = fs BY <1>5, <2>2 DEF ResetOlds, NoDisk, disk
    <3>2. Thinned(fs, fs', {}) BY <3>1, SameVault
    <3> QED BY <1>3, <2>1, <3>2
  <2>3. CASE old_copy_sets(fs) # {}
    <3>1. DropFileOf(old_copy_sets(fs)) BY <1>5, <2>3 DEF ResetOlds
    <3>2. Thinned(fs, fs', old_copy_sets(fs)) BY <1>0, <3>1, SupersededAreStamps, DropOneThins
    <3> QED BY <1>3, <2>1, <3>2
  <2> QED BY <2>2, <2>3
<1>6. CASE ResetWal
  <2>1. fs' = DropWal(fs) /\ pc = "reset.wal" /\ pc' = "reset.db" /\ UNCHANGED <<owned, told>>
    BY <1>6 DEF ResetWal, Change, Goto, Kept, ghosts
  <2>2. fs'.db = fs.db /\ fs'.wal = NoDb /\ fs'.side = fs.side /\ fs'.olds = fs.olds
    BY <1>0, <2>1, DropFields
  <2>3. Resetting BY <1>2, <2>1 DEF ResetSteps
  <2>4. Quiet(fs', owned) BY <2>2, <2>3, ProperFiles DEF Resetting, Quiet, Settled, IsVault
  <2>5. Resetting' BY <2>1, <2>3, <2>4 DEF Resetting, ResetSteps
  <2>6. Files' BY <1>0, <2>2, ProperFiles DEF Files
  <2> QED BY <1>0, <2>1, <2>5, <2>6 DEF Shape, Place
<1>7. CASE ResetDb
  <2>1. fs' = DropDb(fs) /\ pc = "reset.db" /\ pc' = "reset.side" /\ UNCHANGED <<owned, told>>
    BY <1>7 DEF ResetDb, Change, Goto, Kept, ghosts
  <2>2. fs'.db = NoDb /\ fs'.wal = fs.wal /\ fs'.side = fs.side /\ fs'.olds = fs.olds
    BY <1>0, <2>1, DropFields
  <2>3. Resetting BY <1>2, <2>1 DEF ResetSteps
  <2>4. fs.wal = NoDb /\ \A s \in Stamps : fs.olds[s] = NoSet BY <2>1 DEF Erased
  <2>5. Quiet(fs', owned) BY <2>2, <2>3, <2>4, ProperFiles DEF Resetting, Quiet, Settled, IsVault
  <2>6. Resetting' BY <2>1, <2>3, <2>5 DEF Resetting, ResetSteps
  <2>7. Files' BY <1>0, <2>2, ProperFiles DEF Files
  <2> QED BY <1>0, <2>1, <2>6, <2>7 DEF Shape, Place
<1>8. CASE ResetSide
  <2>1. fs' = DropSide(fs) /\ pc = "reset.side" /\ Route(fs') /\ UNCHANGED owned
    BY <1>8 DEF ResetSide, Change, Kept, ghosts
  <2>2. fs'.db = fs.db /\ fs'.wal = fs.wal /\ fs'.side = NoKey /\ fs'.olds = fs.olds
    BY <1>0, <2>1, DropFields
  <2>3. Resetting BY <1>2, <2>1 DEF ResetSteps
  <2>4. fs.db = NoDb /\ fs.wal = NoDb /\ \A s \in Stamps : fs.olds[s] = NoSet BY <2>1 DEF Erased
  <2>5. Quiet(fs', owned) BY <2>2, <2>3, <2>4, ProperFiles DEF Resetting, Quiet, Settled, IsVault
  <2>6. pc' = "firstrun" /\ told' = "nothing"
    BY <2>1, <2>2, <2>4, ProperFiles DEF Route, presence_state
  <2>7. Offering' BY <2>1, <2>3, <2>5, <2>6 DEF Offering, Resetting
  <2>8. Files' BY <1>0, <2>2 DEF Files
  <2> QED BY <2>6, <2>7, <2>8 DEF Shape, Place
<1> QED BY <1>1, <1>4, <1>5, <1>6, <1>7, <1>8 DEF Reset

(* The owner's vault opens with its own sidecar and shows its rows.          *)
LEMMA HoldsOpens ==
    ASSUME Quiet(fs, owned), owned # NoVault, Named
    PROVE  /\ PairOpens(fs) /\ Opens(fs.db, fs.wal, owned.key) /\ fs.side = owned.key
           /\ fs.db.key = owned.key /\ owned.rows \subseteq RowsOf(fs.db, fs.wal) /\ Exists(fs.db)
BY DEF Quiet, Settled, IsVault, Holds, PairOpens, Opens, Named, Exists

(* A close that opens the WAL folds its rows into the database.              *)
LEMMA FoldFields ==
    ASSUME NEW d \in Directory, NEW k, Opens(d.db, d.wal, k)
    PROVE  /\ FoldLive(d, k).db = [d.db EXCEPT !.rows = RowsOf(d.db, d.wal)]
           /\ FoldLive(d, k).wal = NoDb
           /\ FoldLive(d, k).side = d.side /\ FoldLive(d, k).olds = d.olds
           /\ Checkpointed(d, k).db = [d.db EXCEPT !.rows = RowsOf(d.db, d.wal)]
           /\ Checkpointed(d, k).wal = d.wal
           /\ Checkpointed(d, k).side = d.side /\ Checkpointed(d, k).olds = d.olds
           /\ [d.db EXCEPT !.rows = RowsOf(d.db, d.wal)].key = d.db.key
           /\ [d.db EXCEPT !.rows = RowsOf(d.db, d.wal)].health = d.db.health
           /\ [d.db EXCEPT !.rows = RowsOf(d.db, d.wal)].rows = RowsOf(d.db, d.wal)
BY DEF FoldLive, Checkpointed, Folded, FoldedWal, Directory, DbFile

(* ... and leaves the rest of the vault as it was.                           *)
LEMMA FoldKeeps ==
    ASSUME NEW d \in Directory, NEW k, Opens(d.db, d.wal, k)
    PROVE  LET g == FoldLive(d, k)
           IN /\ g.db.key = d.db.key /\ g.db.health = d.db.health /\ g.db.rows = RowsOf(d.db, d.wal)
              /\ g.wal = NoDb /\ g.side = d.side /\ g.olds = d.olds
<1>1. PICK g : g = FoldLive(d, k) OBVIOUS
<1>2. PICK b : b = [d.db EXCEPT !.rows = RowsOf(d.db, d.wal)] OBVIOUS
<1>3. g.db = b BY <1>1, <1>2, FoldFields
<1>4. b.key = d.db.key /\ b.health = d.db.health /\ b.rows = RowsOf(d.db, d.wal) BY <1>2, FoldFields
<1>5. g.wal = NoDb /\ g.side = d.side /\ g.olds = d.olds BY <1>1, FoldFields
<1> QED BY ONLY <1>1, <1>3, <1>4, <1>5

(* A session changes the vault the owner has, and no other.                  *)
LEMMA SessionShape == ASSUME TInv, Shape, Named, Session PROVE Shape'
<1>0. TypeOK /\ Files /\ fs \in Directory /\ told = "nothing"
  BY DEF TInv, TypeOK, Shape, Session, Unlock, Lock, Quit, Write
<1>1. ASSUME pc \in {"unlock", "session", "dialog", "firstrun"}
      PROVE  Quiet(fs, owned) /\ (pc = "session" => owned # NoVault)
  BY <1>1, PlaceIs DEF QuietAt, TidySteps, ResetSteps, CreateSteps
<1>2. CASE Unlock
  <2>0. pc = "unlock" /\ Quiet(fs, owned) BY <1>1, <1>2 DEF Unlock
  <2>1. CASE PairOpens(fs) /\ NoDisk /\ Goto("session") /\ owned' = Live(fs)
    <3>1. fs' = fs /\ pc' = "session" /\ told' = told BY <2>1 DEF NoDisk, disk, Goto
    <3>2. owned'.key = fs.side /\ owned'.rows = RowsOf(fs.db, fs.wal) /\ fs.side # NoKey
          /\ Opens(fs.db, fs.wal, fs.side)
      BY <2>1 DEF PairOpens, Live, Opens
    <3>3. Holds(fs.db, fs.wal, fs.side, owned') BY <3>2 DEF Holds
    <3>4. Quiet(fs, owned') BY <2>0, <3>3 DEF Quiet, Settled, IsVault
    <3>5. owned' # NoVault BY <3>2 DEF NoVault
    <3>6. Entered' BY <3>1, <3>4, <3>5 DEF Entered
    <3> QED BY <1>0, <3>1, <3>6 DEF Shape, Place, Files
  <2>2. CASE /\ ~PairOpens(fs) /\ ~Exists(fs.db) /\ fs.side # NoKey
             /\ LET Op(d) == [d EXCEPT !.db = TornDb] IN Change(Op)
             /\ Goto("unlock") /\ UNCHANGED ghosts
    <3>1. fs' = [fs EXCEPT !.db = TornDb] /\ pc' = "unlock" /\ told' = told /\ owned' = owned
      BY <2>2 DEF Change, Goto, ghosts
    <3>2. fs'.db = TornDb /\ fs'.wal = fs.wal /\ fs'.side = fs.side /\ fs'.olds = fs.olds
      BY <1>0, <3>1 DEF Directory
    <3>3. owned = NoVault BY <2>0, <2>2, HoldsOpens
    <3>4. Quiet(fs', owned) BY <2>0, <2>2, <3>2, <3>3, ProperFiles DEF Quiet, Settled, IsVault
    <3>5. Calm' BY <3>1, <3>4 DEF Calm
    <3>6. Files' BY <1>0, <3>2, ProperFiles DEF Files
    <3> QED BY <1>0, <3>1, <3>5, <3>6 DEF Shape, Place
  <2> QED BY <1>2, <2>1, <2>2 DEF Unlock
<1>3. CASE Lock
  <2>1. fs' = FoldLive(fs, fs.db.key) /\ pc = "session" /\ pc' = "unlock" /\ UNCHANGED <<owned, told>>
    BY <1>3 DEF Lock, CloseLive, Goto, Kept, ghosts
  <2>2. Quiet(fs, owned) /\ owned # NoVault BY <1>1, <2>1
  <2>3. Opens(fs.db, fs.wal, fs.db.key) /\ Opens(fs.db, fs.wal, owned.key) /\ fs.side = owned.key
        /\ owned.rows \subseteq RowsOf(fs.db, fs.wal) /\ Exists(fs.db)
    BY <2>2, HoldsOpens
  <2>4. /\ fs'.wal = NoDb /\ fs'.side = fs.side /\ fs'.olds = fs.olds
        /\ fs'.db.key = fs.db.key /\ fs'.db.health = fs.db.health /\ fs'.db.rows = RowsOf(fs.db, fs.wal)
    <3>1. PICK g : g = FoldLive(fs, fs.db.key) OBVIOUS
    <3>2. /\ g.db.key = fs.db.key /\ g.db.health = fs.db.health /\ g.db.rows = RowsOf(fs.db, fs.wal)
          /\ g.wal = NoDb /\ g.side = fs.side /\ g.olds = fs.olds
      BY <1>0, <2>3, <3>1, FoldKeeps
    <3> QED BY <2>1, <3>1, <3>2
  <2>5. Holds(fs'.db, fs'.wal, fs'.side, owned)
    BY <2>3, <2>4, ProperFiles DEF Holds, Opens, RowsOf
  <2>6. Quiet(fs', owned)
    BY <2>2, <2>3, <2>4, <2>5, ProperFiles DEF Quiet, Settled, IsVault, Exists
  <2>7. Calm' BY <2>1, <2>6 DEF Calm
  <2>8. Files' BY <1>0, <2>3, <2>4, ProperFiles DEF Files, Proper, Exists
  <2> QED BY <1>0, <2>1, <2>7, <2>8 DEF Shape, Place
<1>4. CASE Quit
  <2>1. fs' = fs /\ pc \in {"unlock", "firstrun", "dialog"} /\ pc' = "down" /\ told' = "nothing" /\ owned' = owned
    BY <1>4 DEF Quit, Surfaces, NoDisk, disk, Kept, ghosts
  <2>2. Down' BY <1>1, <2>1 DEF Down, Quiet, Resting
  <2> QED BY <1>0, <2>1, <2>2 DEF Shape, Place, Files
<1>5. ASSUME NEW r \in Rows, Write(r) PROVE Shape'
  <2>1. fs' = [fs EXCEPT !.wal = NewDb(fs.db.key, fs.wal.rows \cup {r})] /\ pc = "session" /\ pc' = "session"
        /\ told' = told /\ owned' = [owned EXCEPT !.rows = owned.rows \cup {r}]
    BY <1>5 DEF Write, InPlace, ChangeAndSync, proc
  <2>2. fs'.db = fs.db /\ fs'.wal = NewDb(fs.db.key, fs.wal.rows \cup {r}) /\ fs'.side = fs.side
        /\ fs'.olds = fs.olds
    BY <1>0, <2>1 DEF Directory
  <2>3. owned'.key = owned.key /\ owned'.rows = owned.rows \cup {r}
    BY <1>0, <2>1 DEF TypeOK, VaultId
  <2>4. Quiet(fs, owned) /\ owned # NoVault BY <1>1, <2>1
  <2>5. Opens(fs.db, fs.wal, owned.key) /\ fs.side = owned.key /\ fs.db.key = owned.key
        /\ owned.rows \subseteq RowsOf(fs.db, fs.wal) /\ Exists(fs.db) /\ owned.key # NoKey
    BY <2>4, HoldsOpens DEF Named
  <2>6. Holds(fs'.db, fs'.wal, fs'.side, owned')
    BY <2>2, <2>3, <2>5 DEF Holds, Opens, RowsOf, NewDb
  <2>7. Quiet(fs', owned')
    BY <2>2, <2>5, <2>6, ProperFiles DEF Quiet, Settled, IsVault, NewDb
  <2>8. owned' # NoVault BY <2>3, <2>5 DEF NoVault
  <2>9. Entered' BY <2>1, <2>7, <2>8 DEF Entered
  <2>10. Files' BY <1>0, <2>2, ProperFiles DEF Files
  <2> QED BY <1>0, <2>1, <2>9, <2>10 DEF Shape, Place
<1> QED BY <1>2, <1>3, <1>4, <1>5 DEF Session

(* Checking a backup touches no vault.                                       *)
LEMMA VerifyShape == ASSUME TInv, Shape, Verify PROVE Shape'
<1>0. TypeOK /\ Files /\ fs \in Directory /\ told = "nothing"
  BY DEF TInv, TypeOK, Shape, Verify, VerifyBackup
<1>1. PICK left \in BOOLEAN : VerifyBackup(left) BY DEF Verify
<1>2. pc \in {"unlock", "session"} /\ UNCHANGED <<pc, owned, told>>
      /\ fs' = [fs EXCEPT !.dirs = (fs.dirs \ {"verify-staging"}) \cup (IF left THEN {"verify-staging"} ELSE {})]
  BY <1>1 DEF VerifyBackup, Change, proc, ghosts
<1>3. Thinned(fs, fs', {}) BY <1>0, <1>2, SameVault DEF Directory
<1>4. Calm \/ Entered
  BY <1>2, PlaceIs DEF QuietAt, TidySteps, ResetSteps, CreateSteps
<1>5. Files' /\ (Calm \/ Entered)' BY <1>0, <1>2, <1>3, <1>4, ThinnedKeeps DEF Calm, Entered
<1> QED BY <1>0, <1>2, <1>5 DEF Shape, Place

(* A kill during the move-aside leaves what the next launch takes back: the  *)
(* vault live, or aside but for its sidecar.                                 *)
LEMMA MovingRests ==
    ASSUME TypeOK, Files, Named, MovingAside
    PROVE  Resting(fs, owned)
<1>0. stamp \in Stamps /\ fs.olds[stamp].side = NoKey /\ Top(fs, stamp) BY DEF MovingAside, Top
<1>1. CASE Quiet(fs, owned) BY <1>1 DEF Quiet, Resting
<1>2. ASSUME NEW wal, IsVault(fs.olds, Others(stamp), fs.olds[stamp].db, wal, fs.side, owned),
             fs.db = NoDb, fs.side = NoKey => ~Exists(wal),
             \/ wal = fs.wal /\ ~Exists(fs.olds[stamp].wal)
             \/ wal = fs.olds[stamp].wal /\ fs.wal = NoDb
      PROVE  Resting(fs, owned)
  <2>1. CASE fs.side # NoKey /\ Exists(fs.olds[stamp].db)
    <3>1. HalfAside(fs, stamp, owned) BY <1>0, <1>2, <2>1, ProperFiles DEF HalfAside
    <3> QED BY <1>0, <3>1 DEF Resting
  <2>2. CASE fs.side = NoKey \/ ~Exists(fs.olds[stamp].db)
    <3>1. owned = NoVault BY <1>2, <2>2 DEF IsVault, Holds, Opens, Exists, Named
    <3>2. ~Exists(wal) /\ ~Exists(fs.wal) BY <1>2, <2>2, ProperFiles DEF IsVault
    <3>3. Settled(fs, owned)
      BY <1>0, <1>2, <2>2, <3>1, <3>2, ProperFiles DEF Settled, IsVault, Others
    <3> QED BY <3>3 DEF Resting
  <2> QED BY <2>1, <2>2
<1>3. CASE pc = "aside.wal"
  <2>1. /\ IsVault(fs.olds, Others(stamp), fs.olds[stamp].db, fs.wal, fs.side, owned)
        /\ fs.db = NoDb /\ (fs.side = NoKey => ~Exists(fs.wal)) /\ ~Exists(fs.olds[stamp].wal)
    BY <1>3, ProperFiles DEF MovingAside
  <2> QED BY <1>2, <2>1
<1>4. CASE pc = "aside.side"
  <2>1. /\ IsVault(fs.olds, Others(stamp), fs.olds[stamp].db, fs.olds[stamp].wal, fs.side, owned)
        /\ fs.db = NoDb /\ (fs.side = NoKey => ~Exists(fs.olds[stamp].wal)) /\ fs.wal = NoDb
    BY <1>4 DEF MovingAside
  <2> QED BY <1>2, <2>1
<1> QED BY <1>1, <1>3, <1>4 DEF MovingAside

(* A kill during the installation leaves the vault aside whole.              *)
LEMMA InstallingRests ==
    ASSUME TypeOK, Files, Named, Aside(fs, stamp, owned)
    PROVE  Resting(fs, owned)
<1>1. CASE owned = NoVault /\ IsVault(fs.olds, Stamps, NoDb, NoDb, NoKey, owned)
  <2>1. Settled(fs, owned) BY <1>1, ProperFiles DEF Aside, Settled, IsVault
  <2> QED BY <2>1 DEF Resting
<1>2. CASE /\ Top(fs, stamp) /\ (fs.olds[stamp].side = NoKey => ~Exists(fs.olds[stamp].wal))
           /\ IsVault(fs.olds, Others(stamp), fs.olds[stamp].db, fs.olds[stamp].wal, fs.olds[stamp].side, owned)
  <2>0. stamp \in Stamps /\ fs.wal = NoDb /\ fs.side = NoKey BY <1>2 DEF Aside, Top
  <2>1. CASE fs.olds[stamp].side # NoKey /\ Exists(fs.olds[stamp].db)
    <3>1. AllAside(fs, stamp, owned) BY <1>2, <2>0, <2>1 DEF AllAside
    <3> QED BY <2>0, <3>1 DEF Resting
  <2>2. CASE fs.olds[stamp].side = NoKey \/ ~Exists(fs.olds[stamp].db)
    <3>1. owned = NoVault BY <1>2, <2>2 DEF IsVault, Holds, Opens, Exists, Named
    <3>2. Settled(fs, owned) BY <1>2, <2>0, <2>2, <3>1, ProperFiles DEF Settled, IsVault, Others
    <3> QED BY <3>2 DEF Resting
  <2> QED BY <2>1, <2>2
<1> QED BY <1>1, <1>2 DEF Aside

(* So wherever the program is killed, but between two renames of a recovery, *)
(* a launch finds the vault.                                                 *)
LEMMA PlaceRests ==
    ASSUME TInv, Shape, Named, pc \notin Mid
    PROVE  Resting(fs, owned)
<1>0. TypeOK /\ Files BY DEF TInv, Shape
<1>1. CASE Down \/ Calm \/ Entered \/ Resetting \/ Offering \/ Creating \/ Restored
  BY <1>1 DEF Down, Calm, Entered, Resetting, Offering, Creating, Restored, Resting, Quiet
<1>2. CASE MovingAside BY <1>0, <1>2, MovingRests
<1>3. CASE Installing BY <1>0, <1>3, InstallingRests DEF Installing
<1>4. CASE TakingBack
  <2>1. CASE AllAside(fs, stamp, owned) \/ HalfAside(fs, stamp, owned)
    BY <2>1 DEF Resting, AllAside, HalfAside, Top
  <2> QED BY <1>4, <2>1 DEF TakingBack, Mid
<1> QED BY <1>1, <1>2, <1>3, <1>4 DEF Shape, Place

(* A kill keeps the vault findable.                                          *)
LEMMA CrashShape == ASSUME TInv, Shape, Named, Crash, Undisturbed PROVE Shape'
<1>1. pc \notin Mid
  <2> SUFFICES ASSUME pc \in Mid PROVE FALSE OBVIOUS
  <2>1. spent' = [spent EXCEPT !["crashes"] = spent["crashes"] + 1] /\ spent' = spent
    BY DEF Crash, Mishap, Undisturbed
  <2>2. spent \in Counts BY DEF TInv, TypeOK, Counts
  <2>3. spent'.crashes = spent.crashes + 1 /\ spent.crashes \in Nat
    BY <2>1, <2>2, InstallBounds DEF Counts
  <2> QED BY <2>1, <2>3
<1>2. fs' = fs /\ owned' = owned /\ pc' = "down" /\ told' = "nothing" BY DEF Crash, fsync_dir, ghosts
<1>3. Resting(fs, owned) BY <1>1, PlaceRests
<1>4. Down' BY <1>2, <1>3 DEF Down
<1>5. Files' BY <1>2 DEF Shape, Files
<1> QED BY <1>2, <1>4, <1>5 DEF Shape, Place

(* So does an OSError outside a restore's own renames.                       *)
LEMMA FaultShape == ASSUME TInv, Shape, Named, Fault, Undisturbed PROVE Shape'
<1>0. TypeOK /\ Files /\ fs \in Directory /\ owned' = owned /\ pc \in Steps /\ told = "nothing"
  BY DEF TInv, TypeOK, Shape, Fault, ghosts, Steps, CreateSteps, AsideSteps, InstallSteps, TidySteps,
         RecoverSteps, UnpairedSteps, ResetSteps
<1>1. pc \notin Mid \cup AsideSteps \cup InstallSteps
  <2> SUFFICES ASSUME pc \in Mid \cup AsideSteps \cup InstallSteps PROVE FALSE OBVIOUS
  <2>1. spent' = [spent EXCEPT !["faults"] = spent["faults"] + 1] /\ spent'.faults = spent.faults
    BY DEF Fault, Mishap, Undisturbed
  <2>2. spent \in Counts BY DEF TInv, TypeOK, Counts
  <2>3. spent'.faults = spent.faults + 1 /\ spent.faults \in Nat
    BY <2>1, <2>2, InstallBounds DEF Counts
  <2> QED BY <2>1, <2>3
<1>2. ~FailedRestore BY <1>1 DEF FailedRestore
<1>3. CASE FailedTidy
  <2>1. pc \in TidySteps BY <1>3 DEF FailedTidy, Goto, TidySteps
  <2>2. Quiet(fs, owned) /\ owned # NoVault
    BY <2>1, PlaceIs DEF QuietAt, TidySteps, ResetSteps, CreateSteps
  <2>3. Thinned(fs, fs', {}) \/ Thinned(fs, fs', Superseded(fs))
    <3>1. CASE NoDisk BY <3>1, SameVault DEF NoDisk, disk
    <3>2. ASSUME NEW s \in Superseded(fs), NEW f \in DOMAIN NoSet, Change(LAMBDA d : PrunedBut(d, s, f))
          PROVE  Thinned(fs, fs', Superseded(fs))
      BY <1>0, <3>2, PrunedThins DEF Change
    <3> QED BY <1>3, <3>1, <3>2 DEF FailedTidy
  <2>4. Files' /\ Quiet(fs', owned) BY <1>0, <2>2, <2>3, ThinnedKeeps
  <2>5. told' = told /\ pc' \in TidySteps \cup {"session", "unlock"}
    BY <1>3 DEF FailedTidy, Goto, EnterRestored, TidySteps
  <2>6. (Entered \/ Calm)' BY <1>0, <2>2, <2>4, <2>5 DEF Entered, Calm
  <2> QED BY <1>0, <2>4, <2>5, <2>6 DEF Shape, Place
<1>4. CASE FailedRecovery
  <2>1. fs' = fs /\ pc' = "down" /\ told' = "interrupted" BY <1>4 DEF FailedRecovery, NoDisk, disk
  <2>2. Resting(fs, owned) BY <1>1, PlaceRests
  <2>3. Down' BY <1>0, <2>1, <2>2 DEF Down
  <2> QED BY <1>0, <2>1, <2>3 DEF Shape, Place, Files
<1>5. CASE FailedFirstRun
  <2>1. pc \in CreateSteps /\ pc' = "firstrun" /\ told' = told BY <1>5 DEF FailedFirstRun
  <2>2. Creating BY <2>1, PlaceIs
  <2>3. CASE pc # "create.side"
    <3>1. fs' = fs BY <1>5, <2>3 DEF FailedFirstRun, NoDisk, disk
    <3>2. Offering' BY <1>0, <2>1, <2>2, <2>3, <3>1, ProperFiles DEF Offering, Creating, Quiet
    <3> QED BY <1>0, <2>1, <3>1, <3>2 DEF Shape, Place, Files
  <2>4. CASE pc = "create.side"
    <3>1. fs' = FoldLive(fs, new.key) BY <1>5, <2>4 DEF FailedFirstRun, CloseLive
    <3>2. fs.db = NewDb(new.key, {}) /\ fs.wal = fs.db /\ fs.side = NoKey BY <2>2, <2>4 DEF Creating
    <3>3. Opens(fs.db, fs.wal, new.key) BY <3>2 DEF Opens, NewDb
    <3>4. fs'.wal = NoDb /\ fs'.side = fs.side /\ fs'.olds = fs.olds
          /\ fs'.db.key = fs.db.key /\ fs'.db.health = fs.db.health
      BY <1>0, <3>1, <3>3, FoldFields
    <3>5. Quiet(fs', owned) BY <2>2, <3>4, ProperFiles DEF Creating, Quiet, Settled, IsVault
    <3>6. Offering' BY <1>0, <2>1, <2>2, <3>5 DEF Offering, Creating
    <3>7. Files'
      <4>1. Proper(fs'.db) BY <3>2, <3>4 DEF Proper, NewDb
      <4> QED BY <1>0, <3>4, <4>1, ProperFiles DEF Files
    <3> QED BY <1>0, <2>1, <3>6, <3>7 DEF Shape, Place
  <2> QED BY <2>3, <2>4
<1>6. CASE FailedReset
  <2>1. fs' = fs /\ pc \in ResetSteps /\ pc' = "unlock" /\ told' = told
    BY <1>6 DEF FailedReset, Goto, NoDisk, disk
  <2>2. Quiet(fs, owned) BY <2>1, PlaceIs DEF QuietAt
  <2>3. Calm' BY <1>0, <2>1, <2>2 DEF Calm
  <2> QED BY <1>0, <2>1, <2>3 DEF Shape, Place, Files
<1> QED BY <1>2, <1>3, <1>4, <1>5, <1>6 DEF Fault

(* Every undisturbed step keeps the vault in its place.                      *)
LEMMA ShapeStep ==
    ASSUME TInv, Erased, Shape, Named, KeepsWay, [Next]_vars, [Undisturbed]_vars
    PROVE  Shape'
<1>1. CASE UNCHANGED vars
  BY <1>1 DEF vars, Shape, Files, Place, Down, Calm, Entered, Resetting, Offering, Creating, MovingAside,
              Installing, Restored, TakingBack
<1>2. CASE Next /\ Undisturbed
  BY <1>2, LaunchShape, RecoverShape, CreateShape, RestoreShape, ResetShape, SessionShape, VerifyShape,
     FaultShape, CrashShape DEF Next
<1> QED BY <1>1, <1>2

(* Only these five change what the owner believes.                           *)
LEMMA OwnedChanges ==
    ASSUME [Next]_vars, owned' # owned \/ prev' # prev
    PROVE  CreateSide \/ InstallSide \/ StartOver \/ Unlock \/ \E r \in Rows : Write(r)
<1>1. CASE UNCHANGED vars BY <1>1 DEF vars
<1>2. CASE Launch BY <1>2 DEF Launch, Kept, ghosts
<1>3. CASE Recover
  BY <1>3 DEF Recover, RecoverDb, RecoverWal, RecoverSide, RecoverSync, UnpairedDb, UnpairedWal, UnpairedSync,
              Kept, ghosts
<1>4. CASE Create BY <1>4 DEF Create, FirstRun, CreateFile, CreateDb, Kept, ghosts
<1>5. CASE Restore
  <2>1. CASE Install
    BY <2>1 DEF Install, InstallAsideDb, InstallAsideWal, InstallAsideSide, InstallAsideSync, InstallFlush,
                InstallDb, InstallSync, Kept, ghosts
  <2>2. CASE OpenRestore \/ CancelRestore \/ \E backup \in SUBSET Rows : Assemble(backup)
    BY <2>2 DEF OpenRestore, CancelRestore, Assemble, Kept, ghosts
  <2>3. CASE TidyDir \/ PruneOne \/ PruneDone \/ TidyArtefacts
    BY <2>3 DEF TidyDir, PruneOne, PruneDone, TidyArtefacts, Kept, ghosts
  <2> QED BY <1>5, <2>1, <2>2, <2>3 DEF Restore
<1>6. CASE Reset
  BY <1>6 DEF Reset, ResetDirs, ResetArtefacts, ResetOlds, ResetWal, ResetDb, ResetSide, Kept, ghosts
<1>7. CASE Session BY <1>7 DEF Session, Lock, Quit, Kept, ghosts
<1>8. CASE Verify BY <1>8 DEF Verify, VerifyBackup, ghosts
<1>9. CASE Fault BY <1>9 DEF Fault, ghosts
<1>10. CASE Crash BY <1>10 DEF Crash, ghosts
<1> QED BY <1>1, <1>2, <1>3, <1>4, <1>5, <1>6, <1>7, <1>8, <1>9, <1>10 DEF Next

(* What each of the five makes of it.                                        *)
LEMMA OwnedBecomes ==
    ASSUME TInv, Shape, Named, KeepsWay, [Next]_vars
    PROVE  \/ UNCHANGED <<owned, prev>>
           \/ owned' = NoVault /\ prev' = NoVault
           \/ owned' # NoVault /\ owned'.key # NoKey /\ prev' = prev /\ owned = NoVault /\ prev = NoVault
           \/ owned' # NoVault /\ owned'.key # NoKey /\ prev' = prev /\ owned'.key = owned.key
           \/ owned' # NoVault /\ owned'.key # NoKey /\ prev' = owned /\ pc = "install.side"
              /\ InstallSide /\ Aside(fs, stamp, owned)
<1>0. TypeOK BY DEF TInv
<1>1. CASE CreateSide
  <2>1. Creating
    BY <1>1, PlaceIs DEF CreateSide, QuietAt, TidySteps, ResetSteps, CreateSteps
  <2> QED BY <1>1, <2>1 DEF CreateSide, Creating, KeepsWay, NoVault
<1>2. CASE InstallSide
  <2>1. Installing
    BY <1>2, PlaceIs DEF InstallSide, QuietAt, TidySteps, ResetSteps, CreateSteps
  <2> QED BY <1>2, <2>1 DEF InstallSide, Installing, NoVault
<1>3. CASE StartOver BY <1>3 DEF StartOver
<1>4. CASE Unlock
  <2>1. Quiet(fs, owned)
    BY <1>4, PlaceIs DEF Unlock, QuietAt, TidySteps, ResetSteps, CreateSteps
  <2>2. CASE PairOpens(fs) /\ owned' = Live(fs) /\ prev' = prev
    <3>1. owned'.key = fs.db.key /\ fs.db.key = fs.side /\ fs.side # NoKey
      BY <2>2 DEF PairOpens, Live, Opens
    <3>2. owned' # NoVault BY <3>1 DEF NoVault
    <3>3. owned # NoVault => owned.key = fs.side BY <2>1, HoldsOpens
    <3> QED BY <2>2, <3>1, <3>2, <3>3 DEF KeepsWay
  <2>3. CASE UNCHANGED ghosts BY <2>3 DEF ghosts
  <2> QED BY <1>4, <2>2, <2>3 DEF Unlock
<1>5. ASSUME NEW r \in Rows, Write(r)
      PROVE  owned' # NoVault /\ owned'.key # NoKey /\ prev' = prev /\ owned'.key = owned.key
  <2>1. owned # NoVault
    BY <1>5, PlaceIs DEF Write, QuietAt, TidySteps, ResetSteps, CreateSteps
  <2>2. owned'.key = owned.key /\ prev' = prev BY <1>0, <1>5 DEF Write, TypeOK, VaultId
  <2> QED BY <2>1, <2>2 DEF Named, NoVault
<1> QED BY <1>1, <1>2, <1>3, <1>4, <1>5, OwnedChanges

(* The owner's vault and the way back have keys.                             *)
LEMMA NamedStep == ASSUME TInv, Shape, Named, KeepsWay, [Next]_vars PROVE Named'
BY OwnedBecomes DEF Named

(* A copy is changed by a recovery or a move-aside under its stamp, by the   *)
(* tidying if superseded, or by a start-over: by nothing else.               *)
LEMMA CopiesChange ==
    ASSUME TypeOK, [Next]_vars
    PROVE  \/ \A s \in Stamps : fs'.olds[s] = fs.olds[s]
           \/ pc \in {"recover.db", "recover.wal", "recover.side", "unpaired.db", "unpaired.wal",
                      "aside.db", "aside.wal", "aside.side"}
              /\ \A s \in Others(stamp) : fs'.olds[s] = fs.olds[s]
           \/ pc = "tidy.olds" /\ Thinned(fs, fs', Superseded(fs))
           \/ pc \in ResetSteps
<1>0. fs \in Directory BY DEF TypeOK
<1>1. CASE UNCHANGED vars BY <1>1 DEF vars
<1>2. CASE Launch BY <1>2 DEF Launch, NoDisk, disk
<1>3. CASE Recover
  <2>1. \A s \in Others(stamp) : BackDb(fs).olds[s] = fs.olds[s] /\ BackWal(fs).olds[s] = fs.olds[s]
                                 /\ BackSide(fs).olds[s] = fs.olds[s] /\ BackOwnWal(fs).olds[s] = fs.olds[s]
    BY <1>0 DEF BackDb, BackWal, BackSide, BackOwnWal, Directory, Others
  <2> QED BY <1>3, <2>1 DEF Recover, RecoverDb, RecoverWal, RecoverSide, RecoverSync, UnpairedDb, UnpairedWal,
              UnpairedSync, Change, fsync_dir
<1>4. CASE Create
  <2>1. fs' = fs \/ fs' = CreatedFile(fs) \/ fs' = Created(fs) \/ fs' = CreatedSide(fs)
    BY <1>4 DEF Create, FirstRun, CreateFile, CreateDb, CreateSide, Change, ChangeAndSync, NoDisk, disk
  <2> QED BY <1>0, <2>1 DEF CreatedFile, Created, CreatedSide, Directory
<1>5. CASE Restore
  <2>1. CASE InstallAsideDb \/ InstallAsideWal \/ InstallAsideSide
    <3>1. \A s \in Others(stamp) : AsideDb(fs).olds[s] = fs.olds[s] /\ AsideWal(fs).olds[s] = fs.olds[s]
                                 /\ AsideSide(fs).olds[s] = fs.olds[s]
      BY <1>0 DEF AsideDb, AsideWal, AsideSide, Directory, Others
    <3> QED BY <2>1, <3>1 DEF InstallAsideDb, InstallAsideWal, InstallAsideSide, Change
  <2>2. CASE InstallAsideSync \/ InstallFlush \/ InstallDb \/ InstallSide \/ InstallSync
    <3>1. fs' = fs \/ fs' = PutDb(fs) \/ fs' = PutSide(fs)
      BY <2>2 DEF InstallAsideSync, InstallFlush, InstallDb, InstallSide, InstallSync, fsync_dir, NoDisk, disk, Change
    <3> QED BY <1>0, <3>1 DEF PutDb, PutSide, Directory
  <2>3. CASE OpenRestore \/ CancelRestore BY <2>3 DEF OpenRestore, CancelRestore, NoDisk, disk
  <2>4. CASE \E backup \in SUBSET Rows : Assemble(backup)
    BY <1>0, <2>4, DirFields DEF Assemble, Change
  <2>5. CASE TidyDir \/ TidyArtefacts BY <1>0, <2>5, DirFields DEF TidyDir, TidyArtefacts, Change
  <2>6. CASE PruneOne BY <2>6, SupersededAreStamps, DropOneThins DEF PruneOne
  <2>7. CASE PruneDone BY <2>7 DEF PruneDone, NoDisk, disk
  <2> QED BY <1>5, <2>1, <2>2, <2>3, <2>4, <2>5, <2>6, <2>7 DEF Restore, Install
<1>6. CASE Reset
  BY <1>6 DEF Reset, StartOver, NoDisk, disk, ResetDirs, ResetArtefacts, ResetOlds, ResetWal, ResetDb, ResetSide,
              ResetSteps
<1>7. CASE Session
  <2>1. CASE Unlock BY <1>0, <2>1 DEF Unlock, NoDisk, disk, Change, Directory
  <2>2. CASE Lock BY <1>0, <2>2 DEF Lock, CloseLive, FoldLive, Directory
  <2>3. CASE Quit BY <2>3 DEF Quit, NoDisk, disk
  <2>4. ASSUME NEW r \in Rows, Write(r) PROVE \A s \in Stamps : fs'.olds[s] = fs.olds[s]
    BY <1>0, <2>4 DEF Write, InPlace, ChangeAndSync, Directory
  <2> QED BY <1>7, <2>1, <2>2, <2>3, <2>4 DEF Session
<1>8. CASE Verify BY <1>0, <1>8 DEF Verify, VerifyBackup, Change, Directory
<1>9. CASE Fault
  <2>1. CASE FailedRestore BY <1>0, <2>1, DirFields DEF FailedRestore, Change
  <2>2. CASE FailedTidy
    <3>1. CASE NoDisk BY <3>1 DEF NoDisk, disk
    <3>2. ASSUME NEW s \in Superseded(fs), NEW f \in DOMAIN NoSet, Change(LAMBDA d : PrunedBut(d, s, f))
          PROVE  Thinned(fs, fs', Superseded(fs))
      BY <1>0, <3>2, PrunedThins DEF Change
    <3> QED BY <2>2, <3>1, <3>2 DEF FailedTidy
  <2>3. CASE FailedRecovery \/ FailedReset BY <2>3 DEF FailedRecovery, FailedReset, NoDisk, disk
  <2>4. CASE FailedFirstRun
    BY <1>0, <2>4 DEF FailedFirstRun, CloseLive, FoldLive, Directory, NoDisk, disk
  <2> QED BY <1>9, <2>1, <2>2, <2>3, <2>4 DEF Fault
<1>10. CASE Crash BY <1>10 DEF Crash, fsync_dir
<1> QED BY <1>1, <1>2, <1>3, <1>4, <1>5, <1>6, <1>7, <1>8, <1>9, <1>10 DEF Next

(* The tidying follows the installation, under its stamp.                    *)
LEMMA TidyComes ==
    ASSUME [Next]_vars, pc' \in {"install.sync", "tidy.dir", "tidy.olds"}
    PROVE  InstallSide \/ (pc \in {"install.sync", "tidy.dir", "tidy.olds"} /\ stamp' = stamp)
<1>1. CASE UNCHANGED vars BY <1>1 DEF vars
<1>2. CASE Launch BY <1>2 DEF Launch, Route
<1>3. CASE Recover
  BY <1>3 DEF Recover, RecoverDb, RecoverWal, RecoverSide, RecoverSync, UnpairedDb, UnpairedWal, UnpairedSync,
              Goto, Route
<1>4. CASE Create BY <1>4 DEF Create, FirstRun, CreateFile, CreateDb, CreateSide, Goto
<1>5. CASE Restore
  <2>1. CASE Install
    BY <2>1 DEF Install, InstallAsideDb, InstallAsideWal, InstallAsideSide, InstallAsideSync, InstallFlush,
                InstallDb, InstallSync, Goto
  <2>2. CASE OpenRestore \/ CancelRestore \/ \E backup \in SUBSET Rows : Assemble(backup)
    BY <2>2 DEF OpenRestore, CancelRestore, Assemble, Goto, Route
  <2>3. CASE TidyDir \/ PruneOne \/ PruneDone \/ TidyArtefacts
    BY <2>3 DEF TidyDir, PruneOne, PruneDone, TidyArtefacts, Goto, EnterRestored
  <2> QED BY <1>5, <2>1, <2>2, <2>3 DEF Restore
<1>6. CASE Reset
  BY <1>6 DEF Reset, StartOver, ResetDirs, ResetArtefacts, ResetOlds, ResetWal, ResetDb, ResetSide, Goto, Route
<1>7. CASE Session
  BY <1>7 DEF Session, Unlock, Lock, Quit, Write, proc, Goto
<1>8. CASE Verify BY <1>8 DEF Verify, VerifyBackup, proc
<1>9. CASE Fault
  BY <1>9 DEF Fault, FailedRestore, FailedTidy, FailedRecovery, FailedFirstRun, FailedReset, Goto, EnterRestored
<1>10. CASE Crash BY <1>10 DEF Crash
<1> QED BY <1>1, <1>2, <1>3, <1>4, <1>5, <1>6, <1>7, <1>8, <1>9, <1>10 DEF Next

(* The way back from a restore stays whole: the tidying keeps its stamp, a   *)
(* recovery and a later move-aside use another.                              *)
LEMMA KeepsStep ==
    ASSUME TInv, Shape, Named, KeepsWay, [Next]_vars
    PROVE  KeepsWay'
<1>0. TypeOK BY DEF TInv
<1>1. owned' = NoVault => prev' = NoVault BY OwnedBecomes DEF KeepsWay
<1>2. ASSUME InstallSide, Aside(fs, stamp, owned), prev' = owned, prev' # NoVault
      PROVE  stamp' = stamp /\ stamp \in Stamps /\ WholeSet(fs'.olds[stamp], prev')
  <2>1. pc = "install.side" /\ stamp' = stamp BY <1>2 DEF InstallSide, Goto
  <2>2. \A s \in Stamps : fs'.olds[s] = fs.olds[s] BY <1>0, <2>1, CopiesChange DEF ResetSteps
  <2>3. stamp \in Stamps /\ Holds(fs.olds[stamp].db, fs.olds[stamp].wal, fs.olds[stamp].side, owned)
    BY <1>2 DEF Aside, Top, IsVault
  <2> QED BY <1>2, <2>1, <2>2, <2>3 DEF Holds, WholeSet
<1>3. ASSUME prev' # NoVault, owned'.key # prev'.key
      PROVE  \E s \in Stamps : WholeSet(fs'.olds[s], prev')
  <2>1. CASE prev' = owned /\ InstallSide /\ Aside(fs, stamp, owned) BY <1>2, <1>3, <2>1
  <2>2. CASE prev' = prev /\ owned'.key = owned.key
    <3>1. PICK s \in Stamps : WholeSet(fs.olds[s], prev) BY <1>3, <2>2 DEF KeepsWay
    <3>2. owned # NoVault /\ prev # NoVault /\ prev.key # NoKey BY <1>3, <2>2 DEF KeepsWay, Named
    <3>3. CASE \A t \in Stamps : fs'.olds[t] = fs.olds[t] BY <2>2, <3>1, <3>3
    <3>4. CASE /\ pc \in {"recover.db", "recover.wal", "recover.side", "unpaired.db", "unpaired.wal",
                          "aside.db", "aside.wal", "aside.side"}
               /\ \A t \in Others(stamp) : fs'.olds[t] = fs.olds[t]
      <4>1. s # stamp
        <5>1. /\ pc \in {"recover.wal", "recover.side", "unpaired.wal"} => fs.olds[stamp].db = NoDb
              /\ pc \in {"aside.db", "aside.wal", "aside.side", "unpaired.db"} => fs.olds[stamp].side = NoKey
              /\ pc = "recover.db" => fs.olds[stamp].side = owned.key
          BY <3>2, PlaceIs DEF QuietAt, TidySteps, ResetSteps, CreateSteps, HalfAside, AllAside,
              IsVault, Holds, TakingBack, MovingAside
        <5>2. s = stamp => Exists(fs.olds[stamp].db) /\ fs.olds[stamp].side = prev.key
          BY <3>1 DEF WholeSet, Opens, Exists
        <5> QED BY <1>3, <2>2, <3>2, <3>4, <5>1, <5>2, ProperFiles
      <4> QED BY <2>2, <3>1, <3>4, <4>1 DEF Others
    <3>5. CASE pc = "tidy.olds" /\ Thinned(fs, fs', Superseded(fs))
      <4>1. stamp \in Stamps /\ WholeSet(fs.olds[stamp], prev) BY <3>2, <3>5 DEF KeepsWay
      <4>2. stamp \notin Superseded(fs) BY DEF Superseded, keep
      <4>3. fs'.olds[stamp] = fs.olds[stamp] BY <3>5, <4>1, <4>2 DEF Thinned
      <4> QED BY <2>2, <4>1, <4>3
    <3>6. CASE pc \in ResetSteps
      BY <3>2, <3>6, PlaceIs DEF QuietAt, TidySteps, ResetSteps, CreateSteps
    <3> QED BY <1>0, <3>3, <3>4, <3>5, <3>6, CopiesChange
  <2> QED BY <1>3, <2>1, <2>2, OwnedBecomes
<1>4. ASSUME pc' \in {"install.sync", "tidy.dir", "tidy.olds"}, prev' # NoVault
      PROVE  stamp' \in Stamps /\ WholeSet(fs'.olds[stamp'], prev')
  <2>1. CASE InstallSide
    <3>1. prev' = owned /\ pc = "install.side" BY <2>1 DEF InstallSide
    <3>2. Installing
      BY <3>1, PlaceIs DEF QuietAt, TidySteps, ResetSteps, CreateSteps
    <3> QED BY <1>2, <1>4, <2>1, <3>1, <3>2 DEF Installing
  <2>2. CASE pc \in {"install.sync", "tidy.dir", "tidy.olds"} /\ stamp' = stamp
    <3>1. prev' = prev
      <4>1. ~CreateSide /\ ~InstallSide /\ ~StartOver /\ ~Unlock /\ ~\E r \in Rows : Write(r)
        BY <2>2 DEF CreateSide, InstallSide, StartOver, Unlock, Write
      <4> QED BY <4>1, OwnedChanges
    <3>2. stamp \in Stamps /\ WholeSet(fs.olds[stamp], prev) BY <1>4, <2>2, <3>1 DEF KeepsWay
    <3>3. fs'.olds[stamp] = fs.olds[stamp]
      <4>1. CASE \A s \in Stamps : fs'.olds[s] = fs.olds[s] BY <3>2, <4>1
      <4>2. CASE pc = "tidy.olds" /\ Thinned(fs, fs', Superseded(fs))
        <5>1. stamp \notin Superseded(fs) BY DEF Superseded, keep
        <5> QED BY <3>2, <4>2, <5>1 DEF Thinned
      <4> QED BY <1>0, <2>2, <4>1, <4>2, CopiesChange DEF ResetSteps
    <3> QED BY <2>2, <3>1, <3>2, <3>3
  <2> QED BY <1>4, <2>1, <2>2, TidyComes
<1> QED BY <1>1, <1>3, <1>4 DEF KeepsWay

LiveSafe == PairOpens(fs) => \A d \in maybe : Same(d)
AsideSafe == \A d \in maybe : d.olds[stamp] = fs.olds[stamp]

(* Every image is one there was, as far as the live files go.                *)
Mirrors ==
    /\ fs'.db = fs.db /\ fs'.wal = fs.wal /\ fs'.side = fs.side
    /\ \A e \in maybe' : \E d \in maybe : e.db = d.db /\ e.wal = d.wal /\ e.side = d.side

(* Images of the same live files stay images of them.                        *)
LEMMA MirrorsKeep == ASSUME LiveSafe, Mirrors PROVE LiveSafe'
<1> SUFFICES ASSUME PairOpens(fs)', NEW e \in maybe' PROVE Same(e)' BY DEF LiveSafe
<1>1. PairOpens(fs) BY DEF Mirrors, PairOpens
<1>2. PICK d \in maybe : e.db = d.db /\ e.wal = d.wal /\ e.side = d.side BY DEF Mirrors
<1>3. Same(d) BY <1>1 DEF LiveSafe
<1> QED BY <1>2, <1>3 DEF Same, PairOpens, Mirrors

(* After fsync_dir the one image is the directory.                           *)
LEMMA FlushedKeeps == ASSUME maybe' = {fs'} PROVE LiveSafe'
BY DEF LiveSafe, Same, RowsOf

(* What was live when the window that shows it, the tidying or a start-over  *)
(* is reached.                                                               *)
LiveAt == Surfaces \cup TidySteps \cup ResetSteps

(* In these places the live vault is in every image.                         *)
LEMMA LiveAtFrom ==
    ASSUME TInv, Shape, Images, pc \in LiveAt
    PROVE  LiveSafe
BY DEF LiveAt, Images, LiveSafe

(* The operations on directories and artefacts, as thinning.                 *)
LEMMA DirThins ==
    ASSUME NEW d \in Directory
    PROVE  /\ Thinned(d, MakeAssembly(d), {}) /\ Thinned(d, DropAssembly(d), {})
           /\ Thinned(d, DropDirs(d), {}) /\ Thinned(d, DropArtefacts(d), {})
BY DirFields DEF Thinned

(* And as mirroring.                                                         *)
LEMMA DirMirrors ==
    ASSUME TypeOK,
           Change(MakeAssembly) \/ Change(DropAssembly) \/ Change(DropDirs) \/ Change(DropArtefacts)
    PROVE  Mirrors
<1>1. \A d \in Directory : /\ Thinned(d, MakeAssembly(d), {}) /\ Thinned(d, DropAssembly(d), {})
                           /\ Thinned(d, DropDirs(d), {}) /\ Thinned(d, DropArtefacts(d), {})
  BY DirThins
<1>2. fs \in Directory /\ maybe \subseteq Directory /\ fs \in maybe BY DEF TypeOK
<1> QED BY <1>1, <1>2 DEF Change, Mirrors, Thinned

(* Unlinking a file of a copy leaves the live files of every image.          *)
LEMMA DropMirrors == ASSUME TypeOK, NEW sets \in SUBSET Stamps, DropFileOf(sets) PROVE Mirrors
<1>1. PICK s \in sets, f \in DOMAIN NoSet :
         LET Op(d) == [d EXCEPT !.olds[s][f] = NoSet[f]] IN Change(Op)
  BY DEF DropFileOf
<1>2. fs \in Directory /\ maybe \subseteq Directory /\ fs \in maybe BY DEF TypeOK
<1> DEFINE Op(d) == [d EXCEPT !.olds[s][f] = NoSet[f]]
<1>3. \A d \in Directory : Op(d).db = d.db /\ Op(d).wal = d.wal /\ Op(d).side = d.side BY DEF Directory
<1>4. Change(Op) BY <1>1
<1> HIDE DEF Op
<1> QED BY <1>2, <1>3, <1>4 DEF Change, Mirrors

(* So does doing nothing to the disk.                                        *)
LEMMA StillMirrors == ASSUME TypeOK, UNCHANGED disk PROVE Mirrors
BY DEF disk, Mirrors

(* A start-over leaves the vault in every image while it still opens: the    *)
(* WAL it unlinks first may come back, and is its own.                       *)
LEMMA ResetLive ==
    ASSUME TInv, Erased, Shape, Images, Reset
    PROVE  LiveSafe'
<1>0. TypeOK BY DEF TInv
<1>1. pc \in LiveAt BY DEF Reset, StartOver, ResetDirs, ResetArtefacts, ResetOlds, ResetWal, ResetDb, ResetSide,
                           LiveAt, Surfaces, ResetSteps
<1>2. LiveSafe BY <1>1, LiveAtFrom
<1>3. CASE StartOver BY <1>0, <1>2, <1>3, StillMirrors, MirrorsKeep DEF StartOver, NoDisk
<1>4. CASE ResetDirs \/ ResetArtefacts
  BY <1>0, <1>2, <1>4, DirMirrors, MirrorsKeep DEF ResetDirs, ResetArtefacts
<1>5. CASE ResetOlds
  <2>1. NoDisk \/ DropFileOf(old_copy_sets(fs)) BY <1>5 DEF ResetOlds
  <2> QED BY <1>0, <1>2, <2>1, SupersededAreStamps, DropMirrors, StillMirrors, MirrorsKeep DEF NoDisk
<1>6. CASE ResetWal
  <2> SUFFICES ASSUME PairOpens(fs)', NEW e \in maybe' PROVE Same(e)' BY DEF LiveSafe
  <2>0. fs \in Directory /\ maybe \subseteq Directory /\ fs \in maybe BY <1>0 DEF TypeOK
  <2>1. fs' = DropWal(fs) /\ pc = "reset.wal" BY <1>6 DEF ResetWal, Change
  <2>2. fs'.db = fs.db /\ fs'.wal = NoDb /\ fs'.side = fs.side BY <2>0, <2>1, DropFields
  <2>3. OwnWal(fs.db, fs.wal)
    BY <2>1, PlaceIs DEF QuietAt, TidySteps, ResetSteps, CreateSteps, Quiet, Settled, IsVault,
        OwnWal
  <2>4. PairOpens(fs) BY <2>2, <2>3 DEF PairOpens, Opens, OwnWal, Exists
  <2>5. PICK d \in maybe : e = d \/ e = DropWal(d) BY <1>6, <2>0 DEF ResetWal, Change
  <2>6. Same(d) BY <1>2, <2>4 DEF LiveSafe
  <2>7. e.db = d.db /\ e.side = d.side /\ (e.wal = d.wal \/ e.wal = NoDb) BY <2>0, <2>5, DropFields
  <2>8. PairOpens(e) BY <2>6, <2>7, ProperFiles DEF Same, PairOpens, Opens
  <2>9. NoDb.rows = {} BY DEF NoDb
  <2> QED BY <2>2, <2>6, <2>7, <2>8, <2>9 DEF Same, PairOpens
<1>7. CASE ResetDb \/ ResetSide
  <2>0. fs \in Directory BY <1>0 DEF TypeOK
  <2>1. fs' = DropDb(fs) \/ fs' = DropSide(fs) BY <1>7 DEF ResetDb, ResetSide, Change
  <2>2. fs'.db = NoDb \/ fs'.side = NoKey BY <2>0, <2>1, DropFields
  <2> QED BY <2>2 DEF LiveSafe, PairOpens, Opens, NoDb
<1> QED BY <1>3, <1>4, <1>5, <1>6, <1>7 DEF Reset

(* So does a session: SQLite commits durably, and the unlink of a folded WAL *)
(* is harmless if it is lost.                                                *)
LEMMA SessionLive ==
    ASSUME TInv, Shape, Named, Images, Session
    PROVE  LiveSafe'
<1>0. TypeOK /\ fs \in Directory /\ maybe \subseteq Directory /\ fs \in maybe BY DEF TInv, TypeOK
<1>1. pc \in LiveAt BY DEF Session, Unlock, Lock, Quit, Write, LiveAt, Surfaces
<1>2. LiveSafe BY <1>1, LiveAtFrom
<1>3. pc = "session" => PairOpens(fs) /\ fs.db.key = fs.side
  <2>1. pc = "session" => Quiet(fs, owned) /\ owned # NoVault
    BY PlaceIs DEF QuietAt, TidySteps, ResetSteps, CreateSteps
  <2> QED BY <2>1, HoldsOpens
<1>4. CASE Unlock
  <2>1. CASE NoDisk BY <1>0, <1>2, <2>1, StillMirrors, MirrorsKeep DEF NoDisk
  <2>2. CASE LET Op(d) == [d EXCEPT !.db = TornDb] IN Change(Op)
    <3>1. fs'.db = TornDb BY <1>0, <2>2 DEF Change, Directory
    <3> QED BY <3>1 DEF LiveSafe, PairOpens, Opens, TornDb
  <2> QED BY <1>4, <2>1, <2>2 DEF Unlock
<1>5. CASE Lock
  <2> SUFFICES ASSUME NEW e \in maybe' PROVE Same(e)' BY DEF LiveSafe
  <2>1. fs' = FoldLive(fs, fs.db.key) /\ pc = "session" BY <1>5 DEF Lock, CloseLive
  <2>2. PICK d \in maybe : e = Checkpointed(d, fs.db.key) \/ e = FoldLive(d, fs.db.key)
    BY <1>0, <1>5 DEF Lock, CloseLive
  <2>3. Same(d) BY <1>2, <1>3, <2>1 DEF LiveSafe
  <2>4. Opens(d.db, d.wal, fs.db.key) /\ d.side = fs.side /\ d \in Directory
    BY <1>0, <1>3, <2>1, <2>3 DEF Same, PairOpens
  <2>5. Opens(fs.db, fs.wal, fs.db.key) BY <1>3, <2>1 DEF PairOpens
  <2>6. fs'.db.rows = RowsOf(fs.db, fs.wal) /\ fs'.wal = NoDb /\ fs'.side = fs.side
    <3>1. PICK g : g = FoldLive(fs, fs.db.key) OBVIOUS
    <3>2. g.db.rows = RowsOf(fs.db, fs.wal) /\ g.wal = NoDb /\ g.side = fs.side
      BY <1>0, <2>5, <3>1, FoldKeeps
    <3> QED BY <2>1, <3>1, <3>2
  <2>7. e.db.rows = RowsOf(d.db, d.wal) /\ e.db.key = d.db.key /\ e.db.health = d.db.health
        /\ e.side = d.side /\ (e.wal = d.wal \/ e.wal = NoDb)
    <3>1. CASE e = Checkpointed(d, fs.db.key) BY <2>4, <3>1, FoldFields
    <3>2. CASE e = FoldLive(d, fs.db.key) BY <2>4, <3>2, FoldFields
    <3> QED BY <2>2, <3>1, <3>2
  <2>8. PairOpens(e) BY <2>3, <2>7, ProperFiles DEF Same, PairOpens, Opens
  <2>9. NoDb.rows = {} BY DEF NoDb
  <2> QED BY <2>3, <2>6, <2>7, <2>8, <2>9 DEF Same, PairOpens, RowsOf
<1>6. CASE Quit BY <1>0, <1>2, <1>6, StillMirrors, MirrorsKeep DEF Quit, NoDisk
<1>7. ASSUME NEW r \in Rows, Write(r) PROVE LiveSafe'
  <2> DEFINE Op(d) == [d EXCEPT !.wal = NewDb(fs.db.key, d.wal.rows \cup {r})]
  <2>1. fs' = Op(fs) /\ pc = "session" /\ (maybe' = {Op(d) : d \in maybe} \/ maybe' = {fs'})
    BY <1>7 DEF Write, InPlace, ChangeAndSync
  <2>2. \A d \in Directory : Op(d).db = d.db /\ Op(d).side = d.side
                             /\ Op(d).wal = NewDb(fs.db.key, d.wal.rows \cup {r})
    BY DEF Directory
  <2> HIDE DEF Op
  <2>3. CASE maybe' = {fs'} BY <2>3, FlushedKeeps
  <2>4. CASE maybe' = {Op(d) : d \in maybe}
    <3> SUFFICES ASSUME NEW e \in maybe' PROVE Same(e)' BY DEF LiveSafe
    <3>1. PICK d \in maybe : e = Op(d) BY <2>4
    <3>2. Same(d) /\ fs.db.key = fs.side BY <1>2, <1>3, <2>1 DEF LiveSafe
    <3>3. e.db = d.db /\ e.side = d.side /\ e.wal = NewDb(fs.db.key, d.wal.rows \cup {r})
          /\ fs'.db = fs.db /\ fs'.side = fs.side /\ fs'.wal = NewDb(fs.db.key, fs.wal.rows \cup {r})
      BY <1>0, <2>1, <2>2, <3>1
    <3>4. PairOpens(e) BY <3>2, <3>3 DEF Same, PairOpens, Opens, NewDb
    <3> QED BY <3>2, <3>3, <3>4 DEF Same, PairOpens, RowsOf, NewDb
  <2> QED BY <2>1, <2>3, <2>4
<1> QED BY <1>4, <1>5, <1>6, <1>7 DEF Session

(* So does an OSError outside a restore's own renames.                       *)
LEMMA FaultLive ==
    ASSUME TInv, Shape, Images, Fault, Undisturbed
    PROVE  LiveSafe'
<1>0. TypeOK /\ fs \in Directory /\ maybe \subseteq Directory /\ fs \in maybe BY DEF TInv, TypeOK
<1>1. pc \notin Mid \cup AsideSteps \cup InstallSteps
  <2> SUFFICES ASSUME pc \in Mid \cup AsideSteps \cup InstallSteps PROVE FALSE OBVIOUS
  <2>1. spent' = [spent EXCEPT !["faults"] = spent["faults"] + 1] /\ spent'.faults = spent.faults
    BY DEF Fault, Mishap, Undisturbed
  <2>2. spent \in Counts BY <1>0 DEF TypeOK, Counts
  <2>3. spent'.faults = spent.faults + 1 /\ spent.faults \in Nat
    BY <2>1, <2>2, InstallBounds DEF Counts
  <2> QED BY <2>1, <2>3
<1>2. ~FailedRestore BY <1>1 DEF FailedRestore
<1>3. CASE FailedTidy
  <2>1. pc \in LiveAt BY <1>3 DEF FailedTidy, LiveAt, TidySteps
  <2>2. LiveSafe BY <2>1, LiveAtFrom
  <2>3. CASE NoDisk BY <1>0, <2>2, <2>3, StillMirrors, MirrorsKeep DEF NoDisk
  <2>4. ASSUME NEW s \in Superseded(fs), NEW f \in DOMAIN NoSet, Change(LAMBDA d : PrunedBut(d, s, f))
        PROVE  Mirrors
    <3>1. \A d \in Directory : PrunedBut(d, s, f).db = d.db /\ PrunedBut(d, s, f).wal = d.wal
                               /\ PrunedBut(d, s, f).side = d.side
      BY DEF PrunedBut, Directory
    <3> QED BY <1>0, <2>4, <3>1 DEF Change, Mirrors
  <2> QED BY <1>3, <2>2, <2>3, <2>4, MirrorsKeep DEF FailedTidy
<1>4. CASE FailedRecovery
  <2>1. fs' = fs /\ pc \in {"recover.db", "recover.sync", "unpaired.db", "unpaired.sync"}
    BY <1>1, <1>4 DEF FailedRecovery, NoDisk, disk, Mid, RecoverSteps, UnpairedSteps
  <2>2. pc \in {"recover.db", "unpaired.db"} BY <2>1 DEF Fault
  <2>3. fs.side = NoKey \/ fs.db = NoDb
    BY <2>2, PlaceIs DEF QuietAt, TidySteps, ResetSteps, CreateSteps, AllAside, HalfAside,
        TakingBack, MovingAside
  <2> QED BY <2>1, <2>3 DEF LiveSafe, PairOpens, Opens, NoDb
<1>5. CASE FailedFirstRun
  <2>1. pc \in CreateSteps BY <1>5 DEF FailedFirstRun
  <2>2. fs.side = NoKey BY <2>1, PlaceIs DEF Creating
  <2>3. fs'.side = fs.side
    BY <1>0, <1>5 DEF FailedFirstRun, NoDisk, disk, CloseLive, FoldLive, Directory
  <2> QED BY <2>2, <2>3 DEF LiveSafe, PairOpens
<1>6. CASE FailedReset
  <2>1. LiveSafe BY <1>6, LiveAtFrom DEF FailedReset, LiveAt
  <2> QED BY <1>0, <1>6, <2>1, StillMirrors, MirrorsKeep DEF FailedReset, NoDisk
<1> QED BY <1>2, <1>3, <1>4, <1>5, <1>6 DEF Fault

(* A restore shows a vault after fsync_dir only.                             *)
LEMMA RestoreLive ==
    ASSUME TInv, Shape, Images, Restore, pc' \in LiveAt
    PROVE  LiveSafe'
<1>0. TypeOK BY DEF TInv
<1>1. CASE OpenRestore \/ CancelRestore
  <2>1. LiveSafe BY <1>1, LiveAtFrom DEF OpenRestore, CancelRestore, LiveAt, Surfaces
  <2> QED BY <1>0, <1>1, <2>1, StillMirrors, MirrorsKeep DEF OpenRestore, CancelRestore, NoDisk
<1>2. CASE \E backup \in SUBSET Rows : Assemble(backup)
  BY <1>2 DEF Assemble, LiveAt, Surfaces, TidySteps, ResetSteps
<1>3. CASE InstallAsideDb \/ InstallAsideWal \/ InstallAsideSide \/ InstallAsideSync \/ InstallFlush \/ InstallDb
           \/ InstallSide
  BY <1>3 DEF InstallAsideDb, InstallAsideWal, InstallAsideSide, InstallAsideSync, InstallFlush, InstallDb,
              InstallSide, Goto, LiveAt, Surfaces, TidySteps, ResetSteps
<1>4. CASE InstallSync
  <2>1. pc = "install.sync" BY <1>4 DEF InstallSync
  <2>2. flushed
    BY <2>1, PlaceIs DEF QuietAt, TidySteps, ResetSteps, CreateSteps, Restored
  <2>3. maybe' = {fs'} BY <1>4, <2>2 DEF InstallSync
  <2> QED BY <2>3, FlushedKeeps
<1>5. CASE TidyDir \/ PruneOne \/ PruneDone \/ TidyArtefacts
  <2>1. LiveSafe BY <1>5, LiveAtFrom DEF TidyDir, PruneOne, PruneDone, TidyArtefacts, LiveAt, TidySteps
  <2>2. CASE TidyDir \/ TidyArtefacts BY <1>0, <2>1, <2>2, DirMirrors, MirrorsKeep DEF TidyDir, TidyArtefacts
  <2>3. CASE PruneOne BY <1>0, <2>1, <2>3, SupersededAreStamps, DropMirrors, MirrorsKeep DEF PruneOne
  <2>4. CASE PruneDone BY <1>0, <2>1, <2>4, StillMirrors, MirrorsKeep DEF PruneDone, NoDisk
  <2> QED BY <1>5, <2>2, <2>3, <2>4
<1> QED BY <1>1, <1>2, <1>3, <1>4, <1>5 DEF Restore, Install

(* Checking a backup leaves the live files of every image.                   *)
LEMMA VerifyLive ==
    ASSUME TInv, Shape, Images, Verify
    PROVE  LiveSafe'
<1>0. TypeOK /\ fs \in Directory /\ maybe \subseteq Directory /\ fs \in maybe BY DEF TInv, TypeOK
<1>1. PICK left \in BOOLEAN : VerifyBackup(left) BY DEF Verify
<1>2. LiveSafe BY <1>1, LiveAtFrom DEF VerifyBackup, LiveAt, Surfaces
<1> DEFINE Op(d) == [d EXCEPT !.dirs = (d.dirs \ {"verify-staging"})
                                         \cup (IF left THEN {"verify-staging"} ELSE {})]
<1>3. \A d \in Directory : Op(d).db = d.db /\ Op(d).wal = d.wal /\ Op(d).side = d.side BY DEF Directory
<1>4. Change(Op) BY <1>1 DEF VerifyBackup
<1> HIDE DEF Op
<1>5. Mirrors BY <1>0, <1>3, <1>4 DEF Change, Mirrors
<1> QED BY <1>2, <1>5, MirrorsKeep

(* So the live vault is in every image a power loss may leave.               *)
LEMMA LiveStep ==
    ASSUME TInv, Erased, Shape, Named, Images, [Next]_vars, [Undisturbed]_vars, pc' \in LiveAt
    PROVE  LiveSafe'
<1>0. TypeOK BY DEF TInv
<1>1. CASE UNCHANGED vars
  <2>1. pc \in LiveAt /\ UNCHANGED disk BY <1>1 DEF vars, disk
  <2> QED BY <1>0, <2>1, LiveAtFrom, StillMirrors, MirrorsKeep
<1>2. CASE Launch
  <2>1. pc \in LiveAt /\ UNCHANGED disk BY <1>2 DEF Launch, LiveAt, Surfaces, NoDisk
  <2> QED BY <1>0, <2>1, LiveAtFrom, StillMirrors, MirrorsKeep
<1>3. CASE Recover
  <2>1. CASE RecoverSync \/ UnpairedSync BY <2>1, FlushedKeeps DEF RecoverSync, UnpairedSync, fsync_dir
  <2>2. CASE RecoverDb \/ RecoverWal \/ RecoverSide \/ UnpairedDb \/ UnpairedWal
    BY <2>2 DEF RecoverDb, RecoverWal, RecoverSide, UnpairedDb, UnpairedWal, Goto, LiveAt, Surfaces, TidySteps,
                ResetSteps
  <2> QED BY <1>3, <2>1, <2>2 DEF Recover
<1>4. CASE Create
  <2>1. CASE CreateSide BY <2>1, FlushedKeeps DEF CreateSide, ChangeAndSync
  <2>2. CASE FirstRun \/ CreateFile \/ CreateDb
    BY <2>2 DEF FirstRun, CreateFile, CreateDb, Goto, LiveAt, Surfaces, TidySteps, ResetSteps
  <2> QED BY <1>4, <2>1, <2>2 DEF Create
<1>5. CASE Crash BY <1>5, FlushedKeeps DEF Crash, fsync_dir
<1>6. CASE Fault /\ Undisturbed BY <1>6, FaultLive
<1> QED BY <1>1, <1>2, <1>3, <1>4, <1>5, <1>6, RestoreLive, ResetLive, SessionLive, VerifyLive DEF Next

(* And so is the copy, from the flush of the move-aside on.                  *)
LEMMA AsideStep ==
    ASSUME TInv, Shape, Images, [Next]_vars, pc' \in InstallSteps, stamp' # 0
    PROVE  AsideSafe'
<1>0. TypeOK /\ fs \in Directory /\ maybe \subseteq Directory /\ fs \in maybe BY DEF TInv, TypeOK
<1>1. CASE UNCHANGED vars BY <1>1 DEF vars, Images, AsideSafe
<1>2. CASE Restore
  <2>1. CASE \E backup \in SUBSET Rows : Assemble(backup)
    BY <2>1 DEF Assemble, InstallSteps
  <2>2. CASE OpenRestore \/ CancelRestore BY <2>2 DEF OpenRestore, CancelRestore, Goto, Route, InstallSteps
  <2>3. CASE TidyDir \/ PruneOne \/ PruneDone \/ TidyArtefacts
    BY <2>3 DEF TidyDir, PruneOne, PruneDone, TidyArtefacts, Goto, EnterRestored, InstallSteps
  <2>4. CASE InstallAsideSync BY <2>4 DEF InstallAsideSync, fsync_dir, AsideSafe
  <2>5. CASE InstallAsideDb \/ InstallAsideWal \/ InstallAsideSide \/ InstallSync
    BY <2>5 DEF InstallAsideDb, InstallAsideWal, InstallAsideSide, InstallSync, Goto, InstallSteps
  <2>6. ASSUME InstallFlush \/ InstallDb \/ InstallSide
        PROVE  stamp' = stamp /\ \A d \in maybe : d.olds[stamp] = fs.olds[stamp]
    BY <2>6 DEF InstallFlush, InstallDb, InstallSide, Goto, Images, InstallSteps
  <2>7. CASE InstallFlush BY <2>6, <2>7 DEF InstallFlush, NoDisk, disk, AsideSafe
  <2>8. CASE InstallDb
    <3>1. \A d \in Directory : PutDb(d).olds = d.olds /\ [d EXCEPT !.db = TornDb].olds = d.olds
      BY DEF PutDb, Directory
    <3>2. fs'.olds = fs.olds BY <1>0, <2>8, <3>1 DEF InstallDb
    <3>3. \A e \in maybe' : \E d \in maybe : e = d \/ e = PutDb(d) \/ e = [d EXCEPT !.db = TornDb]
      <4> HIDE DEF PutDb
      <4>1. CASE PowerLoss
        <5>1. maybe' = maybe \cup {PutDb(d) : d \in maybe}
                         \cup (IF flushed THEN {} ELSE {[d EXCEPT !.db = TornDb] : d \in maybe})
          BY <2>8, <4>1 DEF InstallDb
        <5> QED BY <5>1
      <4>2. CASE ~PowerLoss
        <5>1. maybe' = {PutDb(fs)} BY <2>8, <4>2 DEF InstallDb
        <5> QED BY <1>0, <5>1
      <4> QED BY <4>1, <4>2
    <3>4. \A e \in maybe' : \E d \in maybe : e.olds = d.olds
      <4> SUFFICES ASSUME NEW e \in maybe' PROVE \E d \in maybe : e.olds = d.olds OBVIOUS
      <4>1. PICK d \in maybe : e = d \/ e = PutDb(d) \/ e = [d EXCEPT !.db = TornDb] BY <3>3
      <4>2. PutDb(d).olds = d.olds /\ [d EXCEPT !.db = TornDb].olds = d.olds BY <1>0, <3>1
      <4> QED BY ONLY <4>1, <4>2, d \in maybe
    <3> QED BY <2>6, <2>8, <3>2, <3>4 DEF AsideSafe
  <2>9. CASE InstallSide
    <3>1. \A d \in Directory : PutSide(d).olds = d.olds BY DEF PutSide, Directory
    <3>2. fs'.olds = fs.olds /\ \A e \in maybe' : \E d \in maybe : e.olds = d.olds
      BY <1>0, <2>9, <3>1 DEF InstallSide, Change
    <3> QED BY <2>6, <2>9, <3>2 DEF AsideSafe
  <2> QED BY <1>2, <2>1, <2>2, <2>3, <2>4, <2>5, <2>7, <2>8, <2>9 DEF Restore, Install
<1>3. CASE Launch BY <1>3 DEF Launch, Route, InstallSteps
<1>4. CASE Recover
  BY <1>4 DEF Recover, RecoverDb, RecoverWal, RecoverSide, RecoverSync, UnpairedDb, UnpairedWal, UnpairedSync,
              Goto, Route, InstallSteps
<1>5. CASE Create BY <1>5 DEF Create, FirstRun, CreateFile, CreateDb, CreateSide, Goto, InstallSteps
<1>6. CASE Reset
  BY <1>6 DEF Reset, StartOver, ResetDirs, ResetArtefacts, ResetOlds, ResetWal, ResetDb, ResetSide, Goto, Route,
              InstallSteps
<1>7. CASE Session
  BY <1>7 DEF Session, Unlock, Lock, Quit, Write, proc, Goto, InstallSteps
<1>8. CASE Verify BY <1>8 DEF Verify, VerifyBackup, proc, InstallSteps
<1>9. CASE Fault
  BY <1>9 DEF Fault, FailedRestore, FailedTidy, FailedRecovery, FailedFirstRun, FailedReset, Goto, EnterRestored,
              InstallSteps
<1>10. CASE Crash BY <1>10 DEF Crash, InstallSteps
<1> QED BY <1>1, <1>2, <1>3, <1>4, <1>5, <1>6, <1>7, <1>8, <1>9, <1>10 DEF Next

(* Both together.                                                            *)
LEMMA ImagesStep ==
    ASSUME TInv, Erased, Shape, Named, Images, [Next]_vars, [Undisturbed]_vars
    PROVE  Images'
<1>1. pc' \in LiveAt => LiveSafe' BY LiveStep
<1>2. pc' \in InstallSteps /\ stamp' # 0 => AsideSafe' BY AsideStep
<1> QED BY <1>1, <1>2 DEF Images, LiveAt, LiveSafe, AsideSafe

(* The initial states satisfy the invariant: a vault in place, and at most   *)
(* one copy beside it.                                                       *)
LEMMA AtFirst == Init => IInv
<1> SUFFICES ASSUME Init PROVE IInv OBVIOUS
<1>0. TInv BY TypesAtFirst
<1>1. pc = "down" /\ told = "nothing" /\ prev = NoVault /\ maybe = {fs} BY DEF Init
<1>2. Erased BY <1>1 DEF Erased, ResetSteps
<1>3. /\ Proper(fs.db) /\ Proper(fs.wal)
      /\ \A s \in Stamps : Proper(fs.olds[s].db) /\ fs.olds[s].wal = NoDb
      /\ Settled(fs, owned) /\ (owned # NoVault => owned.key # NoKey)
  <2>1. CASE fs = EmptyDirectory /\ owned = NoVault
    <3>1. fs.db = NoDb /\ fs.wal = NoDb /\ fs.side = NoKey /\ \A s \in Stamps : fs.olds[s] = NoSet
      BY <2>1 DEF EmptyDirectory
    <3> QED BY <2>1, <3>1, ProperFiles DEF Settled, IsVault
  <2>2. ASSUME NEW r \in SUBSET Rows, NEW w \in SUBSET Rows, NEW s \in Stamps \cup {0}, NEW a \in BOOLEAN,
               fs = [Installed(Dek(1), r, w) EXCEPT
                        !.olds = [t \in Stamps |-> IF t = s THEN KeptSet ELSE NoSet], !.art = a],
               owned = [key |-> Dek(1), rows |-> r \cup w]
        PROVE  /\ Proper(fs.db) /\ Proper(fs.wal)
               /\ \A t \in Stamps : Proper(fs.olds[t].db) /\ fs.olds[t].wal = NoDb
               /\ Settled(fs, owned) /\ owned.key # NoKey
    <3>1. fs.db = NewDb(Dek(1), r) /\ fs.side = Dek(1)
          /\ fs.wal = (IF w = {} THEN NoDb ELSE NewDb(Dek(1), w))
          /\ \A t \in Stamps : fs.olds[t] \in {KeptSet, NoSet}
      BY <2>2 DEF Installed, EmptyDirectory
    <3>2. Dek(1) # NoKey BY KeyTypes
    <3>3. KeptSet.wal = NoDb /\ Proper(KeptSet.db) BY ProperFiles DEF KeptSet
    <3>4. \A t \in Stamps : Proper(fs.olds[t].db) /\ fs.olds[t].wal = NoDb BY <3>1, <3>3, ProperFiles
    <3>5. Proper(fs.db) /\ Proper(fs.wal) BY <3>1, ProperFiles
    <3>6. r \cup w \subseteq RowsOf(fs.db, fs.wal)
      <4>1. CASE w = {} BY <3>1, <4>1 DEF RowsOf, NewDb
      <4>2. CASE w # {} BY <3>1, <4>2 DEF RowsOf, NewDb
      <4> QED BY <4>1, <4>2
    <3>7. Opens(fs.db, fs.wal, Dek(1)) BY <3>1, ProperFiles DEF Opens, NewDb
    <3>8. owned.key = Dek(1) /\ owned.rows = r \cup w BY <2>2
    <3>9. Holds(fs.db, fs.wal, fs.side, owned) BY <3>1, <3>6, <3>7, <3>8 DEF Holds
    <3>10. Exists(fs.wal) => fs.wal.key = fs.db.key BY <3>1, ProperFiles DEF NewDb
    <3>11. Settled(fs, owned) BY <3>1, <3>2, <3>9, <3>10, ProperFiles DEF Settled, IsVault
    <3> QED BY <3>2, <3>4, <3>5, <3>8, <3>11
  <2> QED BY <2>1, <2>2 DEF Init
<1>4. Files BY <1>3, ProperFiles DEF Files, OwnWal
<1>5. Down BY <1>1, <1>3 DEF Down, Resting
<1>6. Shape BY <1>1, <1>4, <1>5 DEF Shape, Place
<1>7. Named /\ KeepsWay BY <1>1, <1>3 DEF Named, KeepsWay
<1>8. Images BY <1>1 DEF Images, Same, RowsOf, InstallSteps
<1> QED BY <1>0, <1>2, <1>6, <1>7, <1>8 DEF IInv

(* It is inductive along undisturbed steps.                                  *)
LEMMA InvStep == IInv /\ [Next]_vars /\ [Undisturbed]_vars => IInv'
<1> SUFFICES ASSUME IInv, [Next]_vars, [Undisturbed]_vars PROVE IInv' OBVIOUS
<1>1. TInv /\ Erased /\ Shape /\ Named /\ KeepsWay /\ Images BY DEF IInv
<1> HIDE DEF vars
<1>2. TInv' BY <1>1, TypesStep
<1>3. Erased' BY <1>1, ErasedStep
<1>4. Shape' BY <1>1, ShapeStep
<1>5. Named' BY <1>1, NamedStep
<1>6. KeepsWay' BY <1>1, KeepsStep
<1>7. Images' BY <1>1, ImagesStep
<1> QED BY <1>2, <1>3, <1>4, <1>5, <1>6, <1>7 DEF IInv

(* The invariant holds along every undisturbed behaviour.                    *)
THEOREM Invariance == Spec /\ [][Undisturbed]_vars => []IInv
BY AtFirst, InvStep, PTL DEF Spec

-----------------------------------------------------------------------------

(* A vault whose three files are there is on the disk.                       *)
LEMMA HoldsOnDisk ==
    ASSUME NEW db \in AllDbs(fs), NEW wal \in AllWals(fs), NEW side \in AllSides(fs), NEW v,
           Holds(db, wal, side, v), Files
    PROVE  OnDisk(fs, v)
<1>1. Proper(db) /\ Proper(wal) BY DEF Files, AllDbs, AllWals
<1>2. v.key \in AllSides(fs) BY DEF Holds
<1>3. db.key = v.key /\ db.health = "ok" BY <1>1 DEF Holds, Opens, Proper
<1>4. ASSUME NEW x \in v.rows
      PROVE  x \in UNION {f.rows : f \in {g \in AllDbs(fs) \cup AllWals(fs) : g.key = v.key}}
  <2>1. CASE x \in db.rows BY <1>3, <2>1
  <2>2. CASE x \in wal.rows
    <3>1. Exists(wal) BY <1>1, <2>2 DEF Proper, Exists, NoDb
    <3>2. wal.key = v.key BY <3>1 DEF Holds, Opens
    <3> QED BY <2>2, <3>2
  <2> QED BY <1>4, <2>1, <2>2 DEF Holds, RowsOf
<1> QED BY <1>2, <1>3, <1>4 DEF OnDisk

(* The invariant says where the owner's files are.                           *)
LEMMA OwnerKept == IInv => OwnedSurvives
<1> SUFFICES ASSUME IInv, owned # NoVault PROVE OnDisk(fs, owned) BY DEF OwnedSurvives
<1>1. Files /\ Place BY DEF IInv, Shape
<1>2. ASSUME NEW S, NEW db \in AllDbs(fs), NEW wal \in AllWals(fs), NEW side \in AllSides(fs),
             IsVault(fs.olds, S, db, wal, side, owned)
      PROVE  OnDisk(fs, owned)
  <2>1. Holds(db, wal, side, owned) BY <1>2 DEF IsVault
  <2> QED BY <1>1, <2>1, HoldsOnDisk
<1>3. /\ fs.db \in AllDbs(fs) /\ fs.wal \in AllWals(fs) /\ fs.side \in AllSides(fs)
      /\ \A s \in Stamps : /\ fs.olds[s].db \in AllDbs(fs) /\ fs.olds[s].wal \in AllWals(fs)
                           /\ fs.olds[s].side \in AllSides(fs)
  BY DEF AllDbs, AllWals, AllSides
<1> HIDE DEF OnDisk
<1>4. Settled(fs, owned) => OnDisk(fs, owned) BY <1>2, <1>3 DEF Settled
<1>5. \A s \in Stamps : HalfAside(fs, s, owned) \/ AllAside(fs, s, owned) => OnDisk(fs, owned)
  <2> SUFFICES ASSUME NEW s \in Stamps, HalfAside(fs, s, owned) \/ AllAside(fs, s, owned)
               PROVE  OnDisk(fs, owned)
      OBVIOUS
  <2>1. CASE HalfAside(fs, s, owned) BY <1>2, <1>3, <2>1 DEF HalfAside
  <2>2. CASE AllAside(fs, s, owned) BY <1>2, <1>3, <2>2 DEF AllAside
  <2> QED BY <2>1, <2>2
<1>6. CASE Down BY <1>4, <1>5, <1>6 DEF Down, Resting
<1>7. CASE Calm \/ Entered \/ Resetting \/ Offering \/ Creating \/ Restored
  BY <1>4, <1>7 DEF Calm, Entered, Resetting, Offering, Creating, Restored, Quiet
<1>8. CASE MovingAside
  <2>1. stamp \in Stamps BY <1>8 DEF MovingAside, Top
  <2>2. CASE Quiet(fs, owned) BY <1>4, <2>2 DEF Quiet
  <2>3. CASE IsVault(fs.olds, Others(stamp), fs.olds[stamp].db, fs.wal, fs.side, owned)
    BY <1>2, <1>3, <2>1, <2>3
  <2>4. CASE IsVault(fs.olds, Others(stamp), fs.olds[stamp].db, fs.olds[stamp].wal, fs.side, owned)
    BY <1>2, <1>3, <2>1, <2>4
  <2> QED BY <1>8, <2>2, <2>3, <2>4 DEF MovingAside
<1>9. CASE Installing
  <2>1. stamp \in Stamps /\ IsVault(fs.olds, Others(stamp), fs.olds[stamp].db, fs.olds[stamp].wal,
                                    fs.olds[stamp].side, owned)
    BY <1>9 DEF Installing, Aside, Top
  <2> QED BY <1>2, <1>3, <2>1
<1>10. CASE TakingBack
  <2>1. CASE pc = "recover.db" \/ pc = "unpaired.db"
    BY <1>5, <1>10, <2>1 DEF TakingBack, AllAside, HalfAside, Top
  <2>2. CASE /\ stamp \in Stamps
             /\ \/ IsVault(fs.olds, Others(stamp), fs.db, fs.olds[stamp].wal, fs.olds[stamp].side, owned)
                \/ IsVault(fs.olds, Others(stamp), fs.db, fs.wal, fs.olds[stamp].side, owned)
                \/ IsVault(fs.olds, Others(stamp), fs.db, fs.wal, fs.side, owned)
                \/ IsVault(fs.olds, Others(stamp), fs.db, fs.olds[stamp].wal, fs.side, owned)
    BY <1>2, <1>3, <2>2
  <2> QED BY <1>10, <2>1, <2>2 DEF TakingBack
<1> QED BY <1>1, <1>6, <1>7, <1>8, <1>9, <1>10 DEF Place

(* However often the program is killed, but between two renames of a         *)
(* recovery, the owner's database, sidecar and rows are on the disk, and a   *)
(* restore that finished kept the vault it replaced whole under one stamp    *)
(* (INV-5, INV-17; _install, _prune_superseded_old_copies,                   *)
(* _reconcile_interrupted_restore).                                          *)
THEOREM NothingLost == Spec /\ [][Undisturbed]_vars => []NothingIsLost
<1>1. IInv => UndoCopyKept BY DEF IInv, KeepsWay, UndoCopyKept
<1>2. IInv => NothingIsLost BY <1>1, OwnerKept DEF NothingIsLost
<1> QED BY <1>2, Invariance, PTL

(* No launch reports an incomplete install over a vault the owner has, or    *)
(* offers to make a new one (INV-5, INV-21; run,                             *)
(* _reconcile_interrupted_restore).                                          *)
THEOREM LaunchFindsIt == Spec /\ [][Undisturbed]_vars => []NoDeadEnd
<1>1. IInv => NoDeadEnd
  <2> SUFFICES ASSUME IInv, owned # NoVault PROVE told # "incomplete" /\ pc \notin {"firstrun"} \cup CreateSteps
      BY DEF NoDeadEnd
  <2> QED BY PlaceIs DEF IInv, Shape, Down
<1> QED BY <1>1, Invariance, PTL

(* The invariant keeps every WAL beside its own database.                    *)
LEMMA WalsAreOwn == IInv => NoForeignWal
<1> SUFFICES ASSUME IInv PROVE NoForeignWal OBVIOUS
<1>1. Files /\ Place BY DEF IInv, Shape
<1>2. OwnWal(fs.db, fs.wal)
  <2>1. fs.db = NoDb \/ ~Exists(fs.wal) \/ fs.wal.key = fs.db.key
    <3>1. CASE Down \/ Calm \/ Entered \/ Resetting \/ Offering \/ Creating \/ Restored
      BY <3>1, ProperFiles DEF Down, Resting, Calm, Entered, Resetting, Offering, Creating, Restored, Quiet,
                               Settled, IsVault, HalfAside, AllAside
    <3>2. CASE MovingAside BY <3>2, ProperFiles DEF MovingAside, Quiet, Settled, IsVault
    <3>3. CASE Installing BY <3>3, ProperFiles DEF Installing, Aside
    <3>4. CASE TakingBack BY <3>4, ProperFiles DEF TakingBack, AllAside, HalfAside, IsVault
    <3> QED BY <1>1, <3>1, <3>2, <3>3, <3>4 DEF Place
  <2> QED BY <2>1, ProperFiles DEF OwnWal
<1> QED BY <1>1, <1>2 DEF NoForeignWal, Files

(* A vault at rest is the one the unlock screen opens.                       *)
LEMMA QuietHas ==
    ASSUME Quiet(fs, owned), owned # NoVault, Named
    PROVE  Has(fs, owned)
BY HoldsOpens DEF Has, Live

(* The unlock screen opens the vault the owner believes in with every row,   *)
(* never an older copy, half of a restore or one vault's rows over another's *)
(* (INV-18, INV-21, D4).                                                     *)
THEOREM OpensOwnVault == Spec /\ [][Undisturbed]_vars => []UnlockOpensOwnVault
<1>1. IInv => UnlockOpensOwnVault
  <2> SUFFICES ASSUME IInv PROVE UnlockOpensOwnVault OBVIOUS
  <2>1. pc = "unlock" => Quiet(fs, owned)
    BY PlaceIs DEF IInv, QuietAt, TidySteps, ResetSteps, CreateSteps
  <2>2. Named BY DEF IInv
  <2> QED BY <2>1, <2>2, QuietHas, WalsAreOwn DEF UnlockOpensOwnVault
<1> QED BY <1>1, Invariance, PTL

(* Whoever is let into a vault is in one no power loss can take away, and    *)
(* neither can it take the copy a running restore would go back to (INV-15;  *)
(* _install, complete_first_run, the close of a connection).                 *)
THEOREM Durable == Spec /\ [][Undisturbed]_vars => []SessionIsDurable
<1>1. IInv => SessionIsDurable
  <2> SUFFICES ASSUME IInv PROVE SessionIsDurable OBVIOUS
  <2>1. ASSUME pc = "session", NEW d \in maybe PROVE Has(d, owned)
    <3>1. Quiet(fs, owned) /\ owned # NoVault
      BY <2>1, PlaceIs DEF IInv, QuietAt, TidySteps, ResetSteps, CreateSteps
    <3>2. PairOpens(fs) /\ fs.side = owned.key /\ owned.rows \subseteq RowsOf(fs.db, fs.wal)
      BY <3>1, HoldsOpens DEF IInv
    <3>3. Same(d) BY <2>1, <3>2 DEF IInv, Images, Surfaces
    <3> QED BY <3>2, <3>3 DEF Same, Has, Live, PairOpens, Opens, RowsOf
  <2>2. AsideIsDurable BY DEF AsideIsDurable, IInv, Images
  <2> QED BY <2>1, <2>2 DEF SessionIsDurable
<1> QED BY <1>1, Invariance, PTL

===============================================================================
