------------------------------- MODULE VaultDisk -------------------------------
(***************************************************************************)
(* The vault directory as finbreak sees it: the encrypted database, its     *)
(* WAL, the plaintext key record (the "sidecar"), and the artefacts the     *)
(* v1 -> v2 key-envelope migration leaves beside them.                      *)
(*                                                                          *)
(* Two views are kept.  fs is what the running process reads.  maybe is the *)
(* set of directory images a power loss may leave: os.replace and unlink    *)
(* change a directory ENTRY that is not durable until fsync_dir, and        *)
(* un-flushed entries may reach the disk in any order.                      *)
(*                                                                          *)
(* Abstractions.  A file's bytes are the key it is encrypted under, the     *)
(* rows it holds and its health.  A -wal and its -shm are one file.  SQLite *)
(* (external) commits durably, flushes the directory when it creates a WAL, *)
(* and on the last close of a connection folds the WAL into the database    *)
(* and unlinks it without a flush.  Vault and sidecar share one directory,  *)
(* as paths.py places them.                                                 *)
(***************************************************************************)
EXTENDS Integers, FiniteSets

CONSTANTS
    Rows,       \* the rows a user may ever write
    PowerLoss   \* TRUE: a crash may revert un-flushed directory entries

VARIABLES
    fs,         \* the directory as the process sees it
    maybe       \* the images a power loss may leave; fs is one of them

ASSUME PowerLossBoolean == PowerLoss \in BOOLEAN

disk == <<fs, maybe>>

-----------------------------------------------------------------------------
(* Keys.  A KEK is named by the (password, salt) pair it derives from, a DEK *)
(* by its draw from the random source; no two are ever equal.               *)

Kek(n) == <<"kek", n>>
Dek(n) == <<"dek", n>>
NoKey  == <<"none", 0>>
Key    == {"kek", "dek", "none"} \X Nat

(* A database file.  "torn": being written, opens under no key.  "page": a   *)
(* page past the first is damaged, so it opens and does not read end to end. *)
Health == {"absent", "torn", "page", "ok"}
DbFile == [key : Key, rows : SUBSET Rows, health : Health]
NoDb   == [key |-> NoKey, rows |-> {}, health |-> "absent"]
TornDb == [key |-> NoKey, rows |-> {}, health |-> "torn"]
NewDb(k, rows) == [key |-> k, rows |-> rows, health |-> "ok"]

(* A sidecar.  ver 0: absent or unreadable; 1: the flat record of the master *)
(* KDF parameters; 2: the slots object, whose master slot wraps dek under    *)
(* kek and whose optional recovery slot wraps it under the recovery code.    *)
Sidecar == [ver : 0..2, kek : Key, dek : Key, rec : BOOLEAN, pending : BOOLEAN]
NoSide  == [ver |-> 0, kek |-> NoKey, dek |-> NoKey, rec |-> FALSE, pending |-> FALSE]
V1Side(k) == [ver |-> 1, kek |-> k, dek |-> NoKey, rec |-> FALSE, pending |-> FALSE]
V2Side(k, d, p) == [ver |-> 2, kek |-> k, dek |-> d, rec |-> FALSE, pending |-> p]

(* db, wal, side: the live vault; mdb, mwal, mside: the ".migrating" files;  *)
(* pdb, pside: the ".pre-v2" rollback pair.                                  *)
Image == [db : DbFile, wal : DbFile, side : Sidecar,
          mdb : DbFile, mwal : DbFile, mside : Sidecar,
          pdb : DbFile, pside : Sidecar]

-----------------------------------------------------------------------------
(* Reading.  A WAL written under another key poisons the database beside it. *)

Exists(db) == db.health # "absent"

Opens(db, wal, k) == /\ db.health \in {"page", "ok"}
                     /\ db.key = k
                     /\ Exists(wal) => wal.key = k

ReadsEndToEnd(db, wal, k) == Opens(db, wal, k) /\ db.health = "ok"

RowsOf(db, wal) == db.rows \cup wal.rows

(* What row_counts can tell apart: how many rows, never which.               *)
RowCounts(db, wal) == Cardinality(RowsOf(db, wal))

-----------------------------------------------------------------------------
(* Changing the directory.                                                   *)

(* An entry changes and nothing flushes it: after a power loss it may or may *)
(* not have happened, whatever else did.                                     *)
Change(Op(_)) ==
    /\ fs' = Op(fs)
    /\ maybe' = IF PowerLoss THEN maybe \cup {Op(d) : d \in maybe} ELSE {Op(fs)}

(* The same, followed by fsync_dir: every entry is now durable.              *)
ChangeAndSync(Op(_)) ==
    /\ fs' = Op(fs)
    /\ maybe' = {Op(fs)}

fsync_dir == fs' = fs /\ maybe' = {fs}

(* Bytes change inside files that already have their entries.                *)
InPlace(Op(_)) ==
    /\ fs' = Op(fs)
    /\ maybe' = {Op(d) : d \in maybe}

(* Closing a connection that key k opened: the WAL goes into the database.   *)
Folded(db, wal, k) == IF Opens(db, wal, k) THEN [db EXCEPT !.rows = RowsOf(db, wal)] ELSE db
FoldedWal(db, wal, k) == IF Opens(db, wal, k) THEN NoDb ELSE wal
FoldLive(d, k) == [d EXCEPT !.db = Folded(d.db, d.wal, k),
                            !.wal = FoldedWal(d.db, d.wal, k)]
FoldMigrating(d, k) == [d EXCEPT !.mdb = Folded(d.mdb, d.mwal, k),
                                 !.mwal = FoldedWal(d.mdb, d.mwal, k)]

(* What the machine comes back to after the process or the power goes.       *)
AfterCrash(d) == d \in (IF PowerLoss THEN maybe ELSE {fs})

DiskTypeOK == fs \in Image /\ maybe \subseteq Image /\ fs \in maybe
=============================================================================
