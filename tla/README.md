# finbreak: a TLA+ verification project

finbreak is a desktop program (Python, PySide6) that keeps one household's bank
statements in one SQLCipher database, the *vault*. This directory holds TLA+ models of
the parts of it that are hard to test, the TLC configurations that check them on small
instances, and TLAPS proofs of the most important results for every value of the
constants. `PROJECT.json` is the index: components, runs, mutants, the map from every
definition to the lines it models, the findings, the hazards and the theorems.

Run a check with `tlc -config X.cfg M`, a proof with `tlapm M.tla`.

## 1. The system

Paths are under `src/src/finbreak/` unless they start with `tests/` or `docs/`.

| Component | Source | State | Operations | Modelled in |
|---|---|---|---|---|
| Vault directory | `vault.py`, `crypto.py` | database, WAL, sidecar, `.migrating`/`.pre-v2` artefacts, stamped `*.old` sets | create, open, close, export, write sidecar, rename, flush | `VaultDisk`, `VaultInstall` |
| Key-envelope migration | `services/vault_migration.py` | the artefacts, `migration_pending` | S0..S6, the resume ladder, the rollback copy and its restore | `VaultMigration` |
| First run, restore, start over | `services/backup.py`, `services/auth.py`, `ui/main_window.py` | `*.old` sets, staging directories | `complete_first_run`, `_install`, prunes, `reset_vault`, the recovery at launch | `VaultInstall` |
| Authentication service | `services/auth.py`, `keywrap.py` | session key, vault handle, idle timer, notices | unlock (v1, slot, recovery), change password, recovery slot, lock, suspend the idle lock | `VaultMigration`, `Shell` |
| Unlock dialog and backoff | `ui/unlock.py`, `ui/_worker.py`, `services/unlock_throttle.py`, `ui/_unlock_throttle.py` | worker thread, countdown, `window.ini` counters | submit, derive, deliver, tick, cancel | `UnlockGate` |
| Single-instance guard | `single_instance.py`, `app.py` | the socket path, the recovery flock | probe, listen, recover, nudge | `SingleInstance` |
| Main window | `ui/main_window.py`, `ui/recovery_key.py`, `ui/_clipboard.py` | the one dialog slot, nested event loops, owed offers, the recovery code's display | route, lock, wipe, open dialogs, export, hold the update offer, close | `Shell`, `LockWipe` |
| Updates | `services/update.py`, `services/update_installer.py`, `ui/_update_worker.py` | staged download, program file | check, download, stage, swap, relaunch | `Shell` |
| The tabs | `ui/home.py`, `accounts.py`, `transactions.py`, `statements.py`, `categories.py`, `rules.py`, `transfers.py`, `recurring.py`, `forecast.py`, `_table_state.py` | what each shows, its order, its selection, its form, its open question | refresh, sort, select, write, be wiped | `Workspace`, `LockWipe` |
| Statement import | `services/import_.py`, `services/statements.py`, `services/account_match.py`, `ui/import_wizard.py` | statements, transactions, profiles, remembered passwords | unlock, map, preview, commit, delete, move | `Ledger`, `ImportWizard` |
| Batch import | `services/batch_import.py`, `ui/import_batch.py` | the files of a batch, their questions and outcomes | scan, answer, re-scan, review, import, stop | `BatchImport` |
| Parsers | `importers/` | none | detect columns, parse | - |
| Transactions, accounts | `services/transactions.py`, `services/accounts.py`, `repositories/` | the tables | insert, rename, delete | `Ledger` |
| Categories and rules | `services/categories.py`, `services/categorization.py`, `category_library.py` | the tree, the rules, the library switch, each row's filing | edit the tree and the rules, apply, file by hand, learn | `Categorization` |
| Transfers | `services/transfer_detection.py`, `repositories/transfers.py` | decided pairs | suggest, confirm, reject, unlink | `Ledger` |
| Recurring, forecast, alerts, reports, month summary, reconciliation | `services/recurring.py`, `forecast.py`, `alerts.py`, `reporting.py`, `month_summary.py`, `reconciliation.py` | decisions, dismissals; else none of their own | computations over the tables | `Recurring`, `Reporting`, `Household` |
| Schema migrations | `migrations.py` | `schema_version` | one step per version | - |

How they interact. `app.run()` probes for a running instance, builds the main window
(whose constructor repairs an interrupted restore and then routes by what files exist),
and only then claims the single-instance socket. The window shows one of first run, unlock
or restore; the unlock dialog asks the backoff whether a try is allowed, derives the key
on a thread, and hands it to the authentication service, which opens the vault, or first
converts it (migration) or finishes a conversion. The open vault is what the services
work on, through the tabs, the import wizard and a handful of dialogs, until the idle
timer or the owner locks it. Nothing notifies a tab of another's write: each is re-read
when it comes to the front. Everything runs on one GUI thread apart from the derivation
and update workers; a question asked with `exec()` runs an event loop of its own, in which
timers and the workers' answers are served while the handler waits. Everything that
survives the process is in the vault directory, `window.ini` and beside the program file.

What is hard: the directory is changed by sequences of renames any of which may be the
last thing the process does, or may not be durable when the power goes; errors are retried
over half-finished work; threads and timers report to dialogs that may have moved on, and
the vault may lock under a handler that is waiting for an answer; a batch import is a chain
of queued turns between which the owner may click anything; a table is re-sorted and
refilled under a selection; two launches race over one socket path; wall-clock stamps order
things although clocks are set back; months have different lengths.

What makes each component correct:

- *Migration*: the owner's password opens a vault with every committed row whatever is
  interrupted; a right password is never called wrong; nothing destroys the only complete
  copy; an owner who keeps unlocking ends with a converted vault and no artefacts.
- *First run, restore, start over*: the vault the owner last used is never lost, is what
  the next launch puts back, and is never offered to be overwritten; a database never
  meets another database's WAL; an erased vault is erased.
- *Single instance*: at most one owner, the path leads to it, every launch ends in a
  window or hands over.
- *Unlock gate*: one derivation at a time, a dialog never dies over a running thread, the
  backoff delays every guess and never locks the owner out for good.
- *Window*: no dialog that works on the vault is up while it is locked, and a screen that a
  lock took down holds nothing it showed and does nothing more; the idle countdown runs
  exactly when it should; a copied code leaves the clipboard; an update
  is whole or absent.
- *Import*: the rows the review shows are the rows that land, in the account shown; no
  answer is asked for twice or used for another file; the report is true.
- *Ledger*: an import counts every purchase once and only once; deleting statements keeps
  what another still vouches for; a transfer joins two rows of two accounts and no row is in
  two; no reference dangles though ids are reused.
- *Filing*: rows and rules point at categories that exist and may be assigned; what the
  owner filed by hand is left alone; the tree stays two trees.
- *Tabs*: what is shown is what the vault says, and a button acts on what was picked.
- *Analytics*: what the program says of a household's money agrees with the bank and with
  itself.

## 2. The modules

| Module | Models | Extends |
|---|---|---|
| `VaultDisk` | files, keys, the directory under power loss | - |
| `VaultMigration` | unlock + migration + rollback + session | `VaultDisk` |
| `VaultInstall` | launch, recovery, first run, restore, start over | `VaultDisk`'s vocabulary |
| `SingleInstance` | launches racing for the guard | - |
| `UnlockGate` | dialog, derivation thread, backoff | - |
| `Shell` | the window: slot, nested loops, lock, recovery code, updates | - |
| `Categorization` | categories, rules, library, filing | - |
| `Ledger` | accounts, rows, statements, transfers; composes filing | `Categorization` |
| `Workspace` | the tabs over the ledger | `Ledger` |
| `LockWipe` | what a screen that was taken down still holds, and that it stays silent | - |
| `ApprovedImport` | abstract: what the review screen promises | - |
| `BatchImport` | a batch of files | - |
| `ImportWizard` | the wizard, one file or a batch; implements `ApprovedImport` | `BatchImport` |
| `Calendar`, `Recurring`, `Reporting` | dates and the pure algorithms | each the one before |
| `Household` | a bank, an owner and their vault over time | `Reporting` |
| `MC*` | the constants of the runs | the module |
| `*Proofs` | the theorems (section 4) | the module and `TLAPS` |

**VaultDisk.** `fs` is the directory as the process sees it; `maybe` is the set of
images a power loss may leave. `Change(Op)` applies an operation to `fs` and, with
`PowerLoss`, makes it optional in each image, so un-flushed renames reach the disk in any
order and any subset; `fsync_dir` collapses `maybe` to `{fs}`. A file's bytes are its key,
its rows and its health. A WAL and its `-shm` are one file. SQLite (external) commits
durably and folds its WAL on the last close.

**VaultMigration.** `pc` names the step about to run (`S0.db` .. `S6.clear`, `rb.*`, the
ladder's branches). Each step of `migrate_v1_to_v2` and `resume` that touches the disk is
one action, so a crash, power loss or `OSError` can fall between any two. `Fault` goes
where the code's handlers go: `_unlock_v1` re-enters through the ladder, others report and
stay locked. `Damage` rots a file at rest. `Rekey` actions are `_write_slot`, which keeps
`migration_pending`. Only the right password is tried: a wrong one is refused before any
of this.

**VaultInstall.** One action per rename, unlink and flush of `_install`,
`_reconcile_interrupted_restore`, `reset_vault`, the prunes and `complete_first_run`, with
the dialog and routing around them. A sidecar is its vault's key; stamps are small numbers.
`MaxMishaps` bounds, together, process kills, `OSError`s and clocks set back. A recovery
starts only after a mishap, so with one nothing goes wrong *inside* a recovery: that takes
`MaxMishaps = 2` (section 3, findings). `SoleSpec` starts from directories in which nothing has
been moved aside yet. A crash kills
the process: the kernel is taken to have written its changes back before the next launch.
What a power loss would leave instead is examined through `maybe`, in `SessionIsDurable`,
without going on from it. The ghost `owned` is the vault the owner last had; `prev` the one
the running restore replaces.

**SingleInstance.** One process per launch; `path` is what the socket path names, `guard`
who holds a `QLocalServer`, `claim` who holds the flock. `QLocalServer` and `flock` are
external.

**UnlockGate.** Both routes of the dialog, the worker from start to `finished`, its result
queued for the GUI thread, the 1-Hz countdown, the persisted count and stamp, a kill that
loses the stamp, a clock set back. The clock is never set forward: the code does not claim
to survive that. Two ghosts count real seconds.

**Shell.** The window and the authentication service are one record, `w`; a handler is a
function from `w` to `w`, so that handlers compose as calls do. A handler that asks a
question is cut in two: the first half pushes what it waits for on `w.nest`, the second
runs when the question is the innermost and answered. Between the two anything may run that
the event loop serves: the idle timeout, a worker's answer, a download's end. `own` tells a
waiting handler whether the dialog it opened is still the one in the slot (the identity
test of `_locked_during_picker`). The recovery code's display, its Keep and its refusal,
the owed offers of a first run, a conversion and a recovery unlock, and the clipboard timer
are `ui/recovery_key.py` and `ui/_clipboard.py`. `dl` are download workers, `disk` the
program and what is staged beside it: the swap is a rename that a power loss may keep or
undo, with or without the bytes. Settings and the entry of a row by hand open over the
import wizard too, the export and the other forms over the workspace only; a row entered
is shown in Transactions, and a wizard underneath gives way (`on_manual_committed`).
Simplifications: a slot dialog shown later in the same
turn is shown at once; start-over's two confirmations are one; a native file picker may be
answered under a newer dialog, a Qt dialog may not; input only restarts the countdown;
the platform is chosen when an update is applied; a successful apply ends the process.

**BatchImport, ImportWizard.** A file is what reading it gives, `Library[path]`: its kind,
the password it needs, its layout, its statements with their rows counted by dedup key.
Every slot is one step; `armed` counts the queued turns of the scan, the questions and the
run. The module covers the scan with its password ladder and its caps, fan-out of a file of
several statements, questions with their answers reused for every file that waits on the
same one, the review's counts, account changes and creations at any moment they are on
screen, the run file by file, a refused commit, a database error, cancel and lock.
`ImportWizard` adds the single-file route and everything the two share: profiles, remembered
passwords, the map page's form and the account boxes. A file's content does not change while
a batch runs.

**ApprovedImport.** The abstract specification, in three variables: the accounts change only
by whole statements of an approved list, in its order, each adding exactly what was
promised for it (no fewer, once an earlier one was refused). `ImportWizard` implements it:
`Promise == INSTANCE ApprovedImport WITH approved <- Approved, ...` maps the ready files
still to be committed in a run to the list, and `KeepsItsPromise == Promise!Spec` is
checked as a property. The counts come from previews taken long before, so that this holds
is not obvious: it is what `cumulative_counts` is for.

**Categorization, Ledger.** A table is a function from ids to rows; ids are SQLite's, one
more than the largest, so they come back after a delete. A service call is one database
transaction on one connection, made from the GUI thread, so it is one step; one that raises
rolls back and is none. `Categorization` has the tree, the rules and what they file, and
`Ledger` extends it with the other tables and composes the steps: `CommitImport` ends by
filing what it inserted, `DeleteCategory` by re-filing. A parsed file is a record of drafts,
a span and a closing balance; the owner may change the span. A description is told apart by
its folded text; a pattern by the folded texts it occurs in; names that differ only in case
are one name. The ghost `holds` remembers, per statement, the files whose rows the account
has for its sake, until a move takes rows out of the account.

**Workspace.** The composition of the window with the ledger: every button of every tab is
an action that conjoins what it does to the tables (an action of `Ledger`) with what it does
to the screen. `View(part)` is what a part of the window says as a function of the tables;
after a write, `behind` gains the parts whose view changed and loses those the handler
repaints, so `ScreenFollowsVault` compares the screen with the vault without carrying
copies of both. Selections are visual rows; what a button acts on is computed as
`_table_state` does, through the row's tag, and compared with the ghost `picked`. A question
is a `box` that outlives its page when the vault locks; what that page still holds is the
question of `LockWipe`. Simplifications: `show_modal`
dialogs go with the lock, so opening and accepting one is one step; header layouts are
nondeterministic when a tab is shown; a hidden tab's content is not tracked because it is
re-read when shown; the offer to learn a rule may come after any filing by hand; an unlock
lands on any tab. Filters, the date range, Home's account box and midnight are left out. A
list is put in the order the repositories return it by `InOrder`, a definition the prover can
reason about. `Vaults` are any vaults that are whole (`VaultsAreWhole`): typed tables for
which `Ledger`'s invariants hold, which is what `LedgerProofs` proves of every vault these
services wrote.

**LockWipe.** A screen that is taken down - by a lock, by the wizard coming and going - is handed
to `deleteLater`, which does nothing while a box's event loop runs above its handler, so
`_clear_decrypted_rows` wipes it by hand. The module models that function and what can still
happen to the screen. A place, `<<owner, what>>`, is one class of widgets of one tab or one
attribute; `Shows` and `Attributes` say, tab by tab, where decrypted values are kept, and
`clear_rows` what each class drops. The wipe is synchronous in the code. It has steps here -
block the signals, empty the children tab by tab, drop the lists - because emptying a widget
that was not silenced runs its slot (`Reaction`), which reads the vault or the file again. `loops`
are the nested event loops; `Destroy` is `deleteLater` (or Qt's parent chain) taking effect while
one runs, which may happen or not, and `Alive` what is left when the last one ends. A handler
answered late (`HandlerResumes`) runs on the wiped screen, and the window hears it unless its
signals are blocked. Left out: modal dialogs, which go with the lock (`Shell`), the captions of
buttons and the year of a spin box.

**Calendar, Recurring, Reporting.** Operators over a set of rows and a date, one per
function of the services, down to the accept bands, the tolerance, half-even rounding and
the order of the checks. Dates have their real months. The functions are pure and their
correctness is about months of different lengths, missing data and amounts counted twice,
so they are not checked on arbitrary rows but on the rows a life produces:

**Household.** A bank takes bills on the days they are due (the last day of a month that is
too short), the owner buys, moves money, imports late, answers suggestions, dismisses
alerts; a statement may come without a balance or lose a row. What is true (`bank`) is kept
apart from what the vault knows (`rows`), and the properties compare. A run has five
families of households (`MCHousehold`).

## 3. What the runs show

Bounds cap how often the environment acts; the program's own loops are unbounded.

| Run | Checks | Bounds |
|---|---|---|
| `migration_power_loss` | `VaultOpens`, `RightPasswordNeverRefused`, `CopyOutlivesItsUse` in every image a power loss may leave, and `MigrationCompletes` under fairness | 2 rows, 2 crashes, 2 disk errors, 1 rekey |
| `migration_damage` | `DamageIsOffered`, `NeverBurnsTheOnlyCopy` when files rot | 2 files damaged, 3 crashes, 2 errors, 1 rekey |
| `install` | `NothingIsLost`, `NoDeadEnd`, `UnlockOpensOwnVault`, `SessionIsDurable`, `ResetLeavesNothing` | 3 stamps, 4 vaults, 1 mishap of any kind (none inside a recovery) |
| `single_instance` | `OwnerIsReachable`, `LaunchesSettle`; owners quit when no launch is under way | 3 launches, 3 crashes |
| `unlock_gate` | `DerivationIsOwned`, `GateHolds`, `LockoutEnds`, and `OwnerGetsIn` under fairness | delays 1, 2, 3 s (capped), 4 wrong tries, 1 kill, 2 set-backs, 1 error |
| `shell` | `IdleLockArmed`, `UpdateIsClean`, `LockedMeansLocked`, and `ClipboardCleared` under fairness | 2 nested questions, 1 download |
| `ledger` | `LinksAreSound`, `StatementKeepsItsRows`, `BatchIsALoop`, `ImportIsUnion`, `FiledUnderALeaf`, `FilingIsKept` | two kinds of vault. Statements: 2 accounts, 3 rows, 3 statements, 2 overlapping files and a wider span. Filing: 2 rows, 2 Types and 2 categories, 2 rules, 1 library entry |
| `import_wizard` | `ReportIsTrue`, `NeverAsksTwice`, `AnswersStayPut`, the refinement `KeepsItsPromise`, and `BatchSettles` under fairness | 5 files to pick from, 3 in a batch, 5 drafts, 2 password prompts, 2 picks of which the first may be a batch, 2 accounts |
| `workspace` | `ScreenFollowsVault`, `HitsWhatWasPicked`, `TreeStaysShallow`; `WipedForGood` of `LockWipe` | 3 vaults; 2 writes to a new one, 1 to one lived in; 3 screens alive at once, 2 nested loops |
| `household` | `ForecastMeetsTheBank`, `MissedIsTold`, `SummaryIsFair`, `FiguresAgree` | 19 households over 2 to 8 months, 2 departures from routine each |

`rollback_power_loss` and `recovery_killed` are expected to find a violation: see the findings.

`ledger` instantiates `Ledger` twice over the same variables, with the constants of each kind of
vault; its properties are those of the module. `workspace` explores two modules that share no
state, `Workspace` and `LockWipe`: a behaviour is about one, and the other stays at its start.

Why these are enough to meet the interesting cases: two rows tell "every row" from "a
row", and one in the WAL from one in the database; two crashes reach a crash in the ladder
that finishes an interrupted conversion; three stamps hold the set a restore makes, the
one it supersedes and one more; three launches are a recovering one, a waiting one and one
that arrives in between; four wrong tries pass the cap of the schedule. In the ledger, three
statements are two to delete and one to hand rows to, three rows are a debit and two credits
or the reverse, two rules can be swapped, and a category of each depth can be moved under
the other. The files share a day, hold one purchase twice and spell it in two ways. The
account names are interchangeable, so symmetry over them is sound; no property is about
liveness. Three screens are the one a box keeps alive, one that was opened since and one more;
two loops are a screen's own box and one of the window's above it. One download is all `shell`
has room for: that several at once leave the program whole is what `UpdatesAreClean` proves.
Two nested questions are a handler waiting under another that waits. The five files share rows, a password and a layout, fan out, or are refused at commit, and any three
of them make a batch; a second pick meets what a cancelled batch left. The vaults lived in
have two overlapping statements, two suggestions that share a row, a category one level too
deep, and account names that sort against their ids: one more write reaches every stale
screen, and one more re-sort every wrong row. Bills fall on days 1, 28, 29, 30 and 31 across
a common and a leap February.

Properties are conjunctions of named parts; each part has its own comment. The larger
ones: `CopyOutlivesItsUse` is `RollbackBeforeSwap` and `NoArtefactAfterCompletion`;
`NothingIsLost` is `OwnedSurvives` and `UndoCopyKept`; `LinksAreSound` is `ReferencesHold`,
`TransferJoinsTwoAccounts` and `OneTransferPerRow`; `AnswersStayPut` is `RememberedOpens`,
`FilesItself` and `NoSignFlip`; `LockedMeansLocked` is `NothingShown` and
`LockScreenIsQuiet`; `WipedForGood` is `RowsGoneWhileLocked`, `WipeTouchesNoVault` and
`WipedScreensAreMute`; `FiguresAgree` is `TilesAgree` and `HonestBalance`.

Some hold only under a condition that is part of their statement. `NoDeadEnd` and
`UndoCopyKept` are about kills and clocks, not about an `OSError` in the middle of a restore.
With one mishap, `OwnedSurvives`, `NoDeadEnd` and `UnlockOpensOwnVault` say nothing of a recovery
that is itself killed or raises, nor of a clock set back *and* a kill: with two they are false
(see the findings). `LockedMeansLocked` is about the dialogs of `Plain`. The recovery-code offer
is not one of them, although its Keep writes the vault: a lock does not clear it, and it may come
up over a locked window. `RowsGoneWhileLocked` leaves out the places no part of the wipe reaches
(`Unreached`). `NeverAsksTwice` covers saved layouts, until the batch
holds all the rows it may: an unnamed one can be asked for again by a PDF unlocked later, and
any at the draft cap (see the observations). `ScreenFollowsVault` leaves out what `known` names.
`SummaryIsFair` and `MissedIsTold` assume a vault that holds everything the bank posted,
over whole months. In the households of `household` rows are filed half-way up at one level
only, under a category that holds another; trees of any depth are the theorem `Figures`.

Each property has a mutant in `PROJECT.json`: a plausible slip in one definition (a
dropped flush, a swapped order, a lost guard) under which the same run fails.

### The findings

`rollback_power_loss` finds a violation of `NeverCalledWrong`:
`restore_rollback_copy` renames the database and the sidecar with no flush between; a power
loss may keep the second and lose the first, and the right password is then called wrong.
Its docstring relies on the order. S4 flushes between the same two renames for this reason.

`recovery_killed` finds a violation of `NoDeadEnd` when a second kill falls inside the recovery
that a first one made necessary. The recovery looks for a stamp with both a database and a
sidecar, and its first rename consumes the database copy: the launch after a kill there finds no
such stamp and reports an incomplete install, over a vault that is all there.

Seven more configurations violate a property that states what a comment or a spec of the
repository says, and one holds. Run them as any other, with the module named here.

| Configuration | Module | Property | What TLC finds |
|---|---|---|---|
| `OlderSetRecovered.cfg` | `MCVaultInstall` | `RecoversOwnSet` | Stamps are wall-clock times. With the clock set back before a restore that is killed, the newest stamp is that of an older set: the recovery puts it over the owner's sidecar (`ui/main_window.py:1589`; `tests/features/backup/spec.md:41` says an older pair "is not recovered in its place"). A recovery killed beside an older set ends in the same way. |
| `RecoveryFailed.cfg` | `MCVaultInstall` | `RetryRecovers` | A recovery that raised after its first rename does not "find the same signature" at the next launch (`ui/main_window.py:1654`): between the database and the WAL of an unpaired set the next launch opens the vault without the WAL's rows. |
| `RestoreRetried.cfg` | `MCVaultInstall` | `RetryKeepsOriginal` | A restore that failed between the move-asides of database and sidecar, tried again, leaves the original split over two stamps, and `_prune_superseded_old_copies` drops the half with the rows (`services/backup.py:619`; INV-17 says "so the original vault survives"). |
| `LateOffer.cfg` | `MCShell` | `OfferIsOfThisUnlock` | The offer a recovery unlock owes is not cleared by a lock that interrupts it: a later unlock with a password shows it, although the comment on the field says it "cannot fire on a later ordinary unlock" (`ui/main_window.py:395`). |
| `OfferOverLock.cfg` | `MCShell` | `OfferNeedsTheKey` | So owed, it may be shown after the failed-upgrade notice in whose event loop the vault locked: over a locked window, where Keep fails. |
| `LockedImport.cfg` | `LockWipe` | `ParsedFileForgotten` | `clear_rows` of the wizard drops what was read but not what was made of it: the preview, the file a batch asks about, the header, the sampled dates, the period pickers (`ui/import_wizard.py:1586`). |
| `LockedCategory.cfg` | `LockWipe` | `WorkspaceForgotten` | The name of the selected category is the hint of the name field, which emptying the field leaves (`ui/categories.py:267`). |
| `RecoveryDisturbed.cfg` | `MCVaultInstall` | `SoleVaultSurvives` | Holds: where no older set lies beside it, the owner's vault is still on the disk after two mishaps, the second in the recovery. |

### Observations

Places where the code does something a comment or a spec does not lead one to expect.
Properties are stated around them; unless a configuration is named, none of these is checked.

- A conversion finished by the resume ladder never raises the recovery-key offer of D7:
  `_just_migrated` is set on the straight path only (`services/auth.py`).
- An `OSError` at the rename of an unpaired set's WAL skips the flush that ends the recovery,
  so the next launch may unlock names a power loss can take back. A restore that failed and is
  then cancelled routes to first run although the vault is whole in its `*.old` copies, until
  the next launch.
- Between `_install`'s three move-aside renames and the flush after them a power loss may
  keep any subset of them.
- An owner quits while a second launch recovers, a third binds the clear path without the
  claim, and the second's `removeServer` unlinks its live socket.
- A file reviewed as already imported because of an earlier file of the batch keeps that
  outcome when the earlier one is cancelled or fails: the report is then wrong of it
  (`ReportIsTrue` excuses exactly this).
- At the draft cap an answered map page leaves its file `not_attempted` and returns before
  `_retry_blocked_on_mapping` (`services/batch_import.py`, `answer`): the other files of the
  layout, which `_on_map_next` has saved by then, are still asked for it one by one.
- The busy update prompt is not torn down when `apply()` fails; only an idle lock clears it.
  `_on_update_now` overwrites a `_download_worker` that still runs (reached with two
  downloads), and closing then destroys a running thread. `lock()` leaves `_idle_suspended`
  set until the display that set it closes.
- Leaving the wizard through the View menu after a batch committed files builds the
  workspace without refreshing the status-bar count. A Yes given to a question of an earlier
  session, after re-unlocking, acts on the reopened vault, and the new page is not told
  (both are in `known`; Qt may instead destroy the box with its page, and both outcomes are
  modelled).
- After a skipped month a monthly stream is not detected again once payments resume, though
  the comment on `_ACTIVE_GRACE` tolerates one missed period; the missed-debit notice ends
  with the stream, up to a day before the next due date. A first statement that begins in
  the middle of a month makes that month a baseline.

### Fairness

- Migration: the process runs what it has started (WF), the owner answers an offer and the
  idle timer locks a session (WF), the owner keeps trying to unlock (SF: a crash disables
  it again and again). Crashes and errors are bounded, so "once they stop" is meaningful.
- Single instance: a launch runs on (WF of its own steps); a waiting launch polls the flock
  every 50 ms, so it gets a claim that keeps coming free (SF).
- Unlock gate: time passes, the event loop and the thread run (WF); the owner reopens the
  dialog (WF) and submits the right password whenever the controls allow (SF).
- Shell: an expired timer is served when the event loop next turns, and a blocking `apply`
  makes it wait (SF of the clipboard timer); `apply` itself does not block (WF). Nothing is
  assumed of the owner.
- Import: Qt delivers queued turns (WF) and the owner answers what is asked (WF of any
  answer, the refusal included), while no single file is on screen. Nothing else is assumed:
  not that the owner starts the run, nor that a scan is let finish.

Deadlock is checked in every run but `shell` (and the two configurations of the offer), where
closing the window, a relaunch and a power loss end the system. `household` ends a life by
stuttering (`Over`).

## 4. What is proved

For every value of the constants: any rows, launches, schedule, files, tables, vaults,
stamps and households; any number of failures. Every safety property of every passing run but
`WipedForGood` is the subject of a theorem, some under hypotheses given below. Three things are out of reach of
the prover and stay with TLC: liveness, `ENABLED`, and induction over recursive operators.

**VaultMigrationProofs**: `TypeCorrect`; `VaultAlwaysOpens` (`Spec => []VaultOpens` when
`MaxDamage = 0`); `NeverRefused`; `CopyOutlives`. `VaultOpens` alone is not inductive: it
says nothing of the artefacts the ladder will trust. `IInv` adds that *every image in
`maybe`* is a `GoodImage`: `LiveWhole` (the live database is healthy and with its own WAL
holds every committed row), `Paired` (the sidecar's key opens it, or it is one rename short
of the v2 vault: pending, with a complete replacement under the new key beside it) and
`Agrees` (the sidecar is the one the process sees, and so is the database's key except
between S5's rename and its flush); and `Phase`: what each `pc` may assume about keys,
artefacts and which entries are already durable. A step is proved once per action; power
loss is the choice of an image that is good already. For `CopyOutlives` the invariant
`CopyInv` joins: through the conversion and the swap the rollback copy is in every image,
verified and complete (`CopyOf`), and a v2 image has the copy for as long as its database
is still under the old key and no artefact once its sidecar no longer says `pending`
(`Tidy`).

When files rot, `IInv` is false and another invariant takes its place: `DamageOffered` and
`OnlyCopyKept`, for any number of damaged files, under `EntriesSurvive` (`PowerLoss = FALSE`:
a crash is a killed process). That half is needed: under a power loss the run
`rollback_power_loss` finds the right password called wrong. `RotInv` says nothing of health but
that the live database opens, and trusts a spare only as far as it reads: `Owned` - under
the old key a copy that reads and a replacement that reads both hold what the live
database holds, so that a replacement is found unsound only when it does not read
(`UnsoundUnread`); under the new key there is no replacement; `Fresh` - no copy is keyed by
a password yet to be chosen, so that a new password makes no old copy usable; and `Mode`,
what each `pc` may rely on, whose last line is the promise: let in by the ladder over a
damaged page, no usable copy is there.

**SingleInstanceProofs**: `TypeCorrect`, `AtMostOneOwner`, `OwnerStaysReachable`, under
`GapIsSafe` (no instance is closed while a launch has found the address in use, and no
launch dies between `removeServer` and the bind after it). The observation about an owner
that quits shows that the first half is needed. The strengthening is `PathHeld`: once a
recovering launch has probed, whatever the path names stays dead until it binds.

**UnlockGateProofs**: `TypeCorrect`, `AtMostOneDerivation`, `DialogOutlivesThread` and both
together as `DerivationStaysOwned`, `GateAlwaysHolds`, `LockoutAlwaysEnds`. `IInv` is
`StampIsHonest` (a stamp never claims more elapsed time than has really passed),
`WaitIsCounted` (time since the first refusal has been credited to the stamp) and
`WorkerOwnsThread`.

**ShellProofs**: `TypeCorrect`, `ShowsNothing`, `StaysLocked`, `IdleLock`,
`UpdatesAreClean`, for any depth of nested event loops. Handlers are functions of the
record `w`, so `WInv` is stated of a record and proved of each function they compose; an
action then only composes. What `LockedMeansLocked` needs beyond itself is what a waiting
handler may assume when it resumes: a refused Keep waits directly above the code's display,
which is still up (`KeepWaits`); a key held by a locked window means that the new master
password is being asked for, under nothing but notices (`NewMasterIsLast`); and the
countdown is stopped by the code's display and nothing else (`CodeStopsTimer`, `TimerRuns`).
`ApplyIsUnlocked` and `SwapIsFlushed` are what `UpdateIsClean` rests on. `StaysLocked` has the
scope of `LockedMeansLocked`: the dialogs of `Plain`, so not the recovery-code offer.

**LedgerProofs**: `TypeCorrect`, `Links`, `Filings`, `FilingKept`, `Batches`, `Imports`,
`Statements`. Three invariants, each resting on the one before: `LInv` (types, references,
transfers), `FInv` (the category tree and what points into it), `KInv` (what a statement
holds). All are stated of tables rather than variables, so that a lemma serves the state
before a step, after it and between the two writes of one. A tree of any depth has no
cycles because a category moves only under one that is not below it (`MoveKeepsTree`).
`CHOOSE` and the greedy pass of transfer detection (`Greedy` is defined as a kernel: what it
picks does not conflict, and whatever it leaves conflicts with something earlier) need
their choice proved to exist, which the lemmas on finite sets do.

The same module proves the window over the tables: `LedgerHoldsUnderWindow`,
`ScreenIsCurrent`, `WritesHit`, `TreeIsShallow`. `WindowSteps` maps a
step of the window to a step of the tables or none, so the three invariants hold under it
(`LedgerUnderWindow`) and may be assumed of every state. The window's own invariant, `WInv`,
is `PageWell` (every highlighted row is a row of a list of the tab and shows an item the
owner clicked on, and in Accounts the form is that of the row: kept by a sort, which turns
rows and selection over together, by a refill, which puts the selection out, and by the two
handlers that highlight a row again), `BoxWell` (a question whose page is there asks about
what is so: the number it named is still the number `delete_preview_many` would count,
because whatever writes to the tables has to wait for it) and the properties. The writes of
the tabs are alike and are proved once (`Tidy`); the other steps are one case each.
`ScreenStep` shows that what a handler does not repaint did not change. `TreeIsShallow` is
about any tree: what is above a moved category's descendants is what lay between, and what
is above the new parent (`MoveStaysShallow`), counted without repetition because no two
categories are above each other (`NoCycle`).

**VaultInstallProofs**: `TypeCorrect` and `ResetErases` (`ResetLeavesNothing`) hold of every
behaviour. `NothingLost`, `LaunchFindsIt` (`NoDeadEnd`), `OpensOwnVault`
(`UnlockOpensOwnVault`) and `Durable` (`SessionIsDurable`) are of the form
`Spec /\ [][Undisturbed]_vars => []P`. `Undisturbed` leaves kills free in any number, except
between two renames of a recovery, and `OSError`s free except in the move-aside and the
installation; the clock is not set back. The exceptions are needed: each is a case of the
findings or the observations in which two mishaps, or one and an older copy, defeat the code.
Of what the hypothesis leaves out the run `install` shows one mishap of any kind, which is
never inside a recovery; of a second one there, `RecoveryDisturbed.cfg` shows what survives
and the findings what does not. `IInv` says where the program is and which files hold the owner's vault there
(`Place`, one definition per group of steps: live, half aside, all aside, coming back) and
that beside them no other copy could be taken for it (`IsVault`): a launch recovers from the
newest stamp that looks whole, so what the *other* stamps hold is what makes the
invariant inductive. `KeepsWay` is the undo copy; `Images` is what a power loss may
leave; `Erased` is what a start-over has removed so far.

**ImportWizardProofs**: `TypeCorrect`, `Reports`, `Asks`, `Stays`, and `Promises`
(`Spec => KeepsItsPromise`): the wizard implements `ApprovedImport`. The invariant is one of
records: `RecOK` relates the fields of one, `Drawn` adds that until the run its preview is
what its account has yet to get, `AskOK` that every open question has no answer yet, but for
the records queued to be read again, and `RunOK` what the report may say so far. `Reports`
and `Promises` both need `CountedFrom`: behind each count of the review there is a base,
not below what the account and each ready file before it hold, and in each key equal to
one of them; as the run lands, fails or skips a file, the base stays one
(`CountsOn`). The refinement maps `approved` to the ready records from the run's place on; a
turn of the run takes its head, and `LandsAsSaid`, from `CountedFrom`, is why the rows are
those promised. A second, weaker half of the base (`Lost`) is what an earlier refusal does.

**HouseholdProofs**: `TypeCorrect`, `Figures` (`Spec => []FiguresAgree`), for any tree of
categories, accounts, household and dates. The services' totals fold over a set in an order
that `CHOOSE` gives. A sum is therefore proved first to be that of its parts, whatever they
are (`SumUnion`, `SumParts`), from the finiteness of the set; the tiles, the donut, the
drill-down, the trend and the summary's sentence then agree because each cuts the same rows
into parts. The drill-down walks down from the tops what `top_of_chain` has climbed: a row is
under exactly one kid of each category above its own (`KidOnTheWay`), so each node weighs the
rows under it (`CategoryNode`) and the branch weighs them all, at any depth
(`CategoryBranch`). `HInv` is what the balances need: the vault's rows are the bank's, and a
closing balance is still what the bank says of that day (`ClosingsAreTrue`), because what
comes later is of later days, which is `PlusDays` over the real calendar. Between two
closings the balance moves by the vault's rows and the lost ones (`Stretch`).

`ForecastIsTheBanks` and `MissesAreTold` (`[]ForecastMeetsTheBank` and `[]MissedIsTold`) are
about bills. The days a bill is due on are a beat, `Beat(b, k)`: no two in a month, and
between two as many days as a month, a week or a fortnight may have (`BeatGrows`). From three
of them on, the gaps have the beat's cadence, and the anchor `intended_day` finds is a day
from which every later one follows, the last day of a month too short among them
(`CadenceIsTheBeat`). The forecast's occurrences are then the beat after today, at every
horizon (`ForecastMeans`), and the first day missed is the next one expected
(`MissedMeans`). The invariant is `HInv` with `BillsAreTaken`: what is posted under a bill's
text is a bill taken when due. This holds in any years, in
households with any other purchases and moves, whatever is lost or answered, under two
hypotheses the theorems state, because the properties are false without them:

- `OrdinaryBills`: bills fall due every month, week or fortnight, for some amount, and nothing
  else is posted under their texts. A bill every twenty days is of no cadence, and a
  purchase under a bill's name is taken for the bill.
- `[]BillsAreNotTransfers`: the owner confirms no row of a bill as a leg of a transfer; a
  stream so confirmed is no longer followed.

Both hold in every state of `household`, and of people's bills.

`SummariesAreFair` is `Spec /\ []BillsAreNotTransfers => [](SteadyBills => SummaryIsFair)`, of
ordinary bills again. The argument is one of loads. In a month the vault has all of, up to a
day `h` that is not its last, what was spent is `Load(h)`, the bills due by then, and the rows
of no bill (`BillsOfMonth`, `MonthTotal`): the load is the same in each month, because a head
day is short of the end of *every* month compared, so a bill moved to a short month's last day
is on the same side of it in all four (`DueInMonth`). The mean of three such months is then
the load and some of their other rows (`MonthAgainstMean`), and a month above it, or below,
has other rows, or they have. The same holds of a merchant's part and a category's (`Of`, any
cut by text and category), which gives the cause named and the spike. `SteadyBills` is what
that takes:

- the vault begins on the first of a month: one begun in the middle has a first month without
  all its bills, which still counts as a month of data for the spike alert, and a category may
  spike on the bills it then lacked;
- no two bills share a text, by which the proof tells whose a row is;
- what goes out every month is at least the summary's floor of 1000 major units: the summary is
  otherwise silent on complete months too.

`SteadyBills` holds in every state of the households `MonthEnds`, `Misses` and `Spending` of
the run; the others are outside the property's premises or the floor.

Assumptions on constants, each named in the module that declares them and evaluated by TLC:
bounds and windows are naturals, files are dated and their entries amounts
(`FilesAreDated`, `EntriesAreAmounts`, `SpansAreOrdered`), a file read gives at least one
statement with counted rows and `None` is no value of theirs (`FilesAreRead`,
`NoneIsNothing`), the vaults the wizard opens on are typed and remember no password for an
account they do not have (`ImportWizard`'s `VaultsAreWhole`), the vaults the window opens on
are whole (`Workspace`'s), the seeded categories are a tree
(`SeedIsATree`), stamps are positive and finitely many (`StampsAreNat`),
the categories are a tree of any depth (`Reporting`'s `CategoriesAreATree`), merchants' keys
are ordered (`Recurring`'s `KeysAreOrdered`: of two equal causes the summary names the smaller),
and households
have real dates, finitely many bills, and texts, accounts and categories that exist
(`HouseholdsAreWhole`). `PowersAreNat` and `MinorUnitsCount` are
there because the prover has no theory of exponentiation.

The type invariants are not among the runs' properties, since the
theorems show them for every instance. Only model-checked: `WipedForGood`, whose sets are
what the code's classes have and leave nothing to generalise; liveness (`MigrationCompletes`,
`LaunchesSettle`, `OwnerGetsIn`, `ClipboardCleared`, `BatchSettles`; the prover has no
fairness); the migration when files rot *and* power is lost, which the first finding shows is not
safe; and what the theorems' hypotheses leave out, which the runs check in part.

## 5. Plan

The project keeps at most a dozen runs and some forty properties, one per question; what is
added is composed into the runs that exist. What is left is to prove `VaultInstall`'s theorems
with one disturbed step of each kind, on its own, for any number of stamps.

## 6. Not modelled

Text and PDF parsing, drawing, formatting, wording, logging and paths: no state a property
could be about; the modules take what a parser returns as given. Cryptography is perfect: a
key opens what it encrypted and nothing else. Signature checking and HTTP of an update: a
download verifies or fails. The clock set forward. Two instances both running because the
guard failed open. `export_backup`, which writes one archive beside the destination and
touches no file of the vault. The Windows swap's durability, which the code does not claim,
`remove_stale_staged_updates` and a detached worker that stages late. Schema migrations: each
version step is one SQLite transaction that ends by writing the version number, so a crash
leaves the version before or after; what the newest schema seeds and constrains is in the
initial states and guards of `Ledger`. Two launches whose windows both run the recovery of
`VaultInstall` before either claims the guard: it is listed as a hazard without a property.
