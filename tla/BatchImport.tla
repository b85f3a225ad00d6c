------------------------------- MODULE BatchImport -------------------------------
(***************************************************************************)
(* Several statement files imported in one run: services/batch_import.py,   *)
(* the review table (ui/import_batch.py) and the chain that drives both one *)
(* file per turn of the event loop (ui/import_wizard.py).                   *)
(*                                                                          *)
(* A file is its content, Library[path]: how it is locked, laid out and     *)
(* parsed.  Rows count by their dedup key, an account by its number, a      *)
(* column mapping by what it makes of the amounts.  Every slot runs to its  *)
(* end before the next event, so each is one step; between two steps the    *)
(* owner may click anything that is on screen, and the vault may lock.      *)
(***************************************************************************)
EXTENDS Naturals, Sequences, FiniteSets, FiniteSetsExt

CONSTANTS
    Library,      \* files the owner may pick, in path order: [kind, ok, lock,
                  \* bank, layout, stmts]; a statement is [rows, span, sound, hint]
    AccountIds, Numbers, Keys, Passwords, Layouts,
    Reversed,     \* the layouts whose amounts are reversed
    Past,         \* what the vault may hold at first: [accounts, books, spans, stored]
    MaxFiles,     \* _MAX_BATCH_FILES
    MaxDrafts,    \* _MAX_BATCH_DRAFTS
    MaxPrompts,   \* _MAX_PASSWORD_PROMPTS
    MaxPicks,     \* bound: times the owner picks files
    MaxBatchPick  \* bound: the last of those that may be a batch

CONSTANTS None

Mappings == {"plain", "reversed", "misfit"}
Previews == [account : AccountIds, fresh : [Keys -> Nat]]

ASSUME NoneIsNothing == /\ None \notin AccountIds /\ None \notin Nat
                        /\ None \notin Mappings /\ None \notin Previews
ASSUME FilesAreRead ==
    /\ DOMAIN Library \subseteq Nat /\ IsFiniteSet(DOMAIN Library) /\ IsFiniteSet(Keys)
    /\ \A p \in DOMAIN Library :
          /\ Library[p].kind \in {"csv", "ofx", "pdf"}
          /\ Len(Library[p].stmts) \in Nat \ {0}
          /\ DOMAIN Library[p].stmts = 1..Len(Library[p].stmts)
          /\ \A i \in DOMAIN Library[p].stmts : Library[p].stmts[i].rows \in [Keys -> Nat]
ASSUME VaultsAreWhole ==
    \A past \in Past :
        /\ DOMAIN past.accounts \subseteq AccountIds
        /\ past.books \in [AccountIds -> [Keys -> Nat]]
        /\ past.stored = [a \in AccountIds |-> past.stored[a]]
        /\ \A a \in AccountIds \ DOMAIN past.accounts : past.stored[a] = None
ASSUME CapIsNat == MaxDrafts \in Nat

VARIABLES
    \* the vault
    accounts,     \* printed numbers by account id (None: no number)
    books,        \* books[a][k]: rows of key k in account a
    spans,        \* {<<account, span>>}: statement_periods
    stored,       \* remembered PDF passwords by account id
    profiles,     \* column mappings by layout
    \* the wizard
    files,        \* the batch's records, in commit order
    index, phase, \* _batch_index, _batch_phase
    armed,        \* the chain's queued turns, as a count by slot
    asking,       \* the record whose question is on screen, or None
    picking,      \* the record whose account picker is open, or None
    typed,        \* _run_passwords
    form,         \* the map page: the mapping its amount fields stand for
    picks         \* times the owner has picked files

vault == <<accounts, books, spans, stored, profiles>>
batch == <<files, index, phase, armed, asking, picking, typed>>

Terminal == {"committed", "failed", "skipped", "not_attempted"}
Blocking == {"needs_password", "needs_mapping"}
Unsettled == Blocking \cup {"needs_account", "waiting"}

Content(r) == Library[r.path]
Stmt(r) == Content(r).stmts[r.stmt]
Sum(r) == MapThenSumSet(LAMBDA k : r[k], DOMAIN r)
Needed(layout) == IF layout \in Reversed THEN "reversed" ELSE "plain"

BatchFile(path) ==
    [path |-> path, stmt |-> 1, outcome |-> "waiting", parsed |-> FALSE, text |-> FALSE,
     mapping |-> None, preview |-> None, account |-> None, new |-> 0, added |-> 0,
     pending |-> None, remember |-> FALSE, tried |-> {}, prompts |-> 0, rescan |-> FALSE]

\* What the vault and the owner may offer as a password; None opens the unlocked.
Words == Passwords \cup {None} \cup UNION {{past.stored[a] : a \in AccountIds} : past \in Past}

Record == [path : DOMAIN Library, stmt : Nat, parsed : BOOLEAN, text : BOOLEAN,
           outcome : Unsettled \cup {"ready", "already_imported"} \cup Terminal,
           mapping : Mappings \cup {None}, preview : Previews \cup {None},
           account : AccountIds \cup {None}, new : Nat, added : Nat,
           pending : Passwords \cup {None}, remember : BOOLEAN, tried : SUBSET Words,
           prompts : Nat, rescan : BOOLEAN]

-----------------------------------------------------------------------------
(* SCAN: read, unlock, map, parse, find the account                          *)
MatchAccount(hint) ==
    LET same == {a \in DOMAIN accounts : accounts[a] = hint}
    IN IF hint # None /\ Cardinality(same) = 1 THEN CHOOSE a \in same : TRUE ELSE None

\* _build_preview: the rows the account does not have yet.
Preview(r, a) ==
    [account |-> a, fresh |-> [k \in Keys |->
        IF Stmt(r).rows[k] > books[a][k] THEN Stmt(r).rows[k] - books[a][k] ELSE 0]]

SetAccount(r, a) ==
    IF ~r.parsed \/ r.outcome \in Terminal THEN r
    ELSE [r EXCEPT !.preview = Preview(r, a), !.account = a, !.outcome = "ready"]

SettleParse(r) ==
    LET p == [r EXCEPT !.parsed = TRUE]
    IN IF Stmt(r).span = None THEN [p EXCEPT !.outcome = "failed"]
       ELSE IF MatchAccount(Stmt(r).hint) = None THEN [p EXCEPT !.outcome = "needs_account"]
       ELSE SetAccount(p, MatchAccount(Stmt(r).hint))

ScanCsv(r) ==
    LET layout == Content(r).layout
        t == [r EXCEPT !.text = TRUE]
    IN IF r.mapping = "misfit" THEN [t EXCEPT !.outcome = "failed"]
       ELSE IF r.mapping # None THEN SettleParse(t)
       ELSE IF layout \in DOMAIN profiles THEN SettleParse([t EXCEPT !.mapping = profiles[layout]])
       ELSE [t EXCEPT !.outcome = "needs_mapping"]

StoredPasswords == {stored[a] : a \in DOMAIN accounts} \ {None}
PasswordLadder(run) == StoredPasswords \cup run

\* _decrypt: no password, then each known one this file was not tried with.
\* `run` is the passwords typed so far, the one just typed included.
ScanPdf(r, run) ==
    LET try == ({None} \cup PasswordLadder(run)) \ r.tried
        tried == [r EXCEPT !.tried = @ \cup try]
    IN IF r.text THEN ScanCsv(r)
       ELSE IF Content(r).lock \notin try THEN [tried EXCEPT !.outcome = "needs_password"]
       ELSE IF Content(r).bank THEN SettleParse(tried)
       ELSE ScanCsv(tried)

\* _scan_ofx: one record per statement, the first in the file's own record.
ScanOfx(r) == [i \in 1..Len(Content(r).stmts) |->
                  SettleParse([IF i = 1 THEN r ELSE BatchFile(r.path) EXCEPT !.stmt = i])]

Scan(r, run) ==
    IF ~Content(r).ok THEN <<[r EXCEPT !.outcome = "failed"]>>
    ELSE IF Content(r).kind = "ofx" THEN ScanOfx(r)
    ELSE IF Content(r).kind = "pdf" THEN <<ScanPdf(r, run)>>
    ELSE <<ScanCsv(r)>>

DraftTotal(fs) ==
    LET drafts == [i \in DOMAIN fs |-> Sum(Stmt(fs[i]).rows)]
    IN MapThenSumSet(LAMBDA i : drafts[i], {i \in DOMAIN fs : fs[i].parsed})
Full(fs) == DraftTotal(fs) >= MaxDrafts

StopFrom(fs, i) == [j \in DOMAIN fs |->
    IF j >= i /\ fs[j].outcome \in {"waiting", "ready"}
    THEN [fs[j] EXCEPT !.outcome = "not_attempted"] ELSE fs[j]]

Splice(fs, i, new) == SubSeq(fs, 1, i - 1) \o new \o SubSeq(fs, i + 1, Len(fs))

ScanStep(fs, i) ==
    IF fs[i].outcome \in Terminal THEN [files |-> fs, next |-> i + 1]
    ELSE IF Full(fs) THEN [files |-> StopFrom(fs, i), next |-> Len(fs) + 1]
    ELSE LET new == Scan(fs[i], typed)
         IN [files |-> Splice(fs, i, new), next |-> i + Len(new)]

-----------------------------------------------------------------------------
(* ASK                                                                       *)
NextQuestion(fs) == IF \E i \in DOMAIN fs : fs[i].outcome \in Blocking
                    THEN Min({i \in DOMAIN fs : fs[i].outcome \in Blocking}) ELSE None

\* _rescan_blocked
AskEachAgain(fs, i, outcome) == fs
QueueBlocked(fs, i, outcome) ==
    [j \in DOMAIN fs |-> IF j # i /\ fs[j].outcome = outcome
                         THEN [fs[j] EXCEPT !.rescan = TRUE] ELSE fs[j]]

\* The one record a question concerns never fans out: an OFX is never asked about.
Rescanned(r, run) == Scan([r EXCEPT !.outcome = "waiting"], run)[1]

AnswerPassword(fs, i, p) ==
    IF fs[i].outcome \in Terminal THEN fs
    ELSE IF Full(fs) THEN [fs EXCEPT ![i].outcome = "not_attempted"]
    ELSE QueueBlocked([fs EXCEPT ![i] = Rescanned([@ EXCEPT !.pending = p], typed \cup {p})],
                      i, "needs_password")

\* _retry_blocked_on_mapping: the other files of exactly this layout get it too.
ShareMapping(fs, i) ==
    [j \in DOMAIN fs |->
        IF j # i /\ fs[j].outcome = "needs_mapping" /\ Content(fs[j]).layout = Content(fs[i]).layout
        THEN [fs[j] EXCEPT !.mapping = fs[i].mapping] ELSE fs[j]]

AnswerMapping(fs, i, m) ==
    IF fs[i].outcome \in Terminal THEN fs
    ELSE IF Full(fs) THEN [fs EXCEPT ![i].outcome = "not_attempted"]
    ELSE QueueBlocked(ShareMapping([fs EXCEPT ![i] = Rescanned([@ EXCEPT !.mapping = m], typed)], i),
                      i, "needs_mapping")

Decline(fs, i) == IF fs[i].outcome \in Terminal THEN fs
                  ELSE [fs EXCEPT ![i].outcome = "skipped"]

Queued(fs) == {i \in DOMAIN fs : fs[i].rescan}

RescanStep(fs) ==
    LET i == Min(Queued(fs))
        fs1 == [fs EXCEPT ![i].rescan = FALSE]
    IN IF fs[i].outcome \notin Blocking THEN fs1
       ELSE IF Full(fs) THEN [fs1 EXCEPT ![i].outcome = "not_attempted"]
       ELSE [fs1 EXCEPT ![i] = Rescanned(@, typed)]

-----------------------------------------------------------------------------
(* REVIEW                                                                    *)
Live(r) == r.preview # None /\ r.outcome \notin Terminal
Take(r, claimed) == [k \in Keys |->
    IF r.preview.fresh[k] > claimed[r.preview.account][k]
    THEN r.preview.fresh[k] - claimed[r.preview.account][k] ELSE 0]

\* cumulative_counts: what the records up to the i-th claim, by account.
Claimed(fs) ==
    LET upTo[i \in 0..Len(fs)] ==
            IF i = 0 THEN [a \in AccountIds |-> [k \in Keys |-> 0]]
            ELSE IF ~Live(fs[i]) THEN upTo[i - 1]
            ELSE LET a == fs[i].preview.account  take == Take(fs[i], upTo[i - 1])
                 IN [upTo[i - 1] EXCEPT ![a] = [k \in Keys |-> @[k] + take[k]]]
    IN upTo

NewCountOfOneFile(fs, i) == Sum(fs[i].preview.fresh)
NewCount(fs, i) == Sum(Take(fs[i], Claimed(fs)[i - 1]))

ReviewBySpan(fs) ==
    [i \in DOMAIN fs |->
        IF ~Live(fs[i]) THEN fs[i]
        ELSE [fs[i] EXCEPT !.new = NewCount(fs, i),
                  !.outcome = IF <<fs[i].preview.account, Stmt(fs[i]).span>> \in spans
                              THEN "already_imported" ELSE "ready"]]
Review(fs) ==
    [i \in DOMAIN fs |->
        IF ~Live(fs[i]) THEN fs[i]
        ELSE LET n == NewCount(fs, i)
             IN [fs[i] EXCEPT !.new = n,
                     !.outcome = IF n = 0 /\ <<fs[i].preview.account, Stmt(fs[i]).span>> \in spans
                                 THEN "already_imported" ELSE "ready"]]

CanImport(fs) == /\ \E i \in DOMAIN fs : fs[i].outcome = "ready"
                 /\ \A i \in DOMAIN fs : fs[i].outcome \notin Unsettled

-----------------------------------------------------------------------------
(* ui/import_wizard.py: the chain                                            *)
\* _reset_unmatched_mapping_form: the page is reused from file to file.
KeepForm == form
ResetForm == "plain"

Idle == [slot \in {"scan", "ask", "run"} |-> 0]

Arm(slot) == armed' = [armed EXCEPT ![slot] = @ + 1]
\* _resume_ask
ForgetToResume == UNCHANGED armed
ResumeAsk == Arm("ask")

\* A turn of the chain: the slot runs, then queues `next` (None: nothing).
Turn(slot, next) ==
    /\ armed[slot] > 0
    /\ armed' = [s \in DOMAIN armed |->
          armed[s] - (IF s = slot THEN 1 ELSE 0) + (IF s = next THEN 1 ELSE 0)]
\* Nothing modal is over the table, and the map page is not shown instead.
TableOnTop == asking = None /\ picking = None /\ phase # "idle"

\* _select_files.  The file dialog ran an event loop of its own: no turn of an
\* earlier batch is still queued.
SelectFiles(paths) ==
    LET n == Cardinality(paths)
        nth(i) == CHOOSE p \in paths : Cardinality({q \in paths : q < p}) = i - 1
        over == n > MaxFiles
    IN /\ n > 1 /\ phase = "idle" /\ armed = Idle /\ picks < MaxBatchPick
       /\ files' = [i \in 1..n |-> [BatchFile(nth(i)) EXCEPT
                        !.outcome = IF over THEN "not_attempted" ELSE "waiting"]]
       /\ index' = 1 /\ phase' = "scan" /\ asking' = None /\ typed' = {}
       /\ picks' = picks + 1 /\ Arm("scan")
       /\ UNCHANGED <<vault, picking, form>>

ScanNext ==
    /\ index <= Len(files) /\ phase = "scan" /\ Turn("scan", "scan")
    /\ LET step == ScanStep(files, index) IN files' = step.files /\ index' = step.next
    /\ UNCHANGED <<vault, phase, asking, picking, typed, form, picks>>

\* _begin_ask, once the queue of re-scans is empty.
AskNext(slot) ==
    LET i == NextQuestion(files)
        tired == files[i].outcome = "needs_password" /\ files[i].prompts >= MaxPrompts
        review == Review(files)
    IN IF i = None
       THEN /\ files' = review /\ phase' = "review" /\ asking' = None
            /\ Turn(slot, None) /\ UNCHANGED form
       ELSE /\ phase' = "ask"
            /\ IF tired THEN /\ files' = Decline(files, i) /\ asking' = None
                             /\ Turn(slot, "ask") /\ UNCHANGED form
               ELSE /\ asking' = i /\ Turn(slot, None)
                    /\ IF files[i].outcome = "needs_password"
                       THEN files' = [files EXCEPT ![i].prompts = @ + 1] /\ UNCHANGED form
                       ELSE form' = ResetForm /\ UNCHANGED files

BeginAsk ==
    /\ \/ phase = "scan" /\ index > Len(files) /\ armed["scan"] > 0
       \/ phase = "ask" /\ armed["ask"] > 0
    /\ LET slot == IF phase = "scan" THEN "scan" ELSE "ask"
       IN IF Queued(files) # {}
          THEN /\ files' = RescanStep(files) /\ phase' = "ask" /\ Turn(slot, "ask")
               /\ UNCHANGED <<asking, form>>
          ELSE AskNext(slot)
    /\ UNCHANGED <<vault, index, picking, typed, picks>>

\* A turn of a phase that is over.
StaleTurn == \E slot \in DOMAIN armed :
    /\ phase # slot /\ ~(slot = "ask" /\ phase = "scan")
    /\ Turn(slot, None)
    /\ UNCHANGED <<vault, files, index, phase, asking, picking, typed, form, picks>>

\* _on_batch_password, and its tail _resume_ask.
OnBatchPassword(p, remember) ==
    /\ asking # None /\ files[asking].outcome = "needs_password"
    /\ files' = [IF p = None THEN Decline(files, asking) ELSE AnswerPassword(files, asking, p)
                    EXCEPT ![asking].remember = remember]
    /\ typed' = IF p = None \/ Full(files) THEN typed ELSE typed \cup {p}
    /\ asking' = None /\ ResumeAsk
    /\ UNCHANGED <<vault, index, phase, picking, form, picks>>

\* _on_map_next for a batch.  The owner ticks "reversed" where the layout needs
\* it and leaves a tick that is there; a layout that is named is saved first,
\* and one that does not fit is then refused on the spot.
Ticked(layout) == IF form = "reversed" THEN "reversed" ELSE Needed(layout)

OnMapNext(fits, named) ==
    LET layout == Content(files[asking]).layout
        m == IF fits THEN Ticked(layout) ELSE "misfit"
    IN /\ asking # None /\ files[asking].outcome = "needs_mapping" /\ (named => fits)
       /\ form' = Ticked(layout)
       /\ profiles' = IF named THEN [l \in DOMAIN profiles \cup {layout} |->
                                        IF l = layout THEN m ELSE profiles[l]] ELSE profiles
       /\ files' = AnswerMapping(files, asking, m)
       /\ asking' = None /\ ResumeAsk
       /\ UNCHANGED <<accounts, books, spans, stored, index, phase, picking, typed, picks>>

OnMapCancel ==
    /\ asking # None /\ files[asking].outcome = "needs_mapping"
    /\ files' = Decline(files, asking)
    /\ asking' = None /\ ResumeAsk
    /\ UNCHANGED <<vault, index, phase, picking, typed, form, picks>>

-----------------------------------------------------------------------------
(* ui/import_batch.py                                                        *)
ChooseAccount(i) ==
    /\ TableOnTop /\ phase \notin {"run", "report"}
    /\ files[i].parsed /\ files[i].outcome \notin Terminal
    /\ picking' = i
    /\ UNCHANGED <<vault, files, index, phase, armed, asking, typed, form, picks>>

\* _settle
Settle(i, a) == files' = Review([files EXCEPT ![i] = SetAccount(@, a)]) /\ picking' = None

ApplyAccount(a) ==
    /\ picking # None /\ a \in DOMAIN accounts /\ Settle(picking, a)
    /\ UNCHANGED <<vault, index, phase, armed, asking, typed, form, picks>>

\* _created: the statement's number, or none if the owner clears it.
Created(a, number) ==
    /\ picking # None /\ Stmt(files[picking]).hint # None
    /\ a \in AccountIds \ DOMAIN accounts /\ number \in {Stmt(files[picking]).hint, None}
    /\ accounts' = [b \in DOMAIN accounts \cup {a} |-> IF b = a THEN number ELSE accounts[b]]
    /\ Settle(picking, a)
    /\ UNCHANGED <<books, spans, stored, profiles, index, phase, armed, asking, typed, form, picks>>

ClosePicker ==
    /\ picking # None /\ picking' = None
    /\ UNCHANGED <<vault, files, index, phase, armed, asking, typed, form, picks>>

-----------------------------------------------------------------------------
(* RUN                                                                       *)
OnBatchImport ==
    /\ TableOnTop /\ phase = "review" /\ CanImport(files)
    /\ index' = 1 /\ phase' = "run" /\ Arm("run")
    /\ UNCHANGED <<vault, files, asking, picking, typed, form, picks>>

Running == phase = "run" /\ index <= Len(files) /\ armed["run"] > 0

\* _remember_password
Remembering(r) == IF r.remember /\ r.pending # None
                  THEN [stored EXCEPT ![r.account] = r.pending] ELSE stored

Commit(r) ==
    LET p == r.preview  now == Preview(r, p.account)
    IN /\ books' = [books EXCEPT ![p.account] = [k \in Keys |-> @[k] + now.fresh[k]]]
       /\ spans' = spans \cup {<<p.account, Stmt(r).span>>}
       /\ stored' = Remembering(r)
       /\ files' = [files EXCEPT ![index].outcome = "committed", ![index].added = Sum(now.fresh)]

\* run_step: a file that is not ready is passed over; one whose span is refused
\* fails and the run goes on.
RunNext ==
    LET r == files[index] IN
    /\ Running /\ Turn("run", "run") /\ index' = index + 1
    /\ IF r.outcome # "ready" THEN UNCHANGED <<files, books, spans, stored>>
       ELSE IF Stmt(r).sound THEN Commit(r)
       ELSE files' = [files EXCEPT ![index].outcome = "failed"] /\ UNCHANGED <<books, spans, stored>>
    /\ UNCHANGED <<accounts, profiles, phase, asking, picking, typed, form, picks>>

\* A database error ends the run; its rows are rolled back.
RunBreaks ==
    /\ Running /\ files[index].outcome = "ready" /\ Stmt(files[index]).sound
    /\ files' = StopFrom([files EXCEPT ![index].outcome = "failed"], index + 1)
    /\ index' = Len(files) + 1 /\ phase' = "report" /\ typed' = {} /\ Turn("run", None)
    /\ UNCHANGED <<vault, asking, picking, form, picks>>

RunEnds ==
    /\ phase = "run" /\ index > Len(files) /\ Turn("run", None)
    /\ phase' = "report" /\ typed' = {}
    /\ UNCHANGED <<vault, files, index, asking, picking, form, picks>>

OnBatchCancel ==
    /\ TableOnTop /\ phase \notin {"idle", "report"}
    /\ typed' = {}
    /\ IF phase = "run" THEN phase' = "report" /\ files' = StopFrom(files, index)
       ELSE phase' = "idle" /\ files' = <<>>
    /\ UNCHANGED <<vault, index, armed, asking, picking, form, picks>>

\* Close after a report, and an auto-lock: the wizard and its queued turns go.
NewWizard ==
    /\ files' = <<>> /\ index' = 1 /\ phase' = "idle" /\ armed' = Idle
    /\ asking' = None /\ picking' = None /\ typed' = {} /\ form' = "plain"
    /\ UNCHANGED <<vault, picks>>
Close == phase = "report" /\ NewWizard
Lock == NewWizard

-----------------------------------------------------------------------------
BatchInit ==
    /\ \E past \in Past : /\ accounts = past.accounts /\ books = past.books
                          /\ spans = past.spans /\ stored = past.stored
    /\ profiles = <<>> /\ files = <<>> /\ index = 1 /\ phase = "idle" /\ armed = Idle
    /\ asking = None /\ picking = None /\ typed = {} /\ form = "plain" /\ picks = 0

ChainTurn == ScanNext \/ BeginAsk \/ RunNext \/ RunEnds \/ StaleTurn
OwnerAnswers ==
    \/ \E p \in Passwords \cup {None}, remember \in BOOLEAN : OnBatchPassword(p, remember)
    \/ \E fits, named \in BOOLEAN : OnMapNext(fits, named)
    \/ OnMapCancel

BatchNext ==
    \/ \E paths \in SUBSET DOMAIN Library : SelectFiles(paths)
    \/ ChainTurn \/ OwnerAnswers \/ RunBreaks
    \/ \E i \in DOMAIN files : ChooseAccount(i)
    \/ \E a \in AccountIds : ApplyAccount(a)
    \/ \E a \in AccountIds, n \in Numbers \cup {None} : Created(a, n)
    \/ ClosePicker \/ OnBatchImport \/ OnBatchCancel \/ Close \/ Lock
=============================================================================
